---------------------------- MODULE CbfuseRestart ----------------------------
(***************************************************************************)
(* Proof that a process can start whatever the one before it left behind:  *)
(* one mount at a time, stopped anywhere, whose calls do not fail.         *)
(***************************************************************************)
EXTENDS CbfuseAnchors

\* What is stored for the root is a directory.
RootIsDirectory == Exists(stats, Root) => stats[Root].type = "dir"

\* insert_root inserts what is not there.
InsertsFreshRoot(m) ==
  req[m].op = "mount" =>
    /\ pc[m] = "insert_stat" => ~Exists(stats, Root)
    /\ pc[m] = "add_new_dentry" => ~Exists(dentries, Root)

RestartInv ==
  /\ RootIsDirectory
  /\ \A m \in Mounts : InsertsFreshRoot(m)
  /\ RestartSucceeds

\* Only main ends the process.
LEMMA AfterNotDown ==
  ASSUME NEW op, NEW at, NEW r, op # "mount"
  PROVE  After(op, at, r) # "down"
BY DEF After, cbfuse_open, cbfuse_create, cbfuse_mkdir, cbfuse_unlink,
   cbfuse_rmdir, read_data, write_data, truncate_data, update_stat

LEMMA AfterLookupNotDown ==
  ASSUME NEW q, NEW r, NEW type, q.op # "mount"
  PROVE  AfterLookup(q, r, type) # "down"
BY DEF AfterLookup, FirstCall

\* No function but main returns EXIT_FAILURE.
LEMMA NoFailure ==
  ASSUME NEW m \in Mounts, Alone, TypeOK, NEW q, NEW next, NEW r,
         next # "down", r # "EXIT_FAILURE", Resume(m, q, next, r)
  PROVE  RestartSucceeds'
<1>1. Returned(q, pc[m], next, r) # "EXIT_FAILURE"
  BY DEF Returned
<1>2. fresult'[m] = Returned(q, pc[m], next, r)
  BY DEF Resume, TypeOK
<1> QED
  BY <1>1, <1>2 DEF RestartSucceeds, Alone

\* A step of a request that leaves the root's stat document and its type alone.
LEMMA OtherRequest ==
  ASSUME NEW m \in Mounts, Alone, TypeOK, RestartInv,
         NEW q, q.op # "mount", NEW next, NEW r,
         next # "down", r # "EXIT_FAILURE", Resume(m, q, next, r),
         Exists(stats, Root)' =>
           Exists(stats, Root) /\ stats'[Root].type = stats[Root].type
  PROVE  RestartInv'
<1>1. RestartSucceeds'
  BY NoFailure
<1>2. req'[m].op # "mount"
  BY DEF Resume, TypeOK, NoRequest, Request
<1>3. InsertsFreshRoot(m)'
  BY <1>2 DEF InsertsFreshRoot
<1>4. RootIsDirectory'
  BY DEF RestartInv, RootIsDirectory
<1> QED
  BY <1>1, <1>3, <1>4 DEF RestartInv, Alone

LEMMA GetattrRestarts ==
  ASSUME NEW m \in Mounts, Alone, AnchorInv, RestartInv, getattr(m)
  PROVE  RestartInv'
<1> SUFFICES ASSUME NEW q, q = req[m]
             PROVE  RestartInv'
  OBVIOUS
<1>1. PICK o \in Outcomes :
        LET r    == IF q.path \in LongPaths THEN "+ENAMETOOLONG"
                    ELSE Reply(o, Exists(stats, q.path))
            type == IF r = "ok" THEN stats[q.path].type ELSE "none"
            seen == IF q.op = "chmod" THEN [q EXCEPT !.type = type] ELSE q
        IN  Resume(m, seen, AfterLookup(q, r, type), r)
  BY DEF getattr
<1> DEFINE r    == IF q.path \in LongPaths THEN "+ENAMETOOLONG"
                   ELSE Reply(o, Exists(stats, q.path))
           type == IF r = "ok" THEN stats[q.path].type ELSE "none"
           seen == IF q.op = "chmod" THEN [q EXCEPT !.type = type] ELSE q
           next == AfterLookup(q, r, type)
<1>2. q \in RequestDocs /\ Asked(q)
  BY ServedOnCourse DEF getattr, Rest
<1>3. Resume(m, seen, next, r) /\ r # "EXIT_FAILURE" /\ UNCHANGED store
  BY <1>1 DEF getattr, Reply
<1>4. CASE q.op # "mount"
  <2>1. seen.op # "mount"
    BY <1>2, <1>4 DEF RequestDocs
  <2>2. next # "down"
    BY <1>4, AfterLookupNotDown
  <2> HIDE DEF next, seen, r
  <2> QED
    BY <1>3, <2>1, <2>2, OtherRequest DEF AnchorInv, store, Exists
<1>5. CASE q.op = "mount"
  <2>1. q.path = Root /\ seen = q
    BY <1>2, <1>5 DEF Asked
  <2>2. r = IF Exists(stats, Root) THEN "ok" ELSE "ENOENT"
    BY <2>1, Answered, PathAssumption DEF Exists
  <2>3. next = IF Exists(stats, Root) THEN "idle" ELSE "insert_stat"
    <3>1. Exists(stats, Root) => type = "dir"
      BY <2>1, <2>2 DEF RestartInv, RootIsDirectory
    <3> HIDE DEF r, type
    <3>2. next = verify_root(r, type)
      BY <1>5 DEF AfterLookup, LookupAdmits
    <3> QED
      BY <2>2, <3>1, <3>2 DEF verify_root
  <2>4. Resume(m, q, next, r)
    BY <1>3, <2>1
  <2> HIDE DEF next, seen, r
  <2>5. RestartSucceeds'
    BY <1>3, <2>3, <2>4, NoFailure DEF AnchorInv
  <2>6. pc'[m] = next
    BY <2>4 DEF Resume, AnchorInv, TypeOK
  <2>7. InsertsFreshRoot(m)'
    BY <1>3, <2>3, <2>6 DEF InsertsFreshRoot, store, Exists
  <2> QED
    BY <1>3, <2>5, <2>7 DEF RestartInv, RootIsDirectory, store, Exists, Alone
<1> QED
  BY <1>4, <1>5

\* insert_root is on its own in the bucket: both inserts succeed.
LEMMA InsertStatRestarts ==
  ASSUME NEW m \in Mounts, Alone, AnchorInv, RestartInv, insert_stat(m)
  PROVE  RestartInv'
<1> SUFFICES ASSUME NEW q, q = req[m]
             PROVE  RestartInv'
  OBVIOUS
<1> DEFINE p == q.path
           next(r) == After(q.op, "insert_stat", r)
           doc == [type |-> q.type, perm |-> q.perm, size |-> 0]
<1>1. q \in RequestDocs /\ p \in Paths /\ Asked(q) /\ Stage(q, "insert_stat")
  BY ServedOnCourse DEF insert_stat, Rest
<1>2. q.op \in {"mount", "create", "mkdir"}
  BY <1>1 DEF Stage, UnlinkStage, RmdirStage, DataStage, MetaStage
<1>3. PICK r :
        /\ r = IF ~Exists(stats, p) THEN "ok" ELSE "ENOENT"
        /\ Resume(m, q, next(r), r)
        /\ IF ~Exists(stats, p) THEN stats' = [stats EXCEPT ![p] = doc]
                                ELSE UNCHANGED stats
  BY Answered DEF insert_stat, InsertAllowed, Exists
<1>4. UNCHANGED dentries
  BY DEF insert_stat
<1>5. CASE q.op # "mount"
  <2>1. p # Root
    BY <1>1, <1>2, <1>5 DEF Asked
  <2>2. stats'[Root] = stats[Root]
    BY <1>3, <2>1, PathAssumption DEF AnchorInv, TypeOK
  <2>3. next(r) # "down"
    BY <1>5, AfterNotDown
  <2> HIDE DEF next
  <2> QED
    BY <1>3, <1>5, <2>2, <2>3, OtherRequest DEF AnchorInv, Exists
<1>6. CASE q.op = "mount"
  <2>1. p = Root /\ q.type = "dir"
    BY <1>1, <1>6 DEF Asked
  <2>2. ~Exists(stats, Root)
    BY <1>6 DEF insert_stat, RestartInv, InsertsFreshRoot
  <2>3. ~Exists(dentries, Root)
    BY <2>2, PathAssumption
    DEF AnchorInv, StatAnchors, DentriesHaveStat, Exists
  <2>4. r = "ok" /\ next(r) = "add_new_dentry"
    BY <1>3, <1>6, <2>1, <2>2 DEF After, insert_root
  <2>5. stats'[Root] = doc
    BY <1>3, <2>1, <2>2, PathAssumption DEF AnchorInv, TypeOK
  <2>6. RootIsDirectory'
    BY <2>1, <2>5 DEF RootIsDirectory
  <2> HIDE DEF next
  <2>7. RestartSucceeds'
    BY <1>3, <2>4, NoFailure DEF AnchorInv
  <2>8. pc'[m] = "add_new_dentry"
    BY <1>3, <2>4 DEF Resume, AnchorInv, TypeOK
  <2>9. InsertsFreshRoot(m)'
    BY <1>4, <2>3, <2>8 DEF InsertsFreshRoot, Exists
  <2> QED
    BY <2>6, <2>7, <2>9 DEF RestartInv, Alone
<1> QED
  BY <1>5, <1>6

LEMMA AddNewDentryRestarts ==
  ASSUME NEW m \in Mounts, Alone, AnchorInv, RestartInv, add_new_dentry(m)
  PROVE  RestartInv'
<1> SUFFICES ASSUME NEW q, q = req[m]
             PROVE  RestartInv'
  OBVIOUS
<1> DEFINE p == q.path
           next(r) == After(q.op, "add_new_dentry", r)
<1>1. q \in RequestDocs /\ Asked(q)
  BY ServedOnCourse DEF add_new_dentry, Rest
<1>2. PICK r :
        /\ r = IF ~Exists(dentries, p) THEN "ok" ELSE "ENOENT"
        /\ Resume(m, q, next(r), r)
  BY Answered DEF add_new_dentry, Exists
<1>3. UNCHANGED stats
  BY DEF add_new_dentry
<1>4. CASE q.op # "mount"
  <2>1. next(r) # "down"
    BY <1>4, AfterNotDown
  <2> HIDE DEF next
  <2> QED
    BY <1>2, <1>3, <1>4, <2>1, OtherRequest DEF AnchorInv, Exists
<1>5. CASE q.op = "mount"
  <2>1. p = Root
    BY <1>1, <1>5 DEF Asked
  <2>2. ~Exists(dentries, Root)
    BY <1>5 DEF add_new_dentry, RestartInv, InsertsFreshRoot
  <2>3. r = "ok" /\ next(r) = "idle"
    BY <1>2, <1>5, <2>1, <2>2 DEF After, insert_root
  <2> HIDE DEF next
  <2>4. RestartSucceeds'
    BY <1>2, <2>3, NoFailure DEF AnchorInv
  <2>5. pc'[m] = "idle"
    BY <1>2, <2>3 DEF Resume, AnchorInv, TypeOK
  <2>6. InsertsFreshRoot(m)'
    BY <2>5 DEF InsertsFreshRoot
  <2> QED
    BY <1>3, <2>4, <2>6 DEF RestartInv, RootIsDirectory, Exists, Alone
<1> QED
  BY <1>4, <1>5

\* The other calls belong to requests of users, who cannot remove the root.
LEMMA OtherCallsRestart ==
  ASSUME NEW m \in Mounts, Alone, AnchorInv, RestartInv,
         \/ open(m) \/ get_stat(m) \/ replace_stat(m) \/ remove_stat(m)
         \/ get_dentry(m) \/ replace_dentry(m) \/ remove_dentry(m)
         \/ BlocksCall(m)
  PROVE  RestartInv'
<1> SUFFICES ASSUME NEW q, q = req[m], NEW at, at = pc[m]
             PROVE  RestartInv'
  OBVIOUS
<1>1. at \notin Rest \cup {"getattr", "insert_stat", "add_new_dentry"}
  BY DEF open, get_stat, replace_stat, remove_stat, get_dentry, replace_dentry,
     remove_dentry, BlocksCall, refuse_block, get_block, store_block,
     remove_data, Rest
<1>2. q \in RequestDocs /\ q.path \in Paths /\ Asked(q) /\ Stage(q, at)
  BY <1>1, ServedOnCourse
<1>3. q.op # "mount"
  BY <1>1, <1>2 DEF Stage, MountStage
<1>4. \E r : /\ r # "EXIT_FAILURE"
             /\ \/ Resume(m, q, After(q.op, at, r), r)
                \/ Resume(m, q, "idle", r)
  BY DEF open, get_stat, replace_stat, remove_stat, get_dentry, replace_dentry,
     remove_dentry, BlocksCall, refuse_block, get_block, store_block,
     remove_data, Reply, BlockReport
<1>5. Exists(stats, Root)' =>
        Exists(stats, Root) /\ stats'[Root].type = stats[Root].type
  <2>1. CASE UNCHANGED stats
    BY <2>1 DEF Exists
  <2>2. CASE replace_stat(m)
    BY <2>2, ReplaceKeepsTypes, PathAssumption
  <2>3. CASE remove_stat(m)
    <3>1. q.op \in {"unlink", "rmdir"}
      BY <1>2, <2>3 DEF remove_stat, Stage, MountStage, CreateStage, MkdirStage,
         DataStage, MetaStage
    <3>2. q.path # Root
      BY <1>2, <3>1 DEF Asked
    <3>3. stats'[Root] = stats[Root]
      BY <2>3, <3>2, PathAssumption DEF remove_stat, AnchorInv, TypeOK
    <3> QED
      BY <3>3 DEF Exists
  <2> QED
    BY <2>1, <2>2, <2>3
    DEF open, get_stat, get_dentry, replace_dentry, remove_dentry, BlocksCall,
        refuse_block, get_block, store_block, remove_data, store
<1>6. \E next, r : /\ next # "down" /\ r # "EXIT_FAILURE"
                   /\ Resume(m, q, next, r)
  BY <1>3, <1>4, AfterNotDown
<1> QED
  BY <1>3, <1>5, <1>6, OtherRequest DEF AnchorInv

LEMMA EnvironmentRestarts ==
  ASSUME NEW m \in Mounts, Alone, AnchorInv, RestartInv,
         Mount(m) \/ Begin(m) \/ Unmount(m) \/ Die(m)
  PROVE  RestartInv'
<1>1. /\ pc'[m] \in {"getattr", "down"}
      /\ fresult'[m] \in {"ok", "crashed"}
      /\ UNCHANGED store
  BY DEF Mount, Begin, Unmount, Die, AnchorInv, TypeOK
<1> QED
  BY <1>1 DEF RestartInv, RootIsDirectory, InsertsFreshRoot, RestartSucceeds,
              store, Exists, Alone

LEMMA NextRestarts ==
  Alone /\ AnchorInv /\ RestartInv /\ [Next]_vars => RestartInv'
<1> SUFFICES ASSUME Alone, AnchorInv, RestartInv, [Next]_vars
             PROVE  RestartInv'
  OBVIOUS
<1>1. CASE UNCHANGED vars
  BY <1>1 DEF vars, RestartInv, RootIsDirectory, InsertsFreshRoot,
     RestartSucceeds, Exists
<1>2. ASSUME NEW m \in Mounts, Serve(m)
      PROVE  RestartInv'
  BY <1>2, GetattrRestarts, InsertStatRestarts, AddNewDentryRestarts,
     OtherCallsRestart DEF Serve, StatsCall, DentriesCall
<1>3. ASSUME NEW m \in Mounts,
             Mount(m) \/ Begin(m) \/ Unmount(m)
               \/ Crash(m) \/ update_block_overrun(m)
      PROVE  RestartInv'
  BY <1>3, EnvironmentRestarts DEF Crash, update_block_overrun
<1> QED
  BY <1>1, <1>2, <1>3 DEF Next

\* Wherever main, insert_root or any handler was stopped, and however often, the
\* next process finds the root directory or inserts it: main does not fail for
\* anything an earlier process left in the bucket.
THEOREM RestartAlwaysSucceeds ==
  ASSUME Alone
  PROVE  Spec => []RestartSucceeds
<1>1. Init => AnchorInv /\ RestartInv
  BY InitAnchored, PathAssumption
  DEF Init, RestartInv, RootIsDirectory, InsertsFreshRoot, RestartSucceeds,
      Exists, NoRequest, Request
<1>2. AnchorInv /\ RestartInv /\ [Next]_vars => (AnchorInv /\ RestartInv)'
  BY NextAnchored, NextRestarts
<1>3. RestartInv => RestartSucceeds
  BY DEF RestartInv
<1> QED
  BY <1>1, <1>2, <1>3, PTL DEF Spec

=============================================================================
