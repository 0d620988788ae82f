------------------------------- MODULE Cbfuse -------------------------------
(***************************************************************************)
(* cbfuse as a whole: processes mount the bucket, serve one request of the *)
(* kernel after the other, are unmounted, or die between two calls.        *)
(***************************************************************************)
EXTENDS CbfuseStats, CbfuseDentries, CbfuseData

\* The bucket is new and no process runs.
Init ==
  /\ stats = [p \in Paths |-> Absent]
  /\ dentries = [p \in Paths |-> Absent]
  /\ blocks = [p \in Paths |-> Absent]
  /\ pc = [m \in Mounts |-> "down"]
  /\ req = [m \in Mounts |-> NoRequest]
  /\ fresult = [m \in Mounts |-> "ok"]
  /\ result = [m \in Mounts |-> Absent]
  /\ casValid = [m \in Mounts |-> FALSE]

-----------------------------------------------------------------------------
(***************************************************************************)
(* What the kernel sends.  The fields a request does not use have the      *)
(* values of NoRequest.                                                    *)
(***************************************************************************)
PlainOps == {"getattr", "open", "unlink", "readdir", "utimens", "rmdir"}

PlainRequests ==
  {Request(op, p, 0, 0, "none", DefaultPerm) : op \in PlainOps, p \in Paths}

TransferRequests ==
  {Request(op, p, n, k, "none", DefaultPerm) :
     op \in {"read", "write"}, p \in Paths, n \in Offsets, k \in Lengths}

TruncateRequests ==
  {Request("truncate", p, n, 0, "none", DefaultPerm) :
     p \in Paths, n \in Offsets}

ModeRequests ==
  {Request("chmod", p, 0, 0, "none", w) : p \in Paths, w \in Perms} \cup
  {Request("create", p, 0, 0, "reg", w) : p \in Paths, w \in Perms} \cup
  {Request("mkdir", p, 0, 0, t, w) :
     p \in Paths, t \in MkdirTypes, w \in Perms}

Requests ==
  PlainRequests \cup TransferRequests \cup TruncateRequests \cup ModeRequests

\* main's own look-up of the root directory, and what insert_root inserts.
MountRequest == Request("mount", Root, 0, 0, "dir", DefaultPerm)

\* Names are added to and removed from directories; the root has no name.
Issues(q) ==
  /\ q.op \in Ops
  /\ \A d \in ancestors[q.path] : IsDir(d)
  /\ q.op \in {"create", "mkdir", "unlink", "rmdir"} => q.path # Root
  /\ q.op = "rmdir" /\ RmdirEmptyOnly => \A c \in Paths : ~Lists(q.path, c)

\* A request arrives, the path walk having found its ancestors.
Begin(m) ==
  /\ pc[m] = "idle"
  /\ \E q \in Requests :
       /\ Issues(q)
       /\ req' = [req EXCEPT ![m] = q]
  /\ pc' = [pc EXCEPT ![m] = "getattr"]
  /\ fresult' = [fresult EXCEPT ![m] = "ok"]
  /\ UNCHANGED <<store, result, casValid>>

\* main, once connected, looks for the root directory.
Mount(m) ==
  /\ pc[m] = "down"
  /\ pc' = [pc EXCEPT ![m] = "getattr"]
  /\ req' = [req EXCEPT ![m] = MountRequest]
  /\ fresult' = [fresult EXCEPT ![m] = "ok"]
  /\ UNCHANGED <<store, result, casValid>>

\* The file system is unmounted: fuse_main returns and so does main.
Unmount(m) ==
  /\ pc[m] = "idle"
  /\ pc' = [pc EXCEPT ![m] = "down"]
  /\ fresult' = [fresult EXCEPT ![m] = "ok"]
  /\ UNCHANGED <<store, req, result, casValid>>

\* The process ends, and its memory with it.
Die(m) ==
  /\ pc' = [pc EXCEPT ![m] = "down"]
  /\ req' = [req EXCEPT ![m] = NoRequest]
  /\ fresult' = [fresult EXCEPT ![m] = "crashed"]
  /\ result' = [result EXCEPT ![m] = Absent]
  /\ casValid' = [casValid EXCEPT ![m] = FALSE]
  /\ UNCHANGED store

Crash(m) ==
  /\ CanCrash
  /\ pc[m] # "down"
  /\ Die(m)

\* Undefined behaviour: to lengthen a block update_block only sets its length,
\* and storing it reads past the end of the buffer.  The process may be killed
\* there, or (store_block) go on with what it found.
update_block_overrun(m) ==
  /\ pc[m] = "store_block"
  /\ req[m].op = "truncate"
  /\ UpdatedLength(req[m], result[m]) > result[m]
  /\ Die(m)

-----------------------------------------------------------------------------
\* The calls on each collection.
StatsCall(m) ==
  \/ getattr(m)
  \/ open(m)
  \/ get_stat(m)
  \/ replace_stat(m)
  \/ insert_stat(m)
  \/ remove_stat(m)

DentriesCall(m) ==
  \/ get_dentry(m)
  \/ replace_dentry(m)
  \/ add_new_dentry(m)
  \/ remove_dentry(m)

BlocksCall(m) ==
  \/ refuse_block(m)
  \/ get_block(m)
  \/ store_block(m)
  \/ remove_data(m)

\* A handler (or main) goes on.
Serve(m) == StatsCall(m) \/ DentriesCall(m) \/ BlocksCall(m)

Next ==
  \E m \in Mounts :
    \/ Mount(m)
    \/ Begin(m)
    \/ Serve(m)
    \/ Unmount(m)
    \/ Crash(m)
    \/ update_block_overrun(m)

Spec == Init /\ [][Next]_vars

\* A handler that runs goes on to its next call: its thread does nothing else,
\* and lcb_wait returns, with a time-out if need be.
FairSpec == Spec /\ \A m \in Mounts : WF_vars(Serve(m))

=============================================================================
