----------------------------- MODULE CbfuseState -----------------------------
(***************************************************************************)
(* The state shared by every part of cbfuse: the three Couchbase           *)
(* collections that hold a file system, and the control state of each      *)
(* cbfuse process ("mount") that works on them.                            *)
(*                                                                         *)
(* A mount is single threaded (main adds -s) and each of its handlers is a *)
(* straight line of synchronous key-value calls, so one step of a mount is *)
(* one key-value call and the code that runs up to the next one.  Several  *)
(* mounts may share a bucket; their steps interleave.                      *)
(***************************************************************************)
EXTENDS Naturals, KeyValue

CONSTANTS
  Mounts,          \* the cbfuse processes that share the bucket
  Paths,           \* the path keys
  Root,            \* ROOT_DIR_STRING
  dirname,         \* dirname(3): a function from Paths to Paths
  LongPaths,       \* the paths longer than MAX_PATH_LEN
  Absent,          \* "no document under this key"
  Ops,             \* the file-system operations the kernel issues
  Perms,           \* permission bits
  DefaultPerm,     \* the permission bits of the root directory (0755)
  MkdirTypes,      \* file-type bits the kernel passes to mkdir
  Offsets,         \* offsets of reads, writes and truncations
  Lengths,         \* lengths of reads and writes
  MAX_DOC_LEN,     \* the size limit of one Couchbase document
  MAX_FILE_LEN,    \* the size limit the code enforces on a file
  MaxCopies,       \* a name listed this often or more often is counted so
  CanCrash,        \* whether a mount may die between two calls
  RmdirEmptyOnly   \* whether users call rmdir on empty directories only

OpNames == {"getattr", "open", "create", "unlink", "readdir", "read", "write",
            "chmod", "truncate", "utimens", "mkdir", "rmdir"}

\* File-type bits of st_mode; "none" is a mode whose type bits are all zero.
Types == {"reg", "dir", "none"}

\* A stat document: type and permission bits of st_mode, and st_size.  The
\* time stamps are left out; writing them still rewrites the document.
StatDocs == [type : Types, perm : Perms, size : Nat]

\* The "c" array of a directory entry as a bag: how often each child occurs.
\* With the directory given, a child's path stands for its basename.  Removing
\* a name removes all its copies, so the count may stop at MaxCopies.
ChildBags == [Paths -> 0 .. MaxCopies]

ASSUME PathAssumption ==
  /\ Root \in Paths
  /\ dirname \in [Paths -> Paths]
  /\ dirname[Root] = Root
  /\ LongPaths \subseteq Paths \ {Root}

ASSUME DataAssumption ==
  /\ DefaultPerm \in Perms
  /\ Absent \notin StatDocs
  /\ Absent \notin ChildBags
  /\ Absent \notin Nat
  /\ MkdirTypes \subseteq {"dir", "none"}
  /\ Offsets \subseteq Nat
  /\ Lengths \subseteq Nat \ {0}
  /\ MAX_DOC_LEN \in Nat
  /\ MAX_FILE_LEN \in Nat
  /\ MaxCopies \in Nat \ {0, 1}

ASSUME EnvironmentAssumption ==
  /\ Ops \subseteq OpNames
  /\ Faults \subseteq FaultKinds
  /\ CanCrash \in BOOLEAN
  /\ RmdirEmptyOnly \in BOOLEAN

VARIABLES
  stats,      \* collection "stats": a stat document per path
  dentries,   \* collection "dentries": the children of each directory
  blocks,     \* collection "blocks": the length of each file's only block
  pc,         \* the key-value call each mount makes next
  req,        \* the request each mount is serving
  fresult,    \* what the last handler of each mount returned
  result,     \* the document each mount got from its last sync_get
  casValid    \* whether the CAS each mount holds is still the document's

store == <<stats, dentries, blocks>>
locals == <<pc, req, fresult, result, casValid>>
vars == <<stats, dentries, blocks, pc, req, fresult, result, casValid>>

\* Between requests a mount is "idle"; a process that does not run is "down".
Rest == {"idle", "down"}

Calls == {"getattr", "open", "insert_stat", "get_stat", "replace_stat",
          "remove_stat", "add_new_dentry", "get_dentry", "replace_dentry",
          "remove_dentry", "get_block", "store_block", "remove_data"}

\* Return values.  Error codes are negative, but for that of a path that is too
\* long (cbfuse.c:92, 139, 174), which lacks the sign; the caller, libfuse or
\* main, takes any value but 0 for an error.
Codes == {"ok", "EIO", "ENOENT", "EFBIG", "+ENAMETOOLONG", "EPERM", "refused",
          "EXIT_FAILURE", "crashed"}

RequestDocs == [op : OpNames \cup {"mount", "none"}, path : Paths, off : Nat,
                len : Nat, type : Types, perm : Perms]

Request(op, p, n, k, t, w) ==
  [op |-> op, path |-> p, off |-> n, len |-> k, type |-> t, perm |-> w]

NoRequest == Request("none", Root, 0, 0, "none", DefaultPerm)

\* What the mount that makes this call next has in its buffer: a document only
\* between the two halves of a read-modify-write.
Buffered(call) ==
  CASE call = "replace_stat"   -> StatDocs
    [] call = "replace_dentry" -> ChildBags
    [] call = "store_block"    -> Nat \cup {Absent}
    [] OTHER                   -> {Absent}

TypeOK ==
  /\ stats \in [Paths -> StatDocs \cup {Absent}]
  /\ dentries \in [Paths -> ChildBags \cup {Absent}]
  /\ blocks \in [Paths -> Nat \cup {Absent}]
  /\ pc \in [Mounts -> Calls \cup Rest]
  /\ req \in [Mounts -> RequestDocs]
  /\ fresult \in [Mounts -> Codes]
  /\ result = [m \in Mounts |-> result[m]]
  /\ casValid \in [Mounts -> BOOLEAN]
  /\ \A m \in Mounts :
       /\ result[m] \in Buffered(pc[m])
       /\ casValid[m] => pc[m] = "replace_stat"

-----------------------------------------------------------------------------
\* Every CAS obtained for p's stat document stops matching once p's stat
\* document is written or removed.
ExpireCas(p) == [m \in Mounts |-> casValid[m] /\ req[m].path # p]

-----------------------------------------------------------------------------
Exists(coll, p) == coll[p] # Absent
IsDir(p) == Exists(stats, p) /\ stats[p].type = "dir"
IsReg(p) == Exists(stats, p) /\ stats[p].type = "reg"

\* d's directory entry names child c.
Lists(d, c) == Exists(dentries, d) /\ dentries[d][c] > 0

NoChildren == [p \in Paths |-> 0]

\* The proper ancestors of a path.
ancestors[p \in Paths] ==
  IF p = Root THEN {} ELSE {dirname[p]} \cup ancestors[dirname[p]]

=============================================================================
