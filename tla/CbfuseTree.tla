----------------------------- MODULE CbfuseTree -----------------------------
(***************************************************************************)
(* One mount whose calls do not fail implements FileTree, although it      *)
(* keeps the tree three times over: getattr goes by the stat documents,    *)
(* readdir by the directory entries, read and write by the blocks.  The    *)
(* mapping takes the tree from the latter two, and only permissions from   *)
(* the stat documents; the requests, though, are admitted by the stat      *)
(* documents.  The refinement thus says that the three agree whenever a    *)
(* request looks, and that each request changes them as one.               *)
(*                                                                         *)
(* A request takes effect with its first call that changes a document. The *)
(* documents it has yet to change are mapped as if it had.                 *)
(***************************************************************************)
EXTENDS CbfuseProperties

\* Mount m has made the first change of its request, not the last.
Committed(m) ==
  \/ /\ pc[m] \in {"add_new_dentry", "get_dentry", "replace_dentry",
                   "remove_stat"}
     /\ req[m].op # "readdir"
  \/ /\ pc[m] \in {"get_stat", "replace_stat"}
     /\ req[m].op = "write"

\* A request of one of these kinds is under way for p and took effect.
Underway(p, ops) ==
  \E m \in Mounts : Committed(m) /\ req[m].path = p /\ req[m].op \in ops

MadeDirectory(p) ==
  \/ Underway(p, {"mkdir", "mount"})
  \/ Exists(dentries, p) /\ ~Underway(p, {"unlink", "rmdir"})

Named(p) ==
  \/ Underway(p, {"create", "mkdir", "mount"})
  \/ /\ IF p = Root THEN Exists(dentries, Root) ELSE Lists(dirname[p], p)
     /\ ~Underway(p, {"unlink", "rmdir"})

TreeNode(p) ==
  IF ~Named(p) THEN Absent
  ELSE [type |-> IF MadeDirectory(p) THEN "dir" ELSE "reg",
        perm |-> stats[p].perm,
        size |-> IF Exists(blocks, p) THEN blocks[p] ELSE 0]

Phase(m) ==
  CASE pc[m] = "idle"                        -> "rest"
    [] pc[m] = "down"                        -> "down"
    [] pc[m] \notin Rest /\ Committed(m)     -> "done"
    [] pc[m] \notin Rest /\ ~Committed(m)    -> "called"

Tree == INSTANCE FileTree WITH
  Clients   <- Mounts,
  parent    <- dirname,
  above     <- [p \in Paths |-> ancestors[p]],
  Calls     <- {q \in Requests : q.op \in Ops},
  StartCall <- MountRequest,
  NoCall    <- NoRequest,
  MaxLen    <- IF MAX_DOC_LEN < MAX_FILE_LEN THEN MAX_DOC_LEN ELSE MAX_FILE_LEN,
  tree      <- [p \in Paths |-> TreeNode(p)],
  phase     <- [m \in Mounts |-> Phase(m)],
  call      <- [m \in Mounts |-> IF req[m].op = "chmod"
                                 THEN [req[m] EXCEPT !.type = "none"]
                                 ELSE req[m]],
  code      <- fresult

\* The handlers of cbfuse.c, up to four calls each on three collections, are
\* the atomic requests of FileTree with FileTree's answers.
ImplementsFileTree == Tree!FairSpec

=============================================================================
