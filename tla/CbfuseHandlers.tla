--------------------------- MODULE CbfuseHandlers ---------------------------
(***************************************************************************)
(* The control of the FUSE handlers (cbfuse.c) and of the functions they   *)
(* share (data.c): which key-value call follows which, given what the last *)
(* one reported.  Each operator takes the call just made and its report    *)
(*   "ok"     the call succeeded                                           *)
(*   "grew"   update_block stored a longer block than there was            *)
(*   "eof"    the block ends before the offset of the read                 *)
(*   otherwise the error code the called function returned                 *)
(* and yields the next call, or the resting state the mount returns to.    *)
(***************************************************************************)
EXTENDS CbfuseState

\* insert_root: the stat document first, then the directory entry.
insert_root(at, r) ==
  CASE at = "insert_stat" /\ r = "ok"    -> "add_new_dentry"
    [] at = "add_new_dentry" /\ r = "ok" -> "idle"
    [] OTHER                             -> "down"

\* Mutant: a directory entry that could not be read is stored back.
create_unchecked(at, r) ==
  CASE at = "insert_stat" /\ r = "ok" -> "get_dentry"
    [] at = "get_dentry"              -> "replace_dentry"
    [] OTHER                          -> "idle"

cbfuse_create(at, r) ==
  CASE at = "insert_stat" /\ r = "ok" -> "get_dentry"
    [] at = "get_dentry" /\ r = "ok"  -> "replace_dentry"
    [] OTHER                          -> "idle"

\* Mutant: the new directory is not added to its parent's entry.
mkdir_unlisted(at, r) ==
  IF r = "ok" /\ at = "insert_stat" THEN "add_new_dentry" ELSE "idle"

\* Mutant: a failed add_new_dentry goes unnoticed.
mkdir_unchecked(at, r) ==
  CASE at = "insert_stat" /\ r = "ok" -> "add_new_dentry"
    [] at = "add_new_dentry"          -> "get_dentry"
    [] at = "get_dentry" /\ r = "ok"  -> "replace_dentry"
    [] OTHER                          -> "idle"

cbfuse_mkdir(at, r) ==
  CASE at = "insert_stat" /\ r = "ok"    -> "add_new_dentry"
    [] at = "add_new_dentry" /\ r = "ok" -> "get_dentry"
    [] at = "get_dentry" /\ r = "ok"     -> "replace_dentry"
    [] OTHER                             -> "idle"

\* Mutant: the stat document goes before the name in the parent's entry.
unlink_stat_early(at, r) ==
  CASE at = "remove_data"            -> "remove_stat"
    [] at = "remove_stat"            -> "get_dentry"
    [] at = "get_dentry" /\ r = "ok" -> "replace_dentry"
    [] OTHER                         -> "idle"

\* Failures of the first three calls are ignored; remove_child_from_dentry
\* stores nothing when it could not get the directory entry.
cbfuse_unlink(at, r) ==
  CASE at = "remove_data"              -> "get_dentry"
    [] at = "get_dentry" /\ r = "ok"   -> "replace_dentry"
    [] at = "get_dentry" /\ r # "ok"   -> "remove_stat"
    [] at = "replace_dentry"           -> "remove_stat"
    [] OTHER                           -> "idle"

\* Mutant: the name stays in the parent's entry.
rmdir_forgetful(at, r) == IF at = "remove_dentry" THEN "remove_stat" ELSE "idle"

cbfuse_rmdir(at, r) ==
  CASE at = "remove_dentry"            -> "get_dentry"
    [] at = "get_dentry" /\ r = "ok"   -> "replace_dentry"
    [] at = "get_dentry" /\ r # "ok"   -> "remove_stat"
    [] at = "replace_dentry"           -> "remove_stat"
    [] OTHER                           -> "idle"

\* Mutant: a failed replace is tried again, without end.
update_stat_retried(at, r) ==
  CASE at = "get_stat" /\ r = "ok"     -> "replace_stat"
    [] at = "replace_stat" /\ r # "ok" -> "get_stat"
    [] OTHER                           -> "idle"

\* update_stat_atime, _utimens, _size and _mode: get, then replace by CAS.
update_stat(at, r) ==
  IF at = "get_stat" /\ r = "ok" THEN "replace_stat" ELSE "idle"

read_data(at, r) ==
  IF at = "get_block"
  THEN IF r = "ok" THEN "get_stat" ELSE "idle"
  ELSE update_stat(at, r)

\* A missing block is no error for a write, and the size is only updated when
\* update_block reported a new block size.
write_data(at, r) ==
  CASE at = "get_block"   -> IF r = "EIO" THEN "idle" ELSE "store_block"
    [] at = "store_block" -> IF r = "grew" THEN "get_stat" ELSE "idle"
    [] OTHER              -> update_stat(at, r)

\* Mutant: the size is only updated when there was no block.
truncate_size_kept(at, r) ==
  CASE at = "remove_data" /\ r = "ok"   -> "get_stat"
    [] at = "get_block" /\ r = "ok"     -> "store_block"
    [] at = "get_block" /\ r = "ENOENT" -> "get_stat"
    [] at = "store_block"               -> "idle"
    [] OTHER                            -> update_stat(at, r)

\* Nothing is stored when there is no block to truncate.
truncate_data(at, r) ==
  CASE at = "remove_data" -> IF r = "ok" THEN "get_stat" ELSE "idle"
    [] at = "get_block"   -> CASE r = "ok"     -> "store_block"
                               [] r = "ENOENT" -> "get_stat"
                               [] OTHER        -> "idle"
    [] at = "store_block" -> IF r = "ok" THEN "get_stat" ELSE "idle"
    [] OTHER              -> update_stat(at, r)

\* cbfuse_open on its own, and before the reads and writes of the open file.
cbfuse_open(op, r) ==
  IF r = "ok" /\ op \in {"read", "write"} THEN "get_block" ELSE "idle"

\* The call after `at' in the handler of operation op.
After(op, at, r) ==
  IF at = "open" THEN cbfuse_open(op, r) ELSE
  CASE op = "mount"                -> insert_root(at, r)
    [] op = "create"               -> cbfuse_create(at, r)
    [] op = "mkdir"                -> cbfuse_mkdir(at, r)
    [] op = "unlink"               -> cbfuse_unlink(at, r)
    [] op = "rmdir"                -> cbfuse_rmdir(at, r)
    [] op = "read"                 -> read_data(at, r)
    [] op = "write"                -> write_data(at, r)
    [] op = "truncate"             -> truncate_data(at, r)
    [] op \in {"chmod", "utimens"} -> update_stat(at, r)
    [] OTHER                       -> "idle"

\* The first call of each handler.
FirstCall(q) ==
  CASE q.op \in {"create", "mkdir"}        -> "insert_stat"
    [] q.op = "unlink"                     -> "remove_data"
    [] q.op = "rmdir"                      -> "remove_dentry"
    [] q.op \in {"open", "read", "write"}  -> "open"
    [] q.op = "readdir"                    -> "get_dentry"
    [] q.op \in {"chmod", "utimens"}       -> "get_stat"
    [] q.op = "truncate" /\ q.off = 0      -> "remove_data"
    [] q.op = "truncate" /\ q.off # 0      -> "get_block"
    [] OTHER                               -> "idle"

\* The kernel resolves the path with getattr before it sends the request, and
\* sends it only if the path is free (create, mkdir) or of the right type.
LookupAdmits(op, r, type) ==
  \/ op \in {"create", "mkdir"} /\ r = "ENOENT"
  \/ op \in {"unlink", "open", "read", "write", "truncate"}
       /\ r = "ok" /\ type = "reg"
  \/ op \in {"rmdir", "readdir"} /\ r = "ok" /\ type = "dir"
  \/ op \in {"chmod", "utimens"} /\ r = "ok" /\ type \in {"reg", "dir"}

\* Mutant: the directory entry is created even if the root is there.
verify_root_installs(r, type) ==
  CASE r = "ok" /\ type = "dir" -> "add_new_dentry"
    [] r = "ENOENT"             -> "insert_stat"
    [] OTHER                    -> "down"

\* main looks up the root directory itself and creates it if there is none.
verify_root(r, type) ==
  CASE r = "ok" /\ type = "dir" -> "idle"
    [] r = "ENOENT"             -> "insert_stat"
    [] OTHER                    -> "down"

AfterLookup(q, r, type) ==
  CASE q.op = "mount"                 -> verify_root(r, type)
    [] LookupAdmits(q.op, r, type)    -> FirstCall(q)
    [] OTHER                          -> "idle"

\* What a handler that comes to rest returns: read_data and write_data turn
\* every error into -1; a request its lookup did not admit is refused.
Returned(q, at, next, r) ==
  IF next \notin Rest THEN "ok" ELSE IF next = "down" THEN "EXIT_FAILURE" ELSE
  CASE /\ at = "getattr" /\ r = "ok"
       /\ q.op \notin {"getattr", "mount"}     -> "refused"
    [] /\ q.op \in {"read", "write"}
       /\ at \notin {"getattr", "open"}
       /\ r \notin {"ok", "eof", "grew"}       -> "EPERM"
    [] r \in {"eof", "grew"}                   -> "ok"
    [] OTHER                                   -> r

\* Mount m, serving q, has made the call pc[m] with report r and goes on to
\* next.  A handler that returns forgets its request.
Resume(m, q, next, r) ==
  /\ pc' = [pc EXCEPT ![m] = next]
  /\ req' = [req EXCEPT ![m] = IF next \in Rest THEN NoRequest ELSE q]
  /\ fresult' = [fresult EXCEPT ![m] = Returned(q, pc[m], next, r)]

=============================================================================
