----------------------------- MODULE CbfuseStart -----------------------------
(***************************************************************************)
(* main: from the command line to fuse_main and out again.  Every call may *)
(* fail.  lcb_open reports to open_callback, which only prints what it got;*)
(* that the bucket is not open shows in the look-up of the root directory, *)
(* whose steps, other processes and crashes between them included, are in  *)
(* module Cbfuse (Mount, verify_root, insert_root).                        *)
(***************************************************************************)

VARIABLES
  pc,         \* where main is
  superuser,  \* whether the process runs as root
  config,     \* struct cbfuse_config and the option that ends the program
  args,       \* the options main adds for FUSE
  fresult,    \* what main will return
  instance,   \* _lcb_instance: "null", "created" or "destroyed"
  callbacks,  \* whether the callbacks of the synchronous calls are installed
  bucket,     \* whether the bucket is open
  get_root_rc, \* what main's look-up of the root directory returned, or "none"
  root,       \* the root directory's stat document: "absent", "dir" or "other"
  rootDentry, \* whether the root directory has a directory entry
  served      \* whether FUSE served requests

process == <<superuser, config, args>>
documents == <<root, rootDentry>>
couchbase == <<instance, callbacks, bucket, documents>>
vars == <<pc, process, fresult, get_root_rc, couchbase, served>>

\* A connection string may be too short; name and password may be missing.
Configs == [connect : {"missing", "short", "given"},
            username : BOOLEAN, password : BOOLEAN,
            ends : {"no", "help", "version"}]

\* The calls on the library whose failure ends the start, in order.
LibraryCalls == {"lcb_connect", "wait_connected", "bootstrap", "lcb_open"}

After == [lcb_connect    |-> "wait_connected",
          wait_connected |-> "bootstrap",
          bootstrap      |-> "lcb_open",
          lcb_open       |-> "wait_open"]

Stopped == {"exited", "crashed"}

\* A process before it has done anything.
Fresh ==
  /\ pc' = "start"
  /\ superuser' \in BOOLEAN /\ config' \in Configs /\ args' = {}
  /\ fresult' = "success"
  /\ instance' = "null" /\ get_root_rc' = "none"
  /\ callbacks' = FALSE /\ bucket' = FALSE /\ served' = FALSE

Init ==
  /\ pc = "exited"
  /\ superuser = FALSE /\ args = {}
  /\ config = [connect |-> "missing", username |-> FALSE, password |-> FALSE,
               ends |-> "no"]
  /\ fresult = "failure"
  /\ instance = "null" /\ get_root_rc = "none"
  /\ callbacks = FALSE /\ bucket = FALSE /\ served = FALSE
  /\ root \in {"absent", "dir", "other"} /\ rootDentry \in BOOLEAN

\* The process is started, whatever became of the one before it.
Start == pc \in Stopped /\ Fresh /\ UNCHANGED documents

Goto(at) == pc' = at /\ UNCHANGED fresult
GiveUp(at) == pc' = at /\ fresult' = "failure"

-----------------------------------------------------------------------------
\* The user's rights, then fuse_opt_parse with cbfuse_opt_proc.
parse ==
  /\ pc = "start"
  /\ \/ superuser /\ GiveUp("exited")
     \/ ~superuser /\ GiveUp("done")
     \/ ~superuser /\ config.ends = "help" /\ GiveUp("exited")
     \/ ~superuser /\ config.ends = "version" /\ Goto("exited")
     \/ ~superuser /\ config.ends = "no" /\ Goto("add_s")
  /\ UNCHANGED <<process, get_root_rc, couchbase, served>>

\* fuse_opt_add_arg for the single thread and the foreground; then the test of
\* the connection string.
add_arg(at, arg) ==
  /\ pc = at
  /\ \/ GiveUp("done") /\ UNCHANGED args
     \/ /\ args' = args \cup {arg}
        /\ \/ arg = "-s" /\ Goto("add_f")
           \/ arg = "-f" /\ config.connect = "given" /\ Goto("lcb_create")
           \/ arg = "-f" /\ config.connect # "given" /\ GiveUp("exited")
  /\ UNCHANGED <<superuser, config, get_root_rc, couchbase, served>>

\* lcb_createopts_credentials takes the length of both strings as soon as one
\* is given; strlen(NULL) ends the process.
lcb_create ==
  /\ pc = "lcb_create"
  /\ IF config.username # config.password
     THEN Goto("crashed") /\ UNCHANGED instance
     ELSE \/ Goto("lcb_connect") /\ instance' = "created"
          \/ GiveUp("done") /\ UNCHANGED instance
  /\ UNCHANGED <<process, get_root_rc, callbacks, bucket, documents, served>>

library_call ==
  /\ pc \in LibraryCalls
  /\ \/ GiveUp("done")
     \/ Goto(After[pc])
  /\ callbacks' = (callbacks \/ pc = "lcb_open")
  /\ UNCHANGED <<process, get_root_rc, instance, bucket, documents, served>>

\* lcb_wait returns LCB_SUCCESS whether the bucket could be opened or not.
wait_open ==
  /\ pc = "wait_open"
  /\ \/ GiveUp("done") /\ UNCHANGED bucket
     \/ Goto("find_root") /\ bucket' \in BOOLEAN
  /\ UNCHANGED <<process, get_root_rc, instance, callbacks, documents, served>>

\* cbfuse_getattr of the root directory, its stat document: any failed status
\* of the server is an ENOENT, one of the library an EIO.
find_root ==
  /\ pc = "find_root"
  /\ \/ bucket /\ root = "dir" /\ get_root_rc' = "ok" /\ Goto("fuse_main")
     \/ bucket /\ root = "other" /\ get_root_rc' = "ok" /\ GiveUp("done")
     \/ get_root_rc' = "ENOENT" /\ Goto("insert_stat")
     \/ get_root_rc' = "EIO" /\ GiveUp("done")
  /\ UNCHANGED <<process, couchbase, served>>

\* The two inserts of insert_root: each is done or fails, and one that fails may
\* still have been carried out.
insert_stat ==
  /\ pc = "insert_stat"
  /\ \/ UNCHANGED root /\ GiveUp("done")
     \/ /\ bucket /\ root = "absent" /\ root' = "dir"
        /\ Goto("add_new_dentry") \/ GiveUp("done")
  /\ UNCHANGED <<process, get_root_rc, instance, callbacks, bucket, rootDentry, served>>

\* Mutant: insert_root does not look at what add_new_dentry returns.
add_new_dentry_unchecked ==
  /\ pc = "add_new_dentry"
  /\ UNCHANGED rootDentry \/ (bucket /\ rootDentry' = TRUE)
  /\ Goto("fuse_main")
  /\ UNCHANGED <<process, get_root_rc, instance, callbacks, bucket, root, served>>

add_new_dentry ==
  /\ pc = "add_new_dentry"
  /\ \/ UNCHANGED rootDentry /\ GiveUp("done")
     \/ /\ bucket /\ ~rootDentry /\ rootDentry' = TRUE
        /\ Goto("fuse_main") \/ GiveUp("done")
  /\ UNCHANGED <<process, get_root_rc, instance, callbacks, bucket, root, served>>

fuse_main ==
  /\ pc = "fuse_main"
  /\ \/ Goto("done") /\ served' = TRUE
     \/ GiveUp("done") /\ served' \in BOOLEAN
  /\ UNCHANGED <<process, get_root_rc, couchbase>>

\* Mutant: main leaves as it did before it had an instance.
leave_at_once ==
  /\ pc = "done"
  /\ Goto("exited")
  /\ UNCHANGED <<process, get_root_rc, couchbase, served>>

\* The label done.
done ==
  /\ pc = "done"
  /\ Goto("exited")
  /\ instance' = IF instance = "created" THEN "destroyed" ELSE instance
  /\ bucket' = FALSE
  /\ UNCHANGED <<process, get_root_rc, callbacks, documents, served>>

Next ==
  \/ Start
  \/ parse
  \/ add_arg("add_s", "-s") \/ add_arg("add_f", "-f")
  \/ lcb_create \/ library_call \/ wait_open
  \/ find_root \/ insert_stat \/ add_new_dentry \/ fuse_main
  \/ done

Spec == Init /\ [][Next]_vars

-----------------------------------------------------------------------------
\* FUSE is only entered by a process that is not root's, single threaded and in
\* the foreground, with the callbacks installed, a bucket that is open although
\* nobody looked at the outcome of opening it, and a root directory.  One that
\* main makes has both of its documents; one that main finds is accepted by its
\* stat document alone and may have no directory entry (MountedRootReady).
ServesOnlyWhenReady ==
  pc = "fuse_main" =>
    /\ ~superuser /\ args = {"-s", "-f"} /\ callbacks /\ bucket /\ root = "dir"
    /\ get_root_rc = "ENOENT" => rootDentry

\* A process that returns success has served a file system and left nothing
\* open, or was asked for its version.
SuccessMeansServed ==
  pc = "exited" /\ fresult = "success" =>
    config.ends = "version" \/ (served /\ instance = "destroyed")

\* cbfuse.c:462-464 (usage) lists cb_username and cb_password as options of
\* their own, and main takes either: a process that has only one of them does
\* not crash.
StartNeverCrashes == pc # "crashed"

=============================================================================
