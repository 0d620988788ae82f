-------------------------- MODULE CbfuseStartProofs --------------------------
(***************************************************************************)
(* Proofs about main: what must hold where FUSE is entered, and what an    *)
(* exit code of success stands for.                                        *)
(***************************************************************************)
EXTENDS CbfuseStart, TLAPS

\* From where on the arguments for FUSE are complete and the user was looked at.
Connecting ==
  {"lcb_create", "wait_open", "find_root", "insert_stat", "add_new_dentry",
   "fuse_main"}
    \cup LibraryCalls

\* What main has achieved when it gets to pc, and what it owes an exit code.
Progress ==
  /\ pc \in Connecting \cup {"add_s", "add_f"} => ~superuser
  /\ pc \in {"start", "add_s"} => args = {}
  /\ pc = "add_f" => args = {"-s"}
  /\ pc \in Connecting => args = {"-s", "-f"}
  /\ pc \in Connecting \ ({"lcb_create"} \cup LibraryCalls) => callbacks
  /\ pc \in {"add_new_dentry", "fuse_main"} => bucket /\ root = "dir"
  /\ pc = "fuse_main" /\ get_root_rc = "ENOENT" => rootDentry

\* Success is what main begins with: it stands until a call fails, and is kept
\* to the end only by a process whose FUSE returned, or that printed its version.
Outcome ==
  /\ instance \in {"null", "created", "destroyed"}
  /\ pc \in Connecting \ {"lcb_create"} => instance # "null"
  /\ pc = "done" /\ fresult = "success" => served /\ instance # "null"
  /\ SuccessMeansServed

LEMMA InitStart == Init => Progress /\ Outcome
BY DEF Init, Progress, Outcome, SuccessMeansServed, Connecting, LibraryCalls

LEMMA NextProgress == Progress /\ [Next]_vars => Progress'
<1> SUFFICES ASSUME Progress, [Next]_vars
             PROVE  Progress'
  OBVIOUS
<1> USE DEF Progress, Connecting, LibraryCalls, process, documents, couchbase
<1>1. CASE Start
  BY <1>1 DEF Start, Fresh
<1>2. CASE parse
  BY <1>2 DEF parse, Goto, GiveUp
<1>3. CASE add_arg("add_s", "-s") \/ add_arg("add_f", "-f")
  BY <1>3 DEF add_arg, Goto, GiveUp
<1>4. CASE lcb_create
  BY <1>4 DEF lcb_create, Goto, GiveUp
<1>5. CASE library_call
  <2>1. callbacks' = (callbacks \/ pc = "lcb_open")
    BY <1>5 DEF library_call
  <2>2. pc = "lcb_open" => callbacks'
    BY <2>1, Zenon
  <2>3. pc' = "wait_open" => pc = "lcb_open"
    BY <1>5 DEF library_call, After, Goto, GiveUp
  <2> QED
    BY <1>5, <2>2, <2>3 DEF library_call, After, Goto, GiveUp
<1>6. CASE wait_open
  BY <1>6 DEF wait_open, Goto, GiveUp
<1>7. CASE find_root
  BY <1>7 DEF find_root, Goto, GiveUp
<1>8. CASE insert_stat \/ add_new_dentry
  BY <1>8 DEF insert_stat, add_new_dentry, Goto, GiveUp
<1>9. CASE fuse_main
  BY <1>9 DEF fuse_main, Goto, GiveUp
<1>10. CASE done
  BY <1>10 DEF done, Goto
<1>11. CASE UNCHANGED vars
  BY <1>11 DEF vars
<1> QED
  BY <1>1, <1>2, <1>3, <1>4, <1>5, <1>6, <1>7, <1>8, <1>9, <1>10, <1>11
  DEF Next

LEMMA NextOutcome == Outcome /\ [Next]_vars => Outcome'
<1> SUFFICES ASSUME Outcome, [Next]_vars
             PROVE  Outcome'
  OBVIOUS
<1> USE DEF Outcome, SuccessMeansServed, Connecting, LibraryCalls, process,
            documents, couchbase
<1>1. CASE Start
  BY <1>1 DEF Start, Fresh
<1>2. CASE parse
  BY <1>2 DEF parse, Goto, GiveUp
<1>3. CASE add_arg("add_s", "-s") \/ add_arg("add_f", "-f")
  BY <1>3 DEF add_arg, Goto, GiveUp
<1>4. CASE lcb_create
  BY <1>4 DEF lcb_create, Goto, GiveUp
<1>5. CASE library_call
  BY <1>5 DEF library_call, After, Goto, GiveUp
<1>6. CASE wait_open
  BY <1>6 DEF wait_open, Goto, GiveUp
<1>7. CASE find_root
  BY <1>7 DEF find_root, Goto, GiveUp
<1>8. CASE insert_stat \/ add_new_dentry
  BY <1>8 DEF insert_stat, add_new_dentry, Goto, GiveUp
<1>9. CASE fuse_main
  BY <1>9 DEF fuse_main, Goto, GiveUp
<1>10. CASE done
  BY <1>10 DEF done, Goto
<1>11. CASE UNCHANGED vars
  BY <1>11 DEF vars
<1> QED
  BY <1>1, <1>2, <1>3, <1>4, <1>5, <1>6, <1>7, <1>8, <1>9, <1>10, <1>11
  DEF Next

\* However the calls of main fail, and whatever documents of a root directory
\* it finds in the bucket, fuse_main is reached only with the arguments and the
\* callbacks, a bucket that is open, although lcb_wait tells main nothing about
\* it, a stat document of a root directory, and the directory entry too if main
\* made that root itself.  A root that was found may lack it.
THEOREM ReadyWhenServing == Spec => []ServesOnlyWhenReady
<1>1. Progress => ServesOnlyWhenReady
  BY DEF Progress, ServesOnlyWhenReady, Connecting, LibraryCalls
<1> QED
  BY <1>1, InitStart, NextProgress, PTL DEF Spec

\* No failure of a call of main is lost on the way to its exit code, and what
\* was created is destroyed: exit code success means served or version asked.
THEOREM SuccessEarned == Spec => []SuccessMeansServed
<1>1. Outcome => SuccessMeansServed
  BY DEF Outcome
<1> QED
  BY <1>1, InitStart, NextOutcome, PTL DEF Spec

=============================================================================
