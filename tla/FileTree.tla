------------------------------ MODULE FileTree ------------------------------
(***************************************************************************)
(* What a file system promises its users, with no trace of how it is       *)
(* stored: a tree of files and directories, requests that change it in one *)
(* step each, and an answer that says whether the request was carried out. *)
(* A request is called, takes effect, and is answered; the answer may come *)
(* with the effect or later.                                               *)
(***************************************************************************)
EXTENDS Naturals

CONSTANTS
  Clients,     \* who sends requests, one at a time each
  Paths,       \* all paths
  Root,        \* the root directory
  parent,      \* the directory of each path
  above,       \* all the directories a path lies in
  LongPaths,   \* paths the file system does not take
  Absent,      \* "no such file or directory"
  Calls,       \* the requests
  StartCall,   \* what a client does before its first request
  NoCall,      \* the value of call between requests
  MaxLen       \* the most data one file can hold

VARIABLES
  tree,    \* the file or directory of each path, or Absent
  phase,   \* of each client: "down", "rest", "called" or "done"
  call,    \* the request each client waits for
  code     \* the last answer each client got

vars == <<tree, phase, call, code>>

IsDirectory(p) == tree[p] # Absent /\ tree[p].type = "dir"

Node(type, perm) == [type |-> type, perm |-> perm, size |-> 0]

\* A path walk reaches the request's path; directories are empty when they are
\* removed; the root stays.
Proper(q) ==
  /\ \A d \in above[q.path] : IsDirectory(d)
  /\ q.op \in {"create", "mkdir", "unlink", "rmdir"} => q.path # Root
  /\ q.op = "rmdir" =>
       \A c \in Paths \ {q.path} : parent[c] = q.path => tree[c] = Absent

\* The types of the paths a request is for.
Fits(q) ==
  CASE q.op \in {"unlink", "open", "read", "write"} -> {"reg"}
    [] q.op \in {"rmdir", "readdir", "mount"}       -> {"dir"}
    [] OTHER                                        -> {"reg", "dir"}

\* The answer to request q in this state of the tree.
Verdict(q) ==
  LET here == tree[q.path]
      Makes == q.op \in {"create", "mkdir"}
  IN  CASE q.path \in LongPaths                        -> "+ENAMETOOLONG"
        [] q.path \notin LongPaths /\ here = Absent    ->
             IF Makes \/ q.op = "mount" THEN "ok" ELSE "ENOENT"
        [] q.path \notin LongPaths /\ here # Absent    ->
             IF Makes \/ here.type \notin Fits(q)      THEN "refused"
             ELSE IF \/ q.op = "read" /\ here.size = 0
                     \/ q.op = "write" /\ q.off + q.len > MaxLen
                  THEN "EPERM" ELSE "ok"

\* The tree once q is carried out.
Effect(q) ==
  LET p == q.path
      Longer == q.off + q.len > tree[p].size
  IN  CASE q.op \in {"create", "mkdir"}   ->
             [tree EXCEPT ![p] = Node(q.type, q.perm)]
        [] q.op = "mount"                 ->
             IF tree[p] = Absent
             THEN [tree EXCEPT ![p] = Node(q.type, q.perm)] ELSE tree
        [] q.op \in {"unlink", "rmdir"}   -> [tree EXCEPT ![p] = Absent]
        [] q.op = "chmod"                 -> [tree EXCEPT ![p].perm = q.perm]
        [] q.op = "write"                 ->
             IF Longer THEN [tree EXCEPT ![p].size = q.off + q.len] ELSE tree
        [] OTHER                          -> tree

Init ==
  /\ tree = [p \in Paths |-> Absent]
  /\ phase = [m \in Clients |-> "down"]
  /\ call = [m \in Clients |-> NoCall]
  /\ code = [m \in Clients |-> "ok"]

\* Client m's request goes on to the next phase.
Moves(m, to, q, c) ==
  /\ phase' = [phase EXCEPT ![m] = to]
  /\ call' = [call EXCEPT ![m] = q]
  /\ code' = [code EXCEPT ![m] = c]

Start(m) ==
  /\ phase[m] = "down"
  /\ Moves(m, "called", StartCall, "ok")
  /\ UNCHANGED tree

Stop(m) ==
  /\ phase[m] = "rest"
  /\ Moves(m, "down", NoCall, "ok")
  /\ UNCHANGED tree

Call(m) ==
  /\ phase[m] = "rest"
  /\ \E q \in Calls : Proper(q) /\ Moves(m, "called", q, "ok")
  /\ UNCHANGED tree

\* The request has its effect, the whole of it, and is answered now or later.
Act(m) ==
  /\ phase[m] = "called"
  /\ Verdict(call[m]) = "ok"
  /\ tree' = Effect(call[m])
  /\ \/ Moves(m, "done", call[m], "ok")
     \/ Moves(m, "rest", NoCall, "ok")

\* The request has no effect and the answer says why.
Fail(m) ==
  /\ phase[m] = "called"
  /\ Verdict(call[m]) # "ok"
  /\ Moves(m, "rest", NoCall, Verdict(call[m]))
  /\ UNCHANGED tree

Answer(m) ==
  /\ phase[m] = "done"
  /\ Moves(m, "rest", NoCall, "ok")
  /\ UNCHANGED tree

Next ==
  \E m \in Clients :
    Start(m) \/ Stop(m) \/ Call(m) \/ Act(m) \/ Fail(m) \/ Answer(m)

Spec == Init /\ [][Next]_vars

\* What was called is answered.
FairSpec ==
  Spec /\ \A m \in Clients : WF_vars(Act(m) \/ Fail(m) \/ Answer(m))

=============================================================================
