--------------------------- MODULE CbfuseDentries ---------------------------
(***************************************************************************)
(* dentries.c: the calls on collection "dentries".  Directory entries are  *)
(* replaced without a CAS.                                                 *)
(***************************************************************************)
EXTENDS CbfuseHandlers

\* Mutant: every name goes into the root's entry, which all mounts change.
DirOfShared(q) == IF q.op = "readdir" THEN q.path ELSE Root

\* The directory whose entry the request reads or rewrites: readdir its own,
\* the others that of the parent.
DirOf(q) == IF q.op = "readdir" THEN q.path ELSE dirname[q.path]

\* The children that add_child_to_dentry and remove_child_from_dentry store
\* back: one more occurrence of the name, or none of its occurrences.
UpdatedChildren(q, children) ==
  IF q.op \in {"create", "mkdir"}
  THEN [children EXCEPT ![q.path] = IF @ < MaxCopies THEN @ + 1 ELSE @]
  ELSE [children EXCEPT ![q.path] = 0]

\* get_dentry_json, for readdir or as the first half of the two functions.
get_dentry(m) ==
  LET q == req[m]
  IN  /\ pc[m] = "get_dentry"
      /\ \E o \in Outcomes :
           LET r    == Reply(o, Exists(dentries, DirOf(q)))
               next == After(q.op, "get_dentry", r)
           IN  /\ Resume(m, q, next, r)
               /\ result' = [result EXCEPT ![m] =
                               IF next = "replace_dentry"
                               THEN dentries[DirOf(q)] ELSE Absent]
      /\ UNCHANGED <<store, casValid>>

\* LCB_STORE_REPLACE in add_child_to_dentry and remove_child_from_dentry.
replace_dentry(m) ==
  LET q == req[m]
      d == DirOf(q)
  IN  /\ pc[m] = "replace_dentry"
      /\ \E o \in Outcomes :
           LET r == Reply(o, Exists(dentries, d))
           IN  /\ Resume(m, q, After(q.op, "replace_dentry", r), r)
               /\ dentries' =
                    IF Takes(o, Exists(dentries, d))
                    THEN [dentries EXCEPT ![d] = UpdatedChildren(q, result[m])]
                    ELSE dentries
      /\ result' = [result EXCEPT ![m] = Absent]
      /\ UNCHANGED <<stats, blocks, casValid>>

\* LCB_STORE_INSERT of a directory entry without children.
add_new_dentry(m) ==
  LET q == req[m]
      p == q.path
  IN  /\ pc[m] = "add_new_dentry"
      /\ \E o \in Outcomes :
           LET r == Reply(o, ~Exists(dentries, p))
           IN  /\ Resume(m, q, After(q.op, "add_new_dentry", r), r)
               /\ dentries' = IF Takes(o, ~Exists(dentries, p))
                              THEN [dentries EXCEPT ![p] = NoChildren]
                              ELSE dentries
      /\ UNCHANGED <<stats, blocks, result, casValid>>

remove_dentry(m) ==
  LET q == req[m]
      p == q.path
  IN  /\ pc[m] = "remove_dentry"
      /\ \E o \in Outcomes :
           LET r == Reply(o, Exists(dentries, p))
           IN  /\ Resume(m, q, After(q.op, "remove_dentry", r), r)
               /\ dentries' = IF Takes(o, Exists(dentries, p))
                              THEN [dentries EXCEPT ![p] = Absent]
                              ELSE dentries
      /\ UNCHANGED <<stats, blocks, result, casValid>>

=============================================================================
