----------------------------- MODULE CbfuseStats -----------------------------
(***************************************************************************)
(* stats.c and cbfuse_getattr: the calls on collection "stats".            *)
(***************************************************************************)
EXTENDS CbfuseHandlers

\* cbfuse_getattr, for a request of the kernel or for main's root directory.
\* The kernel's chmod later sends the type bits it saw here with the mode.
getattr(m) ==
  LET q == req[m]
      p == q.path
  IN  /\ pc[m] = "getattr"
      /\ \E o \in Outcomes :
           LET r    == IF p \in LongPaths THEN "+ENAMETOOLONG"
                       ELSE Reply(o, Exists(stats, p))
               type == IF r = "ok" THEN stats[p].type ELSE "none"
               seen == IF q.op = "chmod" THEN [q EXCEPT !.type = type] ELSE q
           IN  Resume(m, seen, AfterLookup(q, r, type), r)
      /\ UNCHANGED <<store, result, casValid>>

\* cbfuse_open: get_stat, for its success only.
open(m) ==
  LET q == req[m]
  IN  /\ pc[m] = "open"
      /\ \E o \in Outcomes :
           LET r == Reply(o, Exists(stats, q.path))
           IN  Resume(m, q, After(q.op, "open", r), r)
      /\ UNCHANGED <<store, result, casValid>>

\* get_stat as the first half of update_stat_*: document and CAS.
get_stat(m) ==
  LET q == req[m]
  IN  /\ pc[m] = "get_stat"
      /\ \E o \in Outcomes :
           LET r    == Reply(o, Exists(stats, q.path))
               next == After(q.op, "get_stat", r)
               kept == next = "replace_stat"
           IN  /\ Resume(m, q, next, r)
               /\ result' = [result EXCEPT ![m] =
                               IF kept THEN stats[q.path] ELSE Absent]
               /\ casValid' = [casValid EXCEPT ![m] = kept]
      /\ UNCHANGED store

\* The document update_stat_mode, _size, _atime and _utimens store, s being
\* the one they got.
UpdatedStat(q, s) ==
  CASE q.op = "chmod" -> [s EXCEPT !.type = q.type, !.perm = q.perm]
    [] q.op \in {"write", "truncate"} -> [s EXCEPT !.size = q.off + q.len]
    [] OTHER -> s

\* Mutant: the CAS is not set.
ReplaceAnyVersion(m) == Exists(stats, req[m].path)

\* LCB_STORE_REPLACE with a CAS: fails if the document is gone or has changed.
ReplaceAllowed(m) == Exists(stats, req[m].path) /\ casValid[m]

\* The second half of update_stat_*.
replace_stat(m) ==
  LET q == req[m]
  IN  /\ pc[m] = "replace_stat"
      /\ \E o \in Outcomes :
           LET r == Reply(o, ReplaceAllowed(m))
           IN  /\ Resume(m, q, After(q.op, "replace_stat", r), r)
               /\ IF Takes(o, ReplaceAllowed(m))
                  THEN /\ stats' = [stats EXCEPT ![q.path] =
                                      UpdatedStat(q, result[m])]
                       /\ casValid' = [ExpireCas(q.path) EXCEPT ![m] = FALSE]
                  ELSE /\ stats' = stats
                       /\ casValid' = [casValid EXCEPT ![m] = FALSE]
      /\ result' = [result EXCEPT ![m] = Absent]
      /\ UNCHANGED <<dentries, blocks>>

\* Mutant: LCB_STORE_UPSERT.
UpsertAllowed(p) == p \in Paths

\* LCB_STORE_INSERT: fails if there is a document.
InsertAllowed(p) == ~Exists(stats, p)

insert_stat(m) ==
  LET q == req[m]
      p == q.path
  IN  /\ pc[m] = "insert_stat"
      /\ \E o \in Outcomes :
           LET r == Reply(o, InsertAllowed(p))
           IN  /\ Resume(m, q, After(q.op, "insert_stat", r), r)
               /\ IF Takes(o, InsertAllowed(p))
                  THEN /\ stats' = [stats EXCEPT ![p] =
                             [type |-> q.type, perm |-> q.perm, size |-> 0]]
                       /\ casValid' = ExpireCas(p)
                  ELSE UNCHANGED <<stats, casValid>>
      /\ UNCHANGED <<dentries, blocks, result>>

remove_stat(m) ==
  LET q == req[m]
      p == q.path
  IN  /\ pc[m] = "remove_stat"
      /\ \E o \in Outcomes :
           LET r == Reply(o, Exists(stats, p))
           IN  /\ Resume(m, q, After(q.op, "remove_stat", r), r)
               /\ IF Takes(o, Exists(stats, p))
                  THEN /\ stats' = [stats EXCEPT ![p] = Absent]
                       /\ casValid' = ExpireCas(p)
                  ELSE UNCHANGED <<stats, casValid>>
      /\ UNCHANGED <<dentries, blocks, result>>

=============================================================================
