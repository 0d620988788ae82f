-------------------------- MODULE KeyValueCommands --------------------------
(***************************************************************************)
(* The commands cbfuse sends to the server and what they do to a document. *)
(* Of a stat document the version counts, its contents and its CAS: the    *)
(* CAS a replace carries is the version it is to replace.                  *)
(***************************************************************************)

CONSTANTS
  Keys,      \* the keys of documents
  StatsKeys, \* those in collection "stats"
  Versions,  \* the versions of stat documents
  Contents,  \* what is stored in the other collections
  Absent     \* "no document under this key"

ASSUME KeyAssumption == StatsKeys \subseteq Keys

Values == Versions \cup Contents

\* A replace in collection "stats" makes a new version of the one its CAS names;
\* in the other collections documents are replaced and upserted as they stand.
Commands ==
  [kind : {"get", "remove"}, key : Keys, value : {Absent}, cas : {Absent}] \cup
  [kind : {"insert"}, key : StatsKeys, value : Versions, cas : {Absent}] \cup
  {c \in [kind : {"replace"}, key : StatsKeys, value : Versions, cas : Versions] :
     c.value # c.cas} \cup
  [kind : {"insert", "replace", "upsert"}, key : Keys \ StatsKeys,
   value : Contents, cas : {Absent}]

NoCommand == [kind |-> "none"]

\* What a command found when it was sent: whether its precondition held, whether
\* it was carried out, and the document.
NoEffect == [good |-> FALSE, taken |-> FALSE, seen |-> Absent]

\* The server answers LCB_SUCCESS and carries the command out.
Precondition(c, doc) ==
  \/ c.kind = "upsert"
  \/ c.kind = "insert" /\ doc = Absent
  \/ c.kind \in {"get", "remove"} /\ doc # Absent
  \/ c.kind = "replace" /\ doc # Absent /\ c.cas \in {Absent, doc}

Applied(c, doc) ==
  CASE ~Precondition(c, doc) -> doc
    [] Precondition(c, doc) /\ c.kind = "get" -> doc
    [] Precondition(c, doc) /\ c.kind # "get" -> c.value

=============================================================================
