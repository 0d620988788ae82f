----------------------------- MODULE CbfuseHomes -----------------------------
(***************************************************************************)
(* Several mounts of one bucket that keep out of each other's way.  The    *)
(* README disclaims locking: two mounts that change one directory entry or *)
(* one block at the same time lose updates, for both are read, changed and *)
(* stored whole without a CAS.  This module says what users must keep to   *)
(* for the bucket to be one file system all the same, and the run "homes"  *)
(* that it then is.                                                        *)
(***************************************************************************)
EXTENDS CbfuseTree

CONSTANTS
  Territory,   \* the paths whose documents users of each mount change
  Homes        \* directories that one mount makes for another one

ASSUME HomesAssumption ==
  /\ Territory \in [Mounts -> SUBSET Paths]
  /\ Homes \subseteq Paths

\* The request mount m gets in this step is one of its users'.  A home is used
\* when the mkdir that made it has returned, and is never removed.
InTerritory(m) ==
  LET q == req'[m]
  IN  /\ q.path \in Territory[m]
      /\ \A d \in ancestors[q.path] \cap Homes : Lists(dirname[d], d)
      /\ q.op \in {"unlink", "rmdir"} => q.path \notin Homes

\* The bucket is set up by one process before the next one starts.
StartsAlone(m) == \A n \in Mounts \ {m} : req[n].op # "mount"

KeepsApart ==
  \A m \in Mounts :
    /\ pc[m] = "idle" /\ pc'[m] = "getattr" => InTerritory(m)
    /\ pc[m] = "down" /\ pc'[m] = "getattr" => StartsAlone(m)

HomesSpec ==
  /\ Init /\ [][Next /\ KeepsApart]_vars
  /\ \A m \in Mounts : WF_vars(Serve(m))

=============================================================================
