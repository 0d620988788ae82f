------------------------------- MODULE MCHomes -------------------------------
(***************************************************************************)
(* Two mounts: users of m1 work in the root and make directory a, users of *)
(* m2 work in a.                                                           *)
(***************************************************************************)
EXTENDS CbfuseHomes

CONSTANTS root, a, b, ax, m1, m2

MCDirname == [p \in Paths |-> IF p = ax THEN a ELSE root]

MCTerritory == [m \in Mounts |-> IF m = m1 THEN Paths \ {ax} ELSE {ax}]

MCHomesOps == OpNames \ {"truncate"}

=============================================================================
