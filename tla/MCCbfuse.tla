------------------------------ MODULE MCCbfuse ------------------------------
(***************************************************************************)
(* Small instances of Cbfuse: a tree of four paths, a and b in the root    *)
(* and ax, ay in a; a configuration takes as many of them as it needs.     *)
(***************************************************************************)
EXTENDS CbfuseProperties, TLC

CONSTANTS root, a, b, ax, ay

MCDirname ==
  [p \in Paths |-> IF p \in {ax, ay} THEN a ELSE root]

\* The values that a .cfg file cannot spell.
MCAllOps == OpNames
MCAllFaults == FaultKinds

Symmetry == Permutations(Mounts)

=============================================================================
