------------------------------- MODULE MCSync -------------------------------
(***************************************************************************)
(* Small instances of CbfuseSync.                                          *)
(***************************************************************************)
EXTENDS CbfuseSync

CONSTANTS k1, k2, v1, v2, cell1, cell2

=============================================================================
