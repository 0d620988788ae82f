------------------------------ MODULE MCReaddir ------------------------------
(***************************************************************************)
(* A directory of up to four names and a buffer for two or three of them.  *)
(***************************************************************************)
EXTENDS CbfuseReaddir

CONSTANTS n1, n2, n3, n4

\* Names of one length, and names one of which is longer.
MCEven == [n \in Names |-> 1]
MCUneven == [n \in Names |-> IF n = n2 THEN 2 ELSE 1]

=============================================================================
