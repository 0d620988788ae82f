------------------------------ MODULE KeyValue ------------------------------
(***************************************************************************)
(* One synchronous call (sync_get, sync_store, sync_remove) as its caller  *)
(* sees it.  Besides the server's answer ("ack") a call can fail in the    *)
(* library (rc # LCB_SUCCESS from lcb_get or lcb_wait) or report a failed  *)
(* status, a timeout say; in both cases the server may or may not have     *)
(* carried it out.  Module CbfuseSync shows that the calls are like that.  *)
(***************************************************************************)

CONSTANT Faults    \* the ways a key-value call may go wrong

FaultKinds == {"rc", "rc_applied", "status", "status_applied"}

Outcomes == {"ack"} \cup Faults

\* Whether the server changes the document: `good' is its own precondition.
Takes(o, good) == good /\ o \in {"ack", "rc_applied", "status_applied"}

\* The error code the calling function makes of the outcome.
Reply(o, good) ==
  IF o \in {"rc", "rc_applied"} THEN "EIO"
  ELSE IF o = "ack" /\ good THEN "ok" ELSE "ENOENT"

=============================================================================
