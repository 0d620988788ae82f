----------------------------- MODULE CbfuseData -----------------------------
(***************************************************************************)
(* data.c: the calls on collection "blocks".  A file has one block; only   *)
(* its length is modelled here.  Blocks are stored without a CAS.          *)
(***************************************************************************)
EXTENDS CbfuseHandlers

\* nupdate: the end of the range a write or a truncation touches.
Nupdate(q) == q.off + q.len

TooLong(q) == q.op \in {"write", "truncate"} /\ Nupdate(q) > MAX_FILE_LEN

\* write_data and update_block refuse a range past MAX_FILE_LEN.
refuse_block(m) ==
  LET q == req[m]
  IN  /\ pc[m] = "get_block"
      /\ TooLong(q)
      /\ Resume(m, q, "idle", "EFBIG")
      /\ UNCHANGED <<store, result, casValid>>

\* What read_data and update_block make of get_block's return.
BlockReport(q, r) ==
  IF q.op = "read" /\ r = "ok" /\ q.off >= blocks[q.path] THEN "eof" ELSE r

\* get_block: every failed status is -ENOENT, "no block".
get_block(m) ==
  LET q == req[m]
      p == q.path
  IN  /\ pc[m] = "get_block"
      /\ ~TooLong(q)
      /\ \E o \in Outcomes :
           LET r    == BlockReport(q, Reply(o, Exists(blocks, p)))
               next == After(q.op, "get_block", r)
           IN  /\ Resume(m, q, next, r)
               /\ result' = [result EXCEPT ![m] =
                               IF next = "store_block" /\ r = "ok"
                               THEN blocks[p] ELSE Absent]
      /\ UNCHANGED <<store, casValid>>

\* Mutant: the buffer is never enlarged.
GrowsFromNothing(q, len) == q.op = "write" /\ len = Absent

\* update_block's buffer is new or is enlarged, so *new_block_size is set.
Grows(q, len) == q.op = "write" /\ (len = Absent \/ Nupdate(q) > len)

\* The length update_block stores over a block of length len.
UpdatedLength(q, len) ==
  IF q.op = "truncate" THEN q.off
  ELSE IF Grows(q, len) THEN Nupdate(q) ELSE len

\* The rest of update_block: LCB_STORE_UPSERT of the whole block.  The server
\* refuses a document longer than MAX_DOC_LEN.
store_block(m) ==
  LET q    == req[m]
      p    == q.path
      len  == UpdatedLength(q, result[m])
      good == len <= MAX_DOC_LEN
  IN  /\ pc[m] = "store_block"
      /\ \E o \in Outcomes :
           LET r == IF Reply(o, good) # "ok" THEN "EIO"
                    ELSE IF Grows(q, result[m]) THEN "grew" ELSE "ok"
           IN  /\ Resume(m, q, After(q.op, "store_block", r), r)
               /\ blocks' = IF Takes(o, good)
                            THEN [blocks EXCEPT ![p] = len] ELSE blocks
      /\ result' = [result EXCEPT ![m] = Absent]
      /\ UNCHANGED <<stats, dentries, casValid>>

remove_data(m) ==
  LET q == req[m]
      p == q.path
  IN  /\ pc[m] = "remove_data"
      /\ \E o \in Outcomes :
           LET r == Reply(o, Exists(blocks, p))
           IN  /\ Resume(m, q, After(q.op, "remove_data", r), r)
               /\ blocks' = IF Takes(o, Exists(blocks, p))
                            THEN [blocks EXCEPT ![p] = Absent] ELSE blocks
      /\ UNCHANGED <<stats, dentries, result, casValid>>

=============================================================================
