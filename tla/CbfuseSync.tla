----------------------------- MODULE CbfuseSync -----------------------------
(***************************************************************************)
(* A synchronous call from the inside: sync_get, sync_store and            *)
(* sync_remove, which are the same but for the type of the command, on top *)
(* of libcouchbase.  The caller allocates a result and schedules a command *)
(* with it as the cookie; the library sends the command and, while lcb_wait*)
(* runs, calls back with the server's answer or with a timeout; the        *)
(* callback writes into the result; the caller looks at it and frees it.   *)
(*                                                                         *)
(* The server gets the commands for one key in the order they were sent,   *)
(* the others in any order.  Commands and answers may be lost, and a       *)
(* command that timed out may be carried out after its call has returned,  *)
(* and answered after its result was freed and the memory given to another *)
(* call.  Of the library it is assumed that lcb_wait returns only once     *)
(* every scheduled command was called back, and that an answer is matched  *)
(* with its command by an opaque number, not by the cookie.                *)
(***************************************************************************)
EXTENDS KeyValue, KeyValueCommands, SequencesExt

CONSTANTS
  Cells,     \* the memory malloc may return for a result
  Opaques    \* the numbers of commands that are under way at a time

VARIABLES
  docs,       \* the documents the server has
  channel,    \* per key, the commands on their way to the server
  answers,    \* the answers on their way back
  scheduled,  \* the commands the library has not called back for
  heap,       \* per cell, the result in it, or Free
  cmdLeft,    \* whether a command structure was left undestroyed
  pc,         \* where the process is: idle, lcb_wait, done
  call,       \* the command of the call in progress, or NoCommand
  rc,         \* what sync_get, sync_store or sync_remove returned
  fresult,    \* the code its caller made of it
  value,      \* the value its caller got
  effect      \* auxiliary: what the command finds, and whether it is sent

server == <<docs, channel, answers>>
outcome == <<fresult, value>>
vars == <<docs, channel, answers, scheduled, heap, cmdLeft, pc, call, rc,
          fresult, value, effect>>

Free == [status |-> "free", value |-> Absent]

\* The status of a result that calloc returned is LCB_SUCCESS, which is zero.
calloc == [status |-> "success", value |-> Absent]

Statuses == {"success", "failed", "timeout"}
Results == [status : Statuses, value : Values \cup {Absent}]

TypeOK ==
  /\ docs \in [Keys -> Values \cup {Absent}]
  /\ \A k \in Keys : \A i \in 1 .. Len(channel[k]) :
       channel[k][i].opaque \in Opaques /\ channel[k][i].cmd \in Commands
  /\ answers \subseteq [opaque : Opaques, result : Results]
  /\ scheduled \subseteq [opaque : Opaques, cookie : Cells]
  /\ heap \in [Cells -> Results \cup {Free}]
  /\ cmdLeft \in BOOLEAN
  /\ pc \in {"idle", "lcb_wait", "done"}
  /\ call \in Commands \cup {NoCommand}
  /\ rc \in {"success", "failed"}
  /\ fresult \in {"ok", "EIO", "ENOENT"}
  /\ value \in Values \cup {Absent}

Init ==
  /\ docs = [k \in Keys |-> Absent]
  /\ channel = [k \in Keys |-> <<>>]
  /\ answers = {}
  /\ scheduled = {}
  /\ heap = [cell \in Cells |-> Free]
  /\ cmdLeft = FALSE
  /\ pc = "idle"
  /\ call = NoCommand
  /\ rc = "success"
  /\ fresult = "ok"
  /\ value = Absent
  /\ effect = NoEffect

\* What becomes of a document while the commands sent for it are carried out.
Course(doc, sent) ==
  LET stage[i \in 0 .. Len(sent)] ==
        IF i = 0 THEN doc ELSE Applied(sent[i].cmd, stage[i - 1])
  IN  stage

\* The documents as they will be once what was sent is carried out.
Settled == [k \in Keys |-> Course(docs[k], channel[k])[Len(channel[k])]]

\* The numbers of commands and answers that are still on their way.
InUse ==
  {sent.opaque : sent \in UNION {ToSet(channel[k]) : k \in Keys}} \cup
  {a.opaque : a \in answers}

\* The command will be carried out, or will not.
Foresee(c, sent) ==
  LET good == Precondition(c, Settled[c.key])
  IN  effect' = [good |-> good, taken |-> sent /\ good, seen |-> Settled[c.key]]

Allocate(cell) ==
  /\ heap[cell] = Free
  /\ heap' = [heap EXCEPT ![cell] = calloc]

-----------------------------------------------------------------------------
(***************************************************************************)
(* The process up to lcb_wait.                                             *)
(***************************************************************************)

\* lcb_get, lcb_store or lcb_remove takes the command; sync_* destroys its own
\* copy of it and waits.  The command may be lost.
sync_schedule(c) ==
  /\ pc = "idle"
  /\ \E cell \in Cells, n \in Opaques \ InUse, sent \in BOOLEAN :
       /\ Allocate(cell)
       /\ scheduled' = scheduled \cup {[opaque |-> n, cookie |-> cell]}
       /\ channel' = IF sent
                     THEN [channel EXCEPT ![c.key] =
                             Append(@, [opaque |-> n, cmd |-> c])]
                     ELSE channel
       /\ Foresee(c, sent)
  /\ pc' = "lcb_wait"
  /\ call' = c
  /\ UNCHANGED <<docs, answers, cmdLeft, rc, outcome>>

\* It refuses the command, and sync_* returns without destroying it.
sync_refused(c) ==
  /\ pc = "idle"
  /\ \E cell \in Cells : Allocate(cell)
  /\ Foresee(c, FALSE)
  /\ cmdLeft' = TRUE
  /\ pc' = "done"
  /\ call' = c
  /\ rc' = "failed"
  /\ UNCHANGED <<server, scheduled, outcome>>

-----------------------------------------------------------------------------
(***************************************************************************)
(* The server and the connection.                                          *)
(***************************************************************************)
Execute(k) ==
  LET sent == Head(channel[k])
      good == Precondition(sent.cmd, docs[k])
  IN  /\ channel[k] # <<>>
      /\ channel' = [channel EXCEPT ![k] = Tail(@)]
      /\ docs' = [docs EXCEPT ![k] = Applied(sent.cmd, @)]
      /\ answers' = answers \cup
           {[opaque |-> sent.opaque,
             result |-> [status |-> IF good THEN "success" ELSE "failed",
                         value  |-> IF good /\ sent.cmd.kind = "get"
                                    THEN docs[k] ELSE Absent]]}
      /\ UNCHANGED <<scheduled, heap, cmdLeft, pc, call, rc, outcome, effect>>

LoseAnswer(a) ==
  /\ answers' = answers \ {a}
  /\ UNCHANGED <<docs, channel, scheduled, heap, cmdLeft, pc, call, rc,
                 outcome, effect>>

-----------------------------------------------------------------------------
(***************************************************************************)
(* Inside lcb_wait.                                                        *)
(***************************************************************************)

\* sync_get_callback copies the answer's status and, if it is a success, the
\* value; the other two callbacks know no value.
sync_callback(s, answer) ==
  /\ heap' = [heap EXCEPT ![s.cookie] = answer]
  /\ scheduled' = scheduled \ {s}

\* An answer to a command that is no longer scheduled is dropped.
Receive(a) ==
  /\ pc = "lcb_wait"
  /\ answers' = answers \ {a}
  /\ IF \E s \in scheduled : s.opaque = a.opaque
     THEN sync_callback(CHOOSE s \in scheduled : s.opaque = a.opaque, a.result)
     ELSE UNCHANGED <<scheduled, heap>>
  /\ UNCHANGED <<docs, channel, cmdLeft, pc, call, rc, outcome, effect>>

\* Mutant: only an answer ends a call, and a time-out does not.
TimeOutIgnored(s) == pc = "lcb_wait" /\ UNCHANGED vars

TimeOut(s) ==
  /\ pc = "lcb_wait"
  /\ sync_callback(s, [status |-> "timeout", value |-> Absent])
  /\ UNCHANGED <<server, cmdLeft, pc, call, rc, outcome, effect>>

\* Mutant: the wait ends although a command is still scheduled.
WaitEndsEarly == TRUE

WaitEnds == scheduled = {}

lcb_wait ==
  /\ pc = "lcb_wait"
  /\ WaitEnds
  /\ rc' \in {"success", "failed"}
  /\ pc' = "done"
  /\ UNCHANGED <<server, scheduled, heap, cmdLeft, call, outcome, effect>>

-----------------------------------------------------------------------------
(***************************************************************************)
(* The caller after sync_*: IfLCBFailGotoDone on what it returned, then on *)
(* the status in the result; then sync_*_destroy.                          *)
(***************************************************************************)

\* Mutant: only what the call returned is looked at.
CodeOfReturn(ret, result) == IF ret = "failed" THEN "EIO" ELSE "ok"

Code(ret, result) ==
  CASE ret = "failed"                                 -> "EIO"
    [] ret = "success" /\ result.status # "success" -> "ENOENT"
    [] ret = "success" /\ result.status = "success" -> "ok"

finish(cell) ==
  /\ pc = "done"
  /\ heap[cell] # Free
  /\ fresult' = Code(rc, heap[cell])
  /\ value' = IF fresult' = "ok" THEN heap[cell].value ELSE Absent
  /\ heap' = [heap EXCEPT ![cell] = Free]
  /\ pc' = "idle"
  /\ call' = NoCommand
  /\ effect' = NoEffect
  /\ UNCHANGED <<server, scheduled, cmdLeft, rc>>

-----------------------------------------------------------------------------
Library ==
  \/ \E a \in answers : Receive(a)
  \/ \E s \in scheduled : TimeOut(s)
  \/ lcb_wait

Finish == \E cell \in Cells : finish(cell)

Next ==
  \/ \E c \in Commands : sync_schedule(c) \/ sync_refused(c)
  \/ \E k \in Keys : Execute(k)
  \/ \E a \in answers : LoseAnswer(a)
  \/ Library
  \/ Finish

Spec == Init /\ [][Next]_vars

\* The library's timer runs, lcb_wait returns and the process goes on; neither
\* the server nor the network need do anything.
FairSpec ==
  /\ Spec
  /\ WF_vars(\E s \in scheduled : TimeOut(s))
  /\ WF_vars(lcb_wait)
  /\ WF_vars(Finish)

-----------------------------------------------------------------------------
\* A result lives as long as the library may write to it and no longer: at any
\* time there is at most the one of the call in progress, every scheduled
\* command has it as its cookie, and between calls there is none.
ResultsLive ==
  LET used == {cell \in Cells : heap[cell] # Free}
  IN  /\ pc = "idle" => used = {}
      /\ \A cell1, cell2 \in used : cell1 = cell2
      /\ \A s \in scheduled : s.cookie \in used

Store == INSTANCE KeyValueStore WITH
  docs <- Settled,
  code <- fresult

\* The calls are those of module KeyValueStore: a call says that it succeeded
\* only if the server carried it out, its value is that of its own key at that
\* time, and what a timed-out command does later nobody notices.
ImplementsKeyValueStore == Store!Spec

\* sync_get, sync_store and sync_remove return, though the server and the network
\* do nothing for them.
EveryCallReturns == call # NoCommand ~> call = NoCommand

\* sync_get.h:42, sync_store.h:38 "For convenience, the command will be
\* destraoyed after it is used": none is left between calls.
CommandsDestroyed == pc = "idle" => ~cmdLeft

=============================================================================
