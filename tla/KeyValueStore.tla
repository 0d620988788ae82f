---------------------------- MODULE KeyValueStore ----------------------------
(***************************************************************************)
(* The key-value store the rest of cbfuse is written against, for one      *)
(* process: a call does all it will ever do to the document before it      *)
(* returns, and what it returns is one of the outcomes of module KeyValue  *)
(* that agrees with what it did.                                           *)
(***************************************************************************)
EXTENDS KeyValue, KeyValueCommands

VARIABLES
  docs,     \* the documents
  call,     \* the command of the call in progress, or NoCommand
  effect,   \* what it found, and whether it was carried out
  code,     \* the code the last call ended with
  value     \* the value it got

vars == <<docs, call, effect, code, value>>

Init ==
  /\ docs = [k \in Keys |-> Absent]
  /\ call = NoCommand
  /\ effect = NoEffect
  /\ code = "ok"
  /\ value = Absent

Begin(c) ==
  LET good == Precondition(c, docs[c.key])
  IN  /\ call = NoCommand
      /\ call' = c
      /\ \E taken \in {FALSE, good} :
           /\ effect' = [good |-> good, taken |-> taken, seen |-> docs[c.key]]
           /\ docs' = IF taken THEN [docs EXCEPT ![c.key] = Applied(c, @)]
                      ELSE docs
      /\ UNCHANGED <<code, value>>

End ==
  /\ call # NoCommand
  /\ \E o \in Outcomes :
       /\ Takes(o, effect.good) = effect.taken
       /\ code' = Reply(o, effect.good)
  /\ value' = IF code' = "ok" /\ call.kind = "get" THEN effect.seen ELSE Absent
  /\ call' = NoCommand
  /\ effect' = NoEffect
  /\ UNCHANGED docs

Next == (\E c \in Commands : Begin(c)) \/ End

Spec == Init /\ [][Next]_vars

=============================================================================
