---------------------------- MODULE CbfuseReaddir ----------------------------
(***************************************************************************)
(* How a user reads a directory through cbfuse_readdir: in as many calls   *)
(* as it takes, each for the names from an offset on, which libfuse puts   *)
(* into a buffer of limited size.  Names are added and removed meanwhile.  *)
(***************************************************************************)
EXTENDS Naturals, FiniteSets, SequencesExt

CONSTANTS
  Names,       \* the names of children
  EntrySize,   \* the room each name takes in the buffer
  BufferSize,  \* the room there is
  Changes      \* what happens to a directory while it is read: "add", "remove"

ASSUME ReaddirAssumption ==
  /\ BufferSize \in Nat
  /\ EntrySize \in [Names -> 1 .. BufferSize]
  /\ Changes \subseteq {"add", "remove"}

VARIABLES
  children,      \* the array "c" of the directory entry
  pc,            \* "closed", "open", "fill", "eof" or "failed"
  offset,        \* where the next call begins: the offset kept with the last name
  dentry_json,   \* the array as cbfuse_readdir got it
  child_offset,  \* how far its loop is
  buffer,        \* what filler has taken: names with their offsets
  used,          \* the room they take, which libfuse counts
  fresult,       \* what filler returned last
  listed,        \* how often the user has got each name: 2 is twice or more
  stayed         \* the names that were there all the time

loop == <<dentry_json, child_offset, buffer, used, fresult>>
user == <<offset, listed, stayed>>
vars == <<children, pc, loop, user>>

\* How often a name is among the entries.
Times(name, entries) == Cardinality({i \in DOMAIN entries : entries[i].name = name})

Capped(n) == IF n > 2 THEN 2 ELSE n

NamesOf(entries) == [i \in 1 .. Len(entries) |-> entries[i].name]

Init ==
  /\ children = <<>>
  /\ pc = "closed"
  /\ offset = 0
  /\ dentry_json = <<>>
  /\ child_offset = 0
  /\ buffer = <<>>
  /\ used = 0
  /\ fresult = 0
  /\ listed = [n \in Names |-> 0]
  /\ stayed = {}

-----------------------------------------------------------------------------
\* add_child_to_dentry, for a name insert_stat found to be free.
add_child_to_dentry(n) ==
  /\ pc = "closed" \/ "add" \in Changes
  /\ n \notin ToSet(children)
  /\ children' = Append(children, n)
  /\ UNCHANGED <<pc, loop, user>>

\* remove_child_from_dentry copies all names but n, in order.  A directory
\* has each name once (NoDuplicateChildren).
remove_child_from_dentry(n) ==
  /\ pc = "closed" \/ "remove" \in Changes
  /\ \E i \in DOMAIN children :
       children[i] = n /\ children' = RemoveAt(children, i)
  /\ stayed' = stayed \ {n}
  /\ UNCHANGED <<pc, loop, offset, listed>>

\* The user opens the directory.
Opendir ==
  /\ pc = "closed"
  /\ pc' = "open"
  /\ offset' = 0
  /\ listed' = [n \in Names |-> 0]
  /\ stayed' = ToSet(children)
  /\ UNCHANGED <<children, loop>>

\* cbfuse_readdir up to its loop.
get_dentry_json ==
  /\ pc = "open"
  /\ pc' = "fill"
  /\ dentry_json' = children
  /\ child_offset' = 0
  /\ buffer' = <<>>
  /\ used' = 0
  /\ fresult' = 0
  /\ UNCHANGED <<children, user>>

\* libfuse's filler: the name if there is room for it, and whether it was full.
filler(name, off) ==
  IF used + EntrySize[name] <= BufferSize
  THEN /\ buffer' = Append(buffer, [name |-> name, off |-> off])
       /\ used' = used + EntrySize[name]
       /\ fresult' = 0
  ELSE UNCHANGED <<buffer, used>> /\ fresult' = 1

\* Mutant: one name too many is skipped.
SkipsOneMore(n) == n > offset

\* Whether the loop has come to the offset; n is child_offset before it counts.
Reached(n) == n >= offset

\* Mutant: the offset of the name itself.
OffsetOfChild(n) == n

\* Mutant: child_offset is counted on once more.
OffsetTooFar(n) == n + 2

\* The offset to go on from behind the n-th child.
NextOffset(n) == n + 1

\* One turn of cJSON_ArrayForEach.
fill_child ==
  /\ pc = "fill" /\ child_offset < Len(dentry_json)
  /\ child_offset' = child_offset + 1
  /\ IF Reached(child_offset)
     THEN filler(dentry_json[child_offset + 1], NextOffset(child_offset))
     ELSE UNCHANGED <<buffer, used, fresult>>
  /\ UNCHANGED <<children, pc, dentry_json, user>>

\* cbfuse_readdir returns.  An error reaches the user in place of the buffer;
\* an empty buffer is the end of the directory.
Return ==
  /\ pc = "fill" /\ child_offset = Len(dentry_json)
  /\ IF fresult = 0 /\ buffer # <<>>
     THEN /\ pc' = "open"
          /\ listed' = [n \in Names |->
                         Capped(listed[n] + Times(n, buffer))]
          /\ offset' = Last(buffer).off
     ELSE /\ pc' = IF fresult = 0 THEN "eof" ELSE "failed"
          /\ UNCHANGED <<listed, offset>>
  /\ UNCHANGED <<children, loop, stayed>>

Closedir ==
  /\ pc \in {"eof", "failed"}
  /\ pc' = "closed"
  /\ UNCHANGED <<children, loop, user>>

\* One call goes on.
Reads == get_dentry_json \/ fill_child \/ Return

Next ==
  \/ \E n \in Names : add_child_to_dentry(n) \/ remove_child_from_dentry(n)
  \/ Opendir
  \/ Reads
  \/ Closedir

Spec == Init /\ [][Next]_vars

\* The user who reads goes on, and so does the handler.
FairSpec == Spec /\ WF_vars(Reads)

-----------------------------------------------------------------------------
TypeOK ==
  /\ children \in Seq(Names)
  /\ dentry_json \in Seq(Names)
  /\ pc \in {"closed", "open", "fill", "eof", "failed"}
  /\ offset \in 0 .. Len(dentry_json)
  /\ child_offset \in 0 .. Len(dentry_json)
  /\ buffer \in Seq([name : Names, off : Nat])
  /\ used \in 0 .. BufferSize
  /\ fresult \in {0, 1}
  /\ listed \in [Names -> 0 .. 2]
  /\ stayed \subseteq ToSet(children)

\* When cbfuse_readdir has told the user that there is no more, every name that
\* was there all the time has been listed, and no name twice: the offset handed
\* out with a name leads to the next one, whatever is added meanwhile.
ListsAllOnce ==
  pc = "eof" =>
    \A n \in Names : listed[n] < 2 /\ (n \in stayed => listed[n] = 1)

\* A directory that is read is read to its end or to an error: offsets grow.
ListingEnds == pc = "open" ~> pc \in {"eof", "failed"}

\* cbfuse.c:241-243 "skip to the offset", "fill with the next offset": what a
\* call delivers are the children that follow the offset, with none left out.
DeliversInSequence ==
  pc = "fill" =>
    NamesOf(buffer) = SubSeq(dentry_json, offset + 1, offset + Len(buffer))

=============================================================================
