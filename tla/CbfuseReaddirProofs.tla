------------------------- MODULE CbfuseReaddirProofs -------------------------
(***************************************************************************)
(* Proofs about reading a directory, for directories, names and buffers of *)
(* any size, while names are added.                                        *)
(***************************************************************************)
EXTENDS CbfuseReaddir, FiniteSetTheorems, SequenceTheorems, TLAPS

\* While a directory is read, names are added but not removed.
OnlyAdded == "remove" \notin Changes

\* Names of one length: when one does not fit, no other does.
OneLength == \A n, k \in Names : EntrySize[n] = EntrySize[k]

Distinct(s) == \A i, j \in DOMAIN s : s[i] = s[j] => i = j

\* The user is reading.
Reading == pc \in {"open", "fill"}

\* What the user has got are names before the next offset, each once.
ListedBefore ==
  /\ \A n \in Names : listed[n] \in {0, 1}
  /\ Reading =>
       /\ offset <= Len(children)
       /\ \A n \in Names :
            listed[n] = 1 => \E i \in 1 .. offset : children[i] = n

\* The array in hand is what there was of the children when the call began, and
\* the buffer holds names of it from the offset on, with their own offsets.
FilledInOrder ==
  pc = "fill" =>
    /\ Len(dentry_json) <= Len(children)
    /\ \A i \in DOMAIN dentry_json : dentry_json[i] = children[i]
    /\ \A i \in DOMAIN buffer :
         /\ buffer[i].off \in offset + 1 .. child_offset
         /\ buffer[i].name = dentry_json[buffer[i].off]
    /\ \A i, j \in DOMAIN buffer : i < j => buffer[i].off < buffer[j].off

ListingInv ==
  /\ TypeOK
  /\ Distinct(children)
  /\ ListedBefore
  /\ FilledInOrder

\* With names of one length nothing is left out: before the offset every name
\* was delivered, and in a buffer that was never full each one since.
NothingLeftOut ==
  /\ Reading =>
       /\ \A i \in 1 .. offset : listed[children[i]] = 1
       /\ stayed \subseteq ToSet(children)
  /\ pc = "fill" =>
       /\ stayed \subseteq ToSet(dentry_json)
       /\ fresult = 0 =>
            \A k \in offset + 1 .. child_offset :
              \E i \in DOMAIN buffer : buffer[i].off = k
       /\ fresult = 1 => \A n \in Names : used + EntrySize[n] > BufferSize
  /\ ListsAllOnce

-----------------------------------------------------------------------------
(***************************************************************************)
(* How often a name is in the buffer.                                      *)
(***************************************************************************)
LEMMA InBuffer ==
  ASSUME ListingInv, pc = "fill", NEW i \in DOMAIN buffer
  PROVE  /\ buffer[i].off \in offset + 1 .. child_offset
         /\ buffer[i].off \in DOMAIN dentry_json
         /\ buffer[i].off \in DOMAIN children
         /\ buffer[i].name = dentry_json[buffer[i].off]
         /\ buffer[i].name = children[buffer[i].off]
<1>1. /\ buffer[i].off \in offset + 1 .. child_offset
      /\ buffer[i].name = dentry_json[buffer[i].off]
  BY DEF ListingInv, FilledInOrder
<1>2. buffer[i].off \in DOMAIN dentry_json
  BY <1>1 DEF ListingInv, TypeOK
<1>3. DOMAIN dentry_json \subseteq DOMAIN children
  BY DEF ListingInv, TypeOK, FilledInOrder
<1> QED
  BY <1>1, <1>2, <1>3 DEF ListingInv, FilledInOrder

LEMMA TimesOnce ==
  ASSUME ListingInv, pc = "fill", NEW n \in Names
  PROVE  /\ Times(n, buffer) \in {0, 1}
         /\ Times(n, buffer) = 1 <=>
              \E i \in DOMAIN buffer : buffer[i].name = n
<1> DEFINE at == {i \in DOMAIN buffer : buffer[i].name = n}
<1>1. \A i, j \in at : i = j
  <2> SUFFICES ASSUME NEW i \in at, NEW j \in at, i < j
               PROVE  FALSE
    BY DEF ListingInv, TypeOK
  <2>1. buffer[i].off < buffer[j].off
    BY DEF ListingInv, FilledInOrder
  <2>2. buffer[i].off = buffer[j].off
    BY InBuffer DEF ListingInv, Distinct
  <2>3. buffer[i].off \in Int
    BY InBuffer DEF ListingInv, TypeOK
  <2> QED
    BY <2>1, <2>2, <2>3
<1>2. CASE at = {}
  BY <1>2, FS_EmptySet DEF Times
<1>3. CASE at # {}
  <2>1. PICK i : at = {i}
    BY <1>1, <1>3
  <2> HIDE DEF at
  <2>2. Cardinality(at) = 1
    BY <2>1, FS_Singleton
  <2> USE DEF at
  <2> QED
    BY <2>1, <2>2 DEF Times
<1> QED
  BY <1>2, <1>3

-----------------------------------------------------------------------------
(***************************************************************************)
(* Names are listed in order and once, whatever their lengths.             *)
(***************************************************************************)
LEMMA InitListing == Init => ListingInv
BY ReaddirAssumption
DEF Init, ListingInv, TypeOK, Distinct, ListedBefore, Reading, FilledInOrder, ToSet

LEMMA AddListing ==
  ASSUME ListingInv, NEW n \in Names, add_child_to_dentry(n)
  PROVE  ListingInv'
<1>1. /\ children' = Append(children, n)
      /\ n \notin ToSet(children)
      /\ UNCHANGED <<pc, offset, dentry_json, child_offset, buffer, used,
                     fresult, listed, stayed>>
  BY DEF add_child_to_dentry, loop, user
<1>2. /\ children' \in Seq(Names)
      /\ Len(children') = Len(children) + 1
      /\ \A i \in DOMAIN children : children'[i] = children[i]
      /\ children'[Len(children) + 1] = n
      /\ DOMAIN children' = DOMAIN children \cup {Len(children) + 1}
  BY <1>1 DEF ListingInv, TypeOK
<1>3. TypeOK'
  BY <1>1, <1>2 DEF ListingInv, TypeOK, ToSet
<1>4. Distinct(children)'
  BY <1>1, <1>2 DEF ListingInv, TypeOK, Distinct, ToSet
<1>5. ListedBefore'
  BY <1>1, <1>2 DEF ListingInv, TypeOK, ListedBefore, Reading
<1>6. FilledInOrder'
  BY <1>1, <1>2 DEF ListingInv, TypeOK, FilledInOrder
<1> QED
  BY <1>3, <1>4, <1>5, <1>6 DEF ListingInv

\* What RemoveAt leaves is the sequence with a gap closed.
LEMMA RemoveAtProperties ==
  ASSUME NEW S, NEW s \in Seq(S), NEW i \in DOMAIN s
  PROVE  /\ RemoveAt(s, i) \in Seq(S)
         /\ Len(RemoveAt(s, i)) = Len(s) - 1
         /\ \A k \in 1 .. Len(s) - 1 :
              RemoveAt(s, i)[k] = s[IF k < i THEN k ELSE k + 1]
<1>1. i \in 1 .. Len(s)
  OBVIOUS
<1> DEFINE before == SubSeq(s, 1, i - 1)
           behind == SubSeq(s, i + 1, Len(s))
<1>2. before \in Seq(S) /\ Len(before) = i - 1
      /\ \A k \in 1 .. i - 1 : before[k] = s[k]
  BY <1>1
<1>3. behind \in Seq(S) /\ Len(behind) = Len(s) - i
      /\ \A k \in 1 .. Len(s) - i : behind[k] = s[k + i]
  BY <1>1
<1>4. RemoveAt(s, i) = before \o behind
  BY DEF RemoveAt
<1> HIDE DEF before, behind
<1>5. /\ before \o behind \in Seq(S)
      /\ Len(before \o behind) = Len(s) - 1
  BY <1>1, <1>2, <1>3
<1>6. \A k \in 1 .. (i - 1) + (Len(s) - i) : (before \o behind)[k] =
        IF k <= i - 1 THEN before[k] ELSE behind[k - (i - 1)]
  BY <1>2, <1>3, ConcatProperties
<1>7. ASSUME NEW k \in 1 .. Len(s) - 1
      PROVE  (before \o behind)[k] = s[IF k < i THEN k ELSE k + 1]
  <2>1. k \in 1 .. (i - 1) + (Len(s) - i)
    BY <1>1
  <2>2. CASE k < i
    BY <1>1, <1>2, <1>6, <2>1, <2>2
  <2>3. CASE ~(k < i)
    <3>1. k - (i - 1) \in 1 .. Len(s) - i /\ k - (i - 1) + i = k + 1
      BY <1>1, <2>3
    <3>2. ~(k <= i - 1)
      BY <1>1, <2>3
    <3>3. (before \o behind)[k] = behind[k - (i - 1)]
      BY <1>6, <2>1, <3>2
    <3>4. behind[k - (i - 1)] = s[k + 1]
      BY <1>3, <3>1
    <3> QED
      BY <2>3, <3>3, <3>4
  <2> QED
    BY <2>2, <2>3
<1> QED
  BY <1>4, <1>5, <1>7

\* Names are removed only while nobody reads.
LEMMA RemoveListing ==
  ASSUME OnlyAdded, ListingInv, NEW n \in Names, remove_child_from_dentry(n)
  PROVE  ListingInv' /\ ~Reading /\ pc' = pc
<1>1. PICK i \in DOMAIN children :
        children[i] = n /\ children' = RemoveAt(children, i)
  BY DEF remove_child_from_dentry
<1>2. /\ pc = "closed"
      /\ UNCHANGED <<pc, offset, dentry_json, child_offset, buffer, used,
                     fresult, listed>>
      /\ stayed' = stayed \ {n}
  BY DEF remove_child_from_dentry, OnlyAdded, loop
<1>3. children \in Seq(Names) /\ i \in 1 .. Len(children)
  BY DEF ListingInv, TypeOK
<1>4. /\ children' \in Seq(Names)
      /\ Len(children') = Len(children) - 1
      /\ \A k \in 1 .. Len(children) - 1 :
           children'[k] = children[IF k < i THEN k ELSE k + 1]
  BY <1>1, <1>3, RemoveAtProperties
<1>5. Distinct(children)'
  <2> SUFFICES ASSUME NEW j \in 1 .. Len(children) - 1,
                      NEW k \in 1 .. Len(children) - 1,
                      children'[j] = children'[k]
               PROVE  j = k
    BY <1>3, <1>4 DEF Distinct
  <2> DEFINE old(x) == IF x < i THEN x ELSE x + 1
  <2>1. old(j) \in DOMAIN children /\ old(k) \in DOMAIN children
    BY <1>3
  <2>2. children[old(j)] = children[old(k)]
    BY <1>4
  <2>3. old(j) = old(k)
    BY <2>1, <2>2 DEF ListingInv, Distinct
  <2> QED
    BY <1>3, <2>3
<1>6. stayed' \subseteq ToSet(children')
  <2> SUFFICES ASSUME NEW x \in stayed, x # n
               PROVE  \E k \in DOMAIN children' : children'[k] = x
    BY <1>2 DEF ToSet
  <2>1. PICK k \in 1 .. Len(children) : children[k] = x
    BY <1>3 DEF ListingInv, TypeOK, ToSet
  <2>2. k # i
    BY <1>1, <2>1
  <2>3. CASE k < i
    BY <1>3, <1>4, <2>1, <2>3
  <2>4. CASE k > i
    <3>1. k - 1 \in 1 .. Len(children) - 1 /\ ~(k - 1 < i) /\ (k - 1) + 1 = k
      BY <1>3, <2>4
    <3> QED
      BY <1>3, <1>4, <2>1, <3>1
  <2> QED
    BY <1>3, <2>2, <2>3, <2>4
<1>7. TypeOK'
  BY <1>2, <1>4, <1>6 DEF ListingInv, TypeOK
<1>8. ListedBefore' /\ FilledInOrder'
  BY <1>2 DEF ListingInv, ListedBefore, Reading, FilledInOrder
<1> QED
  BY <1>2, <1>5, <1>7, <1>8 DEF ListingInv, Reading

LEMMA OpendirListing ==
  ASSUME ListingInv, Opendir
  PROVE  ListingInv'
BY DEF Opendir, loop, ListingInv, TypeOK, Distinct, ListedBefore, Reading, FilledInOrder

LEMMA GetDentryListing ==
  ASSUME ListingInv, get_dentry_json
  PROVE  ListingInv'
<1>1. TypeOK' /\ Distinct(children)'
  BY ReaddirAssumption DEF get_dentry_json, user, ListingInv, TypeOK, Distinct, ListedBefore, Reading
<1>2. ListedBefore'
  BY DEF get_dentry_json, user, ListingInv, ListedBefore, Reading
<1>3. FilledInOrder'
  BY DEF get_dentry_json, ListingInv, TypeOK, FilledInOrder
<1> QED
  BY <1>1, <1>2, <1>3 DEF ListingInv

\* The name a turn of the loop looks at goes behind those that are in the buffer.
LEMMA FillListing ==
  ASSUME ListingInv, fill_child
  PROVE  ListingInv'
<1> DEFINE name == dentry_json[child_offset + 1]
           entry == [name |-> name, off |-> child_offset + 1]
<1>1. /\ pc = "fill" /\ child_offset < Len(dentry_json)
      /\ child_offset' = child_offset + 1
      /\ UNCHANGED <<children, pc, dentry_json, offset, listed, stayed>>
  BY DEF fill_child, user
<1>2. Distinct(children)' /\ ListedBefore'
  BY <1>1 DEF ListingInv, Distinct, ListedBefore, Reading
<1>3. CASE UNCHANGED <<buffer, used>> /\ fresult' \in {0, 1}
  <2>1. TypeOK'
    BY <1>1, <1>3 DEF ListingInv, TypeOK
  <2>2. FilledInOrder'
    BY <1>1, <1>3 DEF ListingInv, TypeOK, FilledInOrder
  <2> QED
    BY <1>2, <2>1, <2>2 DEF ListingInv
<1>4. CASE /\ child_offset >= offset
           /\ buffer' = Append(buffer, entry)
           /\ used + EntrySize[name] <= BufferSize
           /\ used' = used + EntrySize[name]
           /\ fresult' = 0
  <2>1. name \in Names /\ EntrySize[name] \in Nat
    BY <1>1, ReaddirAssumption DEF ListingInv, TypeOK
  <2> DEFINE L == Len(buffer)
  <2>0. /\ offset \in Nat /\ child_offset \in Nat /\ used \in Nat
        /\ BufferSize \in Nat /\ L \in Nat /\ DOMAIN buffer = 1 .. L
    BY ReaddirAssumption DEF ListingInv, TypeOK
  <2>2. /\ entry \in [name : Names, off : Nat]
        /\ entry.name = dentry_json[child_offset + 1]
        /\ entry.off = child_offset + 1
    BY <2>1 DEF ListingInv, TypeOK
  <2> HIDE DEF entry
  <2>3. /\ buffer' \in Seq([name : Names, off : Nat])
        /\ Len(buffer') = Len(buffer) + 1
        /\ \A i \in DOMAIN buffer : buffer'[i] = buffer[i]
        /\ buffer'[Len(buffer) + 1] = entry
        /\ DOMAIN buffer' = DOMAIN buffer \cup {Len(buffer) + 1}
    BY <1>4, <2>2 DEF ListingInv, TypeOK
  <2>4. TypeOK'
    <3>1. used' \in 0 .. BufferSize
      BY <1>4, <2>1, <2>0
    <3> QED
      BY <1>1, <1>4, <2>3, <3>1 DEF ListingInv, TypeOK
  <2>5. FilledInOrder'
    <3>1. ASSUME NEW i \in DOMAIN buffer'
          PROVE  /\ buffer'[i].off \in offset + 1 .. child_offset + 1
                 /\ buffer'[i].name = dentry_json[buffer'[i].off]
      <4>1. CASE i \in DOMAIN buffer
        <5>1. buffer'[i] = buffer[i]
          BY <2>3, <4>1
        <5>2. /\ buffer[i].off \in offset + 1 .. child_offset
              /\ buffer[i].name = dentry_json[buffer[i].off]
          BY <1>1, <4>1, InBuffer
        <5> QED
          BY <2>0, <5>1, <5>2
      <4>2. CASE i = Len(buffer) + 1
        BY <1>4, <2>2, <2>3, <2>0, <4>2
      <4> QED
        BY <2>3, <4>1, <4>2
    <3>2. ASSUME NEW i \in DOMAIN buffer', NEW j \in DOMAIN buffer', i < j
          PROVE  buffer'[i].off < buffer'[j].off
      <4>1. i \in DOMAIN buffer /\ buffer'[i] = buffer[i]
        BY <2>3, <2>0, <3>2
      <4>2. buffer[i].off \in offset + 1 .. child_offset
        BY <1>1, <4>1, InBuffer
      <4>3. CASE j \in DOMAIN buffer
        BY <1>1, <2>3, <3>2, <4>1, <4>3 DEF ListingInv, FilledInOrder
      <4>4. CASE j = Len(buffer) + 1
        BY <2>2, <2>3, <2>0, <4>1, <4>2, <4>4
      <4> QED
        BY <2>3, <4>3, <4>4
    <3> QED
      BY <1>1, <3>1, <3>2 DEF ListingInv, FilledInOrder
  <2> QED
    BY <1>2, <2>4, <2>5 DEF ListingInv
<1> QED
  BY <1>3, <1>4 DEF fill_child, filler, Reached, NextOffset, ListingInv, TypeOK

\* What a call delivers was not listed before, for it lies behind the offset.
LEMMA ReturnLists ==
  ASSUME ListingInv, Return, fresult = 0, buffer # <<>>, NEW n \in Names
  PROVE  /\ listed'[n] = 1 <=>
              listed[n] = 1 \/ \E i \in DOMAIN buffer : buffer[i].name = n
         /\ listed'[n] \in {0, 1}
<1>1. pc = "fill" /\ listed'[n] = Capped(listed[n] + Times(n, buffer))
  BY DEF Return
<1>2. listed[n] \in {0, 1}
  BY DEF ListingInv, ListedBefore
<1>3. ASSUME listed[n] = 1, NEW i \in DOMAIN buffer, buffer[i].name = n
      PROVE  FALSE
  <2>1. PICK k \in 1 .. offset : children[k] = n
    BY <1>1, <1>3 DEF ListingInv, ListedBefore, Reading
  <2>2. k \in DOMAIN children
    BY <1>1 DEF ListingInv, TypeOK, ListedBefore, Reading
  <2>3. k = buffer[i].off
    BY <1>1, <1>3, <2>1, <2>2, InBuffer DEF ListingInv, Distinct
  <2>4. buffer[i].off \in offset + 1 .. child_offset
    BY <1>1, InBuffer
  <2> QED
    BY <2>1, <2>3, <2>4 DEF ListingInv, TypeOK
<1> HIDE DEF ListingInv
<1> QED
  BY <1>1, <1>2, <1>3, TimesOnce DEF Capped

LEMMA ReturnListing ==
  ASSUME ListingInv, Return
  PROVE  ListingInv'
<1>1. /\ pc = "fill" /\ child_offset = Len(dentry_json)
      /\ UNCHANGED <<children, dentry_json, child_offset, buffer, used, fresult,
                     stayed>>
  BY DEF Return, loop
<1>2. CASE fresult = 0 /\ buffer # <<>>
  <2>1. /\ pc' = "open"
        /\ offset' = buffer[Len(buffer)].off
        /\ listed' = [n \in Names |-> Capped(listed[n] + Times(n, buffer))]
    BY <1>2 DEF Return, Last
  <2>2. Len(buffer) \in DOMAIN buffer
    BY <1>2 DEF ListingInv, TypeOK
  <2>3. offset' \in offset + 1 .. Len(dentry_json)
    BY <1>1, <2>1, <2>2 DEF ListingInv, FilledInOrder
  <2>4. \A n \in Names : listed'[n] \in {0, 1}
    BY <1>2, ReturnLists
  <2>5. TypeOK'
    BY <1>1, <2>1, <2>3, <2>4 DEF ListingInv, TypeOK
  <2>6. ListedBefore'
    <3> SUFFICES ASSUME NEW n \in Names, listed'[n] = 1
                 PROVE  \E k \in 1 .. offset' : children[k] = n
      BY <1>1, <2>3, <2>4 DEF ListingInv, TypeOK, FilledInOrder, ListedBefore
    <3>1. CASE listed[n] = 1
      BY <1>1, <2>3, <3>1 DEF ListingInv, TypeOK, ListedBefore, Reading
    <3>2. CASE \E i \in DOMAIN buffer : buffer[i].name = n
      <4>1. PICK i \in DOMAIN buffer : buffer[i].name = n
        BY <3>2
      <4>2. /\ buffer[i].off \in offset + 1 .. child_offset
            /\ children[buffer[i].off] = n
        BY <1>1, <4>1, InBuffer
      <4>3. i = Len(buffer) \/ i < Len(buffer)
        BY DEF ListingInv, TypeOK
      <4>4. buffer[i].off <= offset'
        BY <1>1, <2>1, <2>2, <2>3, <4>2, <4>3 DEF ListingInv, TypeOK, FilledInOrder
      <4> QED
        BY <2>3, <4>2, <4>4 DEF ListingInv, TypeOK
    <3> QED
      BY <1>2, <3>1, <3>2, ReturnLists
  <2> QED
    BY <1>1, <2>1, <2>5, <2>6 DEF ListingInv, Distinct, FilledInOrder
<1>3. CASE ~(fresult = 0 /\ buffer # <<>>)
  <2>1. pc' \in {"eof", "failed"} /\ UNCHANGED <<listed, offset>>
    BY <1>3 DEF Return
  <2> QED
    BY <1>1, <2>1 DEF ListingInv, TypeOK, Distinct, ListedBefore, Reading,
       FilledInOrder
<1> QED
  BY <1>2, <1>3

LEMMA ClosedirListing ==
  ASSUME ListingInv, Closedir
  PROVE  ListingInv'
BY DEF Closedir, loop, user, ListingInv, TypeOK, Distinct, ListedBefore, Reading,
   FilledInOrder

LEMMA NextListing ==
  ASSUME OnlyAdded
  PROVE  ListingInv /\ [Next]_vars => ListingInv'
<1> SUFFICES ASSUME ListingInv, [Next]_vars
             PROVE  ListingInv'
  OBVIOUS
<1>1. CASE UNCHANGED vars
  BY <1>1 DEF vars, loop, user, ListingInv, TypeOK, Distinct, ListedBefore,
     Reading, FilledInOrder
<1>2. CASE Next
  BY <1>2, AddListing, RemoveListing, OpendirListing, GetDentryListing,
     FillListing, ReturnListing, ClosedirListing DEF Next, Reads
<1> QED
  BY <1>1, <1>2

-----------------------------------------------------------------------------
(***************************************************************************)
(* Names of one length: none is left out.                                  *)
(***************************************************************************)

\* The children there were keep their places.
LEMMA AddLeavesNothingOut ==
  ASSUME ListingInv, NothingLeftOut, NEW n \in Names, add_child_to_dentry(n)
  PROVE  NothingLeftOut'
<1>1. /\ children' = Append(children, n)
      /\ UNCHANGED <<pc, offset, dentry_json, child_offset, buffer, used,
                     fresult, listed, stayed>>
  BY DEF add_child_to_dentry, loop, user
<1>2. /\ \A i \in DOMAIN children : i \in DOMAIN children' /\ children'[i] = children[i]
      /\ DOMAIN children = 1 .. Len(children)
  BY <1>1 DEF ListingInv, TypeOK
<1>3. ToSet(children) \subseteq ToSet(children')
  BY <1>2 DEF ToSet
<1>4. ASSUME Reading, NEW i \in 1 .. offset
      PROVE  children'[i] = children[i]
  <2>1. i \in 1 .. Len(children)
    BY <1>4 DEF ListingInv, TypeOK, ListedBefore
  <2> QED
    BY <1>2, <2>1
<1>5. ListsAllOnce'
  BY <1>1 DEF NothingLeftOut, ListsAllOnce
<1> QED
  BY <1>1, <1>3, <1>4, <1>5 DEF NothingLeftOut, Reading

\* A step that starts or ends reading, or lists nothing.
LEMMA QuietLeavesNothingOut ==
  ASSUME ListingInv, NothingLeftOut, Opendir \/ get_dentry_json \/ Closedir
  PROVE  NothingLeftOut'
<1>1. CASE Opendir
  BY <1>1 DEF Opendir, loop, NothingLeftOut, Reading, ListsAllOnce
<1>2. CASE get_dentry_json
  BY <1>2 DEF get_dentry_json, user, ListingInv, TypeOK, NothingLeftOut, Reading,
     ListsAllOnce
<1>3. CASE Closedir
  BY <1>3 DEF Closedir, loop, user, NothingLeftOut, Reading, ListsAllOnce
<1> QED
  BY <1>1, <1>2, <1>3

\* Once a name did not fit, none does.
LEMMA FillLeavesNothingOut ==
  ASSUME OneLength, ListingInv, NothingLeftOut, fill_child
  PROVE  NothingLeftOut'
<1> DEFINE name == dentry_json[child_offset + 1]
           entry == [name |-> name, off |-> child_offset + 1]
<1>1. /\ pc = "fill" /\ pc' = pc /\ child_offset' = child_offset + 1
      /\ child_offset < Len(dentry_json)
      /\ UNCHANGED <<children, dentry_json, offset, listed, stayed>>
  BY DEF fill_child, user
<1>2. name \in Names
  BY <1>1 DEF ListingInv, TypeOK
<1>3. /\ fresult' = 0 =>
           \A k \in offset + 1 .. child_offset' :
             \E i \in DOMAIN buffer' : buffer'[i].off = k
      /\ fresult' = 1 => \A n \in Names : used' + EntrySize[n] > BufferSize
  <2>1. CASE ~Reached(child_offset)
    <3>1. UNCHANGED <<buffer, used, fresult>> /\ child_offset < offset
      BY <2>1 DEF fill_child, Reached, ListingInv, TypeOK
    <3>2. offset + 1 .. child_offset' = {}
      BY <1>1, <3>1 DEF ListingInv, TypeOK
    <3> QED
      BY <1>1, <3>1, <3>2 DEF NothingLeftOut
  <2>2. CASE Reached(child_offset) /\ used + EntrySize[name] <= BufferSize
    <3>1. /\ buffer' = Append(buffer, entry) /\ fresult' = 0
          /\ entry.off = child_offset + 1
      BY <2>2 DEF fill_child, filler, NextOffset
    <3>2. fresult = 0
      <4>1. EntrySize[name] \in Nat /\ used \in Nat /\ BufferSize \in Nat
        BY <1>2, ReaddirAssumption DEF ListingInv, TypeOK
      <4> QED
        BY <1>1, <1>2, <2>2, <4>1 DEF NothingLeftOut, ListingInv, TypeOK
    <3> HIDE DEF entry
    <3>3. /\ \A i \in DOMAIN buffer : i \in DOMAIN buffer' /\ buffer'[i] = buffer[i]
          /\ Len(buffer) + 1 \in DOMAIN buffer'
          /\ buffer'[Len(buffer) + 1] = entry
      BY <3>1 DEF ListingInv, TypeOK
    <3>4. ASSUME NEW k \in offset + 1 .. child_offset + 1
          PROVE  \E i \in DOMAIN buffer' : buffer'[i].off = k
      <4>1. k = child_offset + 1 \/ k \in offset + 1 .. child_offset
        BY DEF ListingInv, TypeOK
      <4>2. CASE k \in offset + 1 .. child_offset
        <5>1. PICK i \in DOMAIN buffer : buffer[i].off = k
          BY <1>1, <3>2, <4>2 DEF NothingLeftOut
        <5> QED
          BY <3>3, <5>1
      <4> QED
        BY <3>1, <3>3, <4>1, <4>2
    <3> QED
      BY <1>1, <3>1, <3>4
  <2>3. CASE Reached(child_offset) /\ ~(used + EntrySize[name] <= BufferSize)
    <3>1. UNCHANGED <<buffer, used>> /\ fresult' = 1
      BY <2>3 DEF fill_child, filler
    <3>2. used + EntrySize[name] > BufferSize
      BY <1>2, <2>3, ReaddirAssumption DEF ListingInv, TypeOK
    <3> QED
      BY <1>2, <3>1, <3>2 DEF OneLength
  <2> QED
    BY <2>1, <2>2, <2>3
<1> QED
  BY <1>1, <1>3 DEF NothingLeftOut, Reading, ListsAllOnce

\* A call that returns names has looked at the whole array.
LEMMA ReturnLeavesNothingOut ==
  ASSUME ListingInv, NothingLeftOut, Return
  PROVE  NothingLeftOut'
<1>1. /\ pc = "fill" /\ child_offset = Len(dentry_json)
      /\ UNCHANGED <<children, stayed>>
  BY DEF Return
<1>2. CASE fresult = 0 /\ buffer # <<>>
  <2>1. pc' = "open" /\ offset' = buffer[Len(buffer)].off
    BY <1>2 DEF Return, Last
  <2>2. Len(buffer) \in DOMAIN buffer /\ DOMAIN buffer = 1 .. Len(buffer)
    BY <1>2 DEF ListingInv, TypeOK
  <2>3. offset' \in offset + 1 .. Len(dentry_json)
    BY <1>1, <2>1, <2>2, InBuffer
  <2>4. ASSUME NEW k \in 1 .. offset'
        PROVE  listed'[children[k]] = 1
    <3>1. k \in DOMAIN children /\ children[k] \in Names
      BY <1>1, <2>3 DEF ListingInv, TypeOK, FilledInOrder
    <3>2. CASE k <= offset
      <4>1. listed[children[k]] = 1
        BY <1>1, <3>2 DEF NothingLeftOut, Reading, ListingInv, TypeOK
      <4> QED
        BY <1>2, <3>1, <4>1, ReturnLists
    <3>3. CASE k > offset
      <4>1. k \in offset + 1 .. child_offset
        BY <1>1, <2>3, <3>3 DEF ListingInv, TypeOK
      <4>2. PICK i \in DOMAIN buffer : buffer[i].off = k
        BY <1>1, <1>2, <4>1 DEF NothingLeftOut
      <4>3. buffer[i].name = children[k]
        BY <1>1, <4>2, InBuffer
      <4> QED
        BY <1>2, <3>1, <4>3, ReturnLists
    <3> QED
      BY <2>3, <3>2, <3>3 DEF ListingInv, TypeOK
  <2> QED
    BY <1>1, <2>1, <2>4 DEF NothingLeftOut, Reading, ListsAllOnce
<1>3. CASE fresult = 0 /\ buffer = <<>>
  <2>1. pc' = "eof" /\ UNCHANGED <<listed, offset>>
    BY <1>3 DEF Return
  <2>2. Len(dentry_json) <= offset
    <3> SUFFICES ASSUME offset < Len(dentry_json)
                 PROVE  FALSE
      BY DEF ListingInv, TypeOK
    <3>1. Len(dentry_json) \in offset + 1 .. child_offset
      BY <1>1 DEF ListingInv, TypeOK
    <3>2. \E i \in DOMAIN buffer : buffer[i].off = Len(dentry_json)
      BY <1>1, <1>3, <3>1 DEF NothingLeftOut
    <3> QED
      BY <1>3, <3>2
  <2>3. ASSUME NEW n \in stayed
        PROVE  listed[n] = 1
    <3>1. PICK k \in DOMAIN dentry_json : dentry_json[k] = n
      BY <1>1 DEF NothingLeftOut, ToSet
    <3>2. k \in 1 .. offset /\ children[k] = n
      BY <1>1, <2>2, <3>1 DEF ListingInv, TypeOK, FilledInOrder
    <3> QED
      BY <1>1, <3>2 DEF NothingLeftOut, Reading
  <2>4. \A n \in Names : listed[n] < 2
    BY DEF ListingInv, ListedBefore
  <2> QED
    BY <1>1, <2>1, <2>3, <2>4 DEF NothingLeftOut, Reading, ListsAllOnce
<1>4. CASE fresult # 0
  BY <1>1, <1>4 DEF Return, NothingLeftOut, Reading, ListsAllOnce
<1> QED
  BY <1>2, <1>3, <1>4

LEMMA NextLeavesNothingOut ==
  ASSUME OnlyAdded, OneLength
  PROVE  ListingInv /\ NothingLeftOut /\ [Next]_vars => NothingLeftOut'
<1> SUFFICES ASSUME ListingInv, NothingLeftOut, [Next]_vars
             PROVE  NothingLeftOut'
  OBVIOUS
<1>1. CASE UNCHANGED vars
  BY <1>1 DEF vars, loop, user, NothingLeftOut, Reading, ListsAllOnce
<1>2. ASSUME NEW n \in Names, remove_child_from_dentry(n)
      PROVE  NothingLeftOut'
  BY <1>2, RemoveListing DEF ListingInv, TypeOK, OnlyAdded,
     remove_child_from_dentry, NothingLeftOut, Reading, ListsAllOnce
<1>3. CASE Next
  BY <1>2, <1>3, AddLeavesNothingOut, QuietLeavesNothingOut,
     FillLeavesNothingOut, ReturnLeavesNothingOut DEF Next, Reads
<1> QED
  BY <1>1, <1>3

-----------------------------------------------------------------------------
\* The offsets cbfuse_readdir keeps with names, and the room they take, stay in
\* their bounds while names are added.
THEOREM ReaddirTypeCorrect ==
  ASSUME OnlyAdded
  PROVE  Spec => []TypeOK
<1>1. ListingInv => TypeOK
  BY DEF ListingInv
<1> QED
  BY <1>1, InitListing, NextListing, PTL DEF Spec

\* cbfuse_readdir never lists a name twice to a user who goes on from the offset
\* of the last name, however long the names are, and even when a call failed for
\* want of room: only names may be added meanwhile.
THEOREM NeverListedTwice ==
  ASSUME OnlyAdded
  PROVE  Spec => [](\A n \in Names : listed[n] < 2)
<1>1. ListingInv => \A n \in Names : listed[n] < 2
  BY DEF ListingInv, ListedBefore
<1> QED
  BY <1>1, InitListing, NextListing, PTL DEF Spec

\* With names of one length, in directories of any size, cbfuse_readdir lists to
\* its end each name that was there all the time, and none twice.
THEOREM EveryNameListedOnce ==
  ASSUME OnlyAdded, OneLength
  PROVE  Spec => []ListsAllOnce
<1>1. Init => NothingLeftOut
  BY DEF Init, NothingLeftOut, Reading, ListsAllOnce
<1>2. NothingLeftOut => ListsAllOnce
  BY DEF NothingLeftOut
<1> QED
  BY <1>1, <1>2, InitListing, NextListing, NextLeavesNothingOut, PTL DEF Spec

=============================================================================
