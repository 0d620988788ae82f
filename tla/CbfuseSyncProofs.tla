--------------------------- MODULE CbfuseSyncProofs ---------------------------
(***************************************************************************)
(* Proofs, for any number of keys, of commands under way and of cells of   *)
(* memory, that the result of a synchronous call lives as long as a        *)
(* callback may write to it, and that the calls are atomic.                *)
(***************************************************************************)
EXTENDS CbfuseSync, FiniteSetTheorems, WellFoundedInduction, TLAPS

\* The cells that hold a result.
Used == {cell \in Cells : heap[cell] # Free}

(***************************************************************************)
(* ResultsLive alone is not inductive: that nothing is scheduled when the  *)
(* caller frees the result is lcb_wait's doing, and that a callback leaves *)
(* a result where there was one is due to what answers are.                *)
(***************************************************************************)
Live ==
  /\ heap = [cell \in Cells |-> heap[cell]]
  /\ \A a \in answers : a.result.status # "free"
  /\ pc = "idle" => Used = {}
  /\ \A cell1, cell2 \in Used : cell1 = cell2
  /\ \A s \in scheduled : s.cookie \in Used
  /\ pc # "lcb_wait" => scheduled = {}

\* A step that touches neither memory nor the library's commands.
LEMMA LiveKept ==
  ASSUME Live, UNCHANGED <<scheduled, heap, pc>>, answers' \subseteq answers
  PROVE  Live'
BY DEF Live, Used

LEMMA InitLive == Init => Live
BY DEF Init, Live, Used, Free

\* The caller allocates the only result, and the library gets it as the cookie.
LEMMA ScheduleLive ==
  ASSUME Live, NEW c \in Commands, sync_schedule(c)
  PROVE  Live'
<1>1. PICK cell \in Cells, n \in Opaques :
        /\ Allocate(cell)
        /\ scheduled' = scheduled \cup {[opaque |-> n, cookie |-> cell]}
  BY DEF sync_schedule
<1>2. pc = "idle" /\ pc' = "lcb_wait" /\ UNCHANGED answers
  BY DEF sync_schedule
<1>3. heap' = [heap EXCEPT ![cell] = calloc] /\ calloc # Free
  BY <1>1 DEF Allocate, calloc, Free
<1>4. Used' = {cell}
  BY <1>2, <1>3 DEF Live, Used
<1>5. \A s \in scheduled' : s.cookie = cell
  BY <1>1, <1>2 DEF Live
<1> QED
  BY <1>2, <1>3, <1>4, <1>5 DEF Live

LEMMA RefusedLive ==
  ASSUME Live, NEW c \in Commands, sync_refused(c)
  PROVE  Live'
<1>1. PICK cell \in Cells : Allocate(cell)
  BY DEF sync_refused
<1>2. pc = "idle" /\ pc' = "done" /\ UNCHANGED <<answers, scheduled>>
  BY DEF sync_refused, server
<1>3. heap' = [heap EXCEPT ![cell] = calloc] /\ calloc # Free
  BY <1>1 DEF Allocate, calloc, Free
<1>4. Used' = {cell}
  BY <1>2, <1>3 DEF Live, Used
<1> QED
  BY <1>2, <1>3, <1>4 DEF Live

LEMMA ExecuteLive ==
  ASSUME Live, NEW k \in Keys, Execute(k)
  PROVE  Live'
<1> DEFINE sent == Head(channel[k])
           good == Precondition(sent.cmd, docs[k])
           got == [status |-> IF good THEN "success" ELSE "failed",
                   value  |-> IF good /\ sent.cmd.kind = "get"
                              THEN docs[k] ELSE Absent]
           answer == [opaque |-> sent.opaque, result |-> got]
<1>1. answers' = answers \cup {answer} /\ UNCHANGED <<scheduled, heap, pc>>
  BY DEF Execute
<1>2. answer.result = got /\ got.status # "free"
  OBVIOUS
<1> HIDE DEF answer
<1> QED
  BY <1>1, <1>2 DEF Live, Used

\* A callback turns one result into another.
LEMMA CallbackLive ==
  ASSUME Live, pc = "lcb_wait", NEW s \in scheduled, NEW answer,
         answer.status # "free", sync_callback(s, answer),
         UNCHANGED pc, answers' \subseteq answers
  PROVE  Live'
<1>1. s.cookie \in Used /\ s.cookie \in Cells
  BY DEF Live, Used
<1>2. answer # Free
  BY DEF Free
<1>3. /\ heap' = [heap EXCEPT ![s.cookie] = answer]
      /\ scheduled' = scheduled \ {s}
  BY DEF sync_callback
<1>4. Used' = Used
  BY <1>1, <1>2, <1>3 DEF Live, Used
<1> QED
  BY <1>1, <1>3, <1>4 DEF Live

LEMMA ReceiveLive ==
  ASSUME Live, NEW a \in answers, Receive(a)
  PROVE  Live'
<1>1. pc = "lcb_wait" /\ UNCHANGED pc /\ answers' \subseteq answers
  BY DEF Receive
<1>2. CASE \E s \in scheduled : s.opaque = a.opaque
  <2> DEFINE s == CHOOSE x \in scheduled : x.opaque = a.opaque
  <2>1. s \in scheduled
    BY <1>2
  <2>2. sync_callback(s, a.result)
    BY <1>2 DEF Receive
  <2>3. a.result.status # "free"
    BY DEF Live
  <2> HIDE DEF s
  <2> QED
    BY <1>1, <2>1, <2>2, <2>3, CallbackLive
<1>3. CASE ~\E s \in scheduled : s.opaque = a.opaque
  BY <1>1, <1>3, LiveKept DEF Receive
<1> QED
  BY <1>2, <1>3

LEMMA TimeOutLive ==
  ASSUME Live, NEW s \in scheduled, TimeOut(s)
  PROVE  Live'
BY CallbackLive DEF TimeOut, server

\* The caller frees the only result, when the library is done with it.
LEMMA FinishLive ==
  ASSUME Live, NEW cell \in Cells, finish(cell)
  PROVE  Live'
<1>1. /\ pc = "done" /\ pc' = "idle" /\ cell \in Used
      /\ heap' = [heap EXCEPT ![cell] = Free]
      /\ UNCHANGED <<answers, scheduled>>
  BY DEF finish, server, Used
<1>2. Used' = {}
  BY <1>1 DEF Live, Used
<1> QED
  BY <1>1, <1>2 DEF Live

LEMMA NextLive == Live /\ [Next]_vars => Live'
<1> SUFFICES ASSUME Live, [Next]_vars
             PROVE  Live'
  OBVIOUS
<1>1. ASSUME NEW c \in Commands, sync_schedule(c) \/ sync_refused(c)
      PROVE  Live'
  BY <1>1, ScheduleLive, RefusedLive
<1>2. ASSUME NEW k \in Keys, Execute(k)
      PROVE  Live'
  BY <1>2, ExecuteLive
<1>3. ASSUME NEW a \in answers, LoseAnswer(a)
      PROVE  Live'
  BY <1>3, LiveKept DEF LoseAnswer
<1>4. CASE Library
  <2>1. CASE lcb_wait
    BY <2>1 DEF lcb_wait, WaitEnds, Live, Used, server
  <2> QED
    BY <1>4, <2>1, ReceiveLive, TimeOutLive DEF Library
<1>5. CASE Finish
  BY <1>5, FinishLive DEF Finish
<1>6. CASE UNCHANGED vars
  BY <1>6, LiveKept DEF vars
<1> QED
  BY <1>1, <1>2, <1>3, <1>4, <1>5, <1>6 DEF Next

\* Whatever the network and the server do, no callback of sync_get, sync_store or
\* sync_remove writes to a result that its caller has freed, and no call begins
\* with the result of an earlier one still allocated.
THEOREM ResultsOutliveCallbacks == Spec => []ResultsLive
<1>1. Live => ResultsLive
  BY DEF Live, ResultsLive, Used
<1> QED
  BY <1>1, InitLive, NextLive, PTL DEF Spec

-----------------------------------------------------------------------------
(***************************************************************************)
(* Induction over the natural numbers, for sets.                           *)
(***************************************************************************)
LEMMA LeastNumber ==
  ASSUME NEW T, T \subseteq Nat, T # {}
  PROVE  \E x \in T : \A y \in T : ~(y < x)
<1> PICK n \in T : TRUE
  OBVIOUS
<1> DEFINE Below == {0 .. k : k \in {k \in T : k <= n}}
<1>1. IsWellFoundedOn(StrictSubsetOrdering(0 .. n), FiniteSubsetsOf(0 .. n))
  BY FS_StrictSubsetOrderingWellFounded
<1>2. Below \subseteq FiniteSubsetsOf(0 .. n) /\ Below # {}
  <2>1. \A k \in T : k <= n => 0 .. k \subseteq 0 .. n /\ IsFiniteSet(0 .. k)
    BY FS_Interval
  <2> QED
    BY <2>1 DEF FiniteSubsetsOf
<1>3. PICK B \in Below :
        \A C \in Below : ~(<<C, B>> \in StrictSubsetOrdering(0 .. n))
  <2> HIDE DEF Below
  <2> QED
    BY <1>1, <1>2, WFMin
<1>4. PICK x \in T : x <= n /\ B = 0 .. x
  OBVIOUS
<1>5. ASSUME NEW y \in T, y < x
      PROVE  FALSE
  <2>1. 0 .. y \in Below
    BY <1>4, <1>5
  <2>2. 0 .. y \subseteq 0 .. x /\ 0 .. x \subseteq 0 .. n /\ 0 .. y # 0 .. x
    BY <1>4, <1>5
  <2>3. <<0 .. y, B>> \in StrictSubsetOrdering(0 .. n)
    BY <2>2, <1>4 DEF StrictSubsetOrdering
  <2> HIDE DEF Below
  <2> QED
    BY <2>1, <2>3, <1>3
<1> QED
  BY <1>4, <1>5

LEMMA SetInduction ==
  ASSUME NEW S, 0 \in S, \A n \in Nat : n \in S => n + 1 \in S
  PROVE  Nat \subseteq S
<1> DEFINE T == Nat \ S
<1> SUFFICES ASSUME T # {}
             PROVE  FALSE
  OBVIOUS
<1>1. PICK x \in T : \A y \in T : ~(y < x)
  <2> T \subseteq Nat
    OBVIOUS
  <2> HIDE DEF T
  <2> QED
    BY LeastNumber
<1>2. x - 1 \in Nat /\ x - 1 < x /\ x - 1 \in S
  BY <1>1
<1> QED
  BY <1>1, <1>2

-----------------------------------------------------------------------------
(***************************************************************************)
(* What Course computes.                                                   *)
(***************************************************************************)
IsCourse(doc, sent, f) ==
  f = [i \in 0 .. Len(sent) |->
         IF i = 0 THEN doc ELSE Applied(sent[i].cmd, f[i - 1])]

LEMMA CourseUnique ==
  ASSUME NEW doc, NEW S, NEW sent \in Seq(S), NEW f, NEW g,
         IsCourse(doc, sent, f), IsCourse(doc, sent, g)
  PROVE  f = g
<1> DEFINE Same == {n \in Nat : n <= Len(sent) => f[n] = g[n]}
<1>1. Len(sent) \in Nat
  OBVIOUS
<1>2. 0 \in Same
  BY <1>1 DEF IsCourse
<1>3. \A n \in Nat : n \in Same => n + 1 \in Same
  <2> SUFFICES ASSUME NEW n \in Nat, f[n] = g[n], n + 1 <= Len(sent)
               PROVE  f[n + 1] = g[n + 1]
    BY <1>1
  <2>1. n + 1 \in 0 .. Len(sent) /\ n + 1 # 0 /\ (n + 1) - 1 = n
    BY <1>1
  <2>2. f[n + 1] = Applied(sent[n + 1].cmd, f[n])
    BY <2>1 DEF IsCourse
  <2>3. g[n + 1] = Applied(sent[n + 1].cmd, g[n])
    BY <2>1 DEF IsCourse
  <2> QED
    BY <2>2, <2>3
<1>4. Nat \subseteq Same
  <2> HIDE DEF Same
  <2> QED
    BY <1>2, <1>3, SetInduction
<1>5. \A i \in 0 .. Len(sent) : f[i] = g[i]
  BY <1>1, <1>4
<1> QED
  BY <1>5 DEF IsCourse

LEMMA CourseExists ==
  ASSUME NEW doc, NEW S, NEW sent \in Seq(S)
  PROVE  \E f : IsCourse(doc, sent, f)
<1> DEFINE Begins(n, f) ==
             f = [i \in 0 .. n |->
                    IF i = 0 THEN doc ELSE Applied(sent[i].cmd, f[i - 1])]
           Begun == {n \in Nat : \E f : Begins(n, f)}
<1>1. 0 \in Begun
  <2>1. Begins(0, [i \in 0 .. 0 |-> doc])
    OBVIOUS
  <2> QED
    BY <2>1
<1>2. \A n \in Nat : n \in Begun => n + 1 \in Begun
  <2> SUFFICES ASSUME NEW n \in Nat, n \in Begun
               PROVE  \E g : Begins(n + 1, g)
    <3> HIDE DEF Begins
    <3> QED
      OBVIOUS
  <2> PICK f : Begins(n, f)
    OBVIOUS
  <2> DEFINE g == [i \in 0 .. n + 1 |->
                     IF i = n + 1 THEN Applied(sent[i].cmd, f[n]) ELSE f[i]]
  <2>1. \A i \in 0 .. n : g[i] = f[i]
    OBVIOUS
  <2>2. g[n + 1] = Applied(sent[n + 1].cmd, g[n])
    BY <2>1
  <2>3. \A i \in 0 .. n :
          f[i] = IF i = 0 THEN doc ELSE Applied(sent[i].cmd, f[i - 1])
    OBVIOUS
  <2>4. \A i \in 0 .. n + 1 :
          g[i] = IF i = 0 THEN doc ELSE Applied(sent[i].cmd, g[i - 1])
    <3> SUFFICES ASSUME NEW i \in 1 .. n
                 PROVE  g[i] = Applied(sent[i].cmd, g[i - 1])
      <4> HIDE DEF g
      <4> QED
        BY <2>1, <2>2, <2>3
    <3>1. i \in 0 .. n /\ i # 0 /\ i - 1 \in 0 .. n
      OBVIOUS
    <3> HIDE DEF g
    <3> QED
      BY <2>1, <2>3, <3>1
  <2>5. Begins(n + 1, g)
    <3>1. g = [i \in 0 .. n + 1 |-> g[i]]
      OBVIOUS
    <3> HIDE DEF g
    <3> QED
      BY <2>4, <3>1
  <2> QED
    BY <2>5
<1>3. Nat \subseteq Begun
  <2> HIDE DEF Begun
  <2> QED
    BY <1>1, <1>2, SetInduction
<1>4. Len(sent) \in Begun
  BY <1>3
<1> QED
  BY <1>4 DEF IsCourse

LEMMA CourseEquation ==
  ASSUME NEW doc, NEW S, NEW sent \in Seq(S)
  PROVE  IsCourse(doc, sent, Course(doc, sent))
<1> DEFINE Is(f) == f = [i \in 0 .. Len(sent) |->
                          IF i = 0 THEN doc ELSE Applied(sent[i].cmd, f[i - 1])]
<1>1. Course(doc, sent) = CHOOSE f : Is(f)
  BY DEF Course
<1>2. \E f : Is(f)
  <2>1. PICK f : IsCourse(doc, sent, f)
    BY CourseExists
  <2> QED
    BY <2>1 DEF IsCourse
<1>3. Is(CHOOSE g : Is(g))
  <2> HIDE DEF Is
  <2> QED
    BY <1>2
<1> QED
  BY <1>1, <1>3 DEF IsCourse

LEMMA CourseValues ==
  ASSUME NEW doc, NEW S, NEW sent \in Seq(S)
  PROVE  /\ DOMAIN Course(doc, sent) = 0 .. Len(sent)
         /\ Course(doc, sent)[0] = doc
         /\ \A i \in 1 .. Len(sent) :
              Course(doc, sent)[i] =
                Applied(sent[i].cmd, Course(doc, sent)[i - 1])
<1> DEFINE f == Course(doc, sent)
<1>1. IsCourse(doc, sent, f)
  BY CourseEquation
<1>2. Len(sent) \in Nat
  OBVIOUS
<1> HIDE DEF f
<1>3. DOMAIN f = 0 .. Len(sent)
  BY <1>1 DEF IsCourse
<1>4. f[0] = doc
  BY <1>1, <1>2 DEF IsCourse
<1>5. \A i \in 1 .. Len(sent) : f[i] = Applied(sent[i].cmd, f[i - 1])
  BY <1>1, <1>2 DEF IsCourse
<1> QED
  BY <1>3, <1>4, <1>5 DEF f

\* The same in equations.
Follows(doc, sent, f) ==
  /\ f = [i \in 0 .. Len(sent) |-> f[i]]
  /\ f[0] = doc
  /\ \A i \in 1 .. Len(sent) : f[i] = Applied(sent[i].cmd, f[i - 1])

LEMMA CourseIs ==
  ASSUME NEW doc, NEW S, NEW sent \in Seq(S), NEW f, Follows(doc, sent, f)
  PROVE  Course(doc, sent) = f
<1>1. \A i \in 0 .. Len(sent) :
        f[i] = IF i = 0 THEN doc ELSE Applied(sent[i].cmd, f[i - 1])
  BY DEF Follows
<1>2. IsCourse(doc, sent, f)
  BY <1>1 DEF Follows, IsCourse
<1>3. IsCourse(doc, sent, Course(doc, sent))
  BY CourseEquation
<1> QED
  BY <1>2, <1>3, CourseUnique

\* A command sent last changes what the ones before it leave.
LEMMA CourseAppend ==
  ASSUME NEW doc, NEW S, NEW sent \in Seq(S), NEW x \in S
  PROVE  /\ \A i \in 0 .. Len(sent) :
              Course(doc, Append(sent, x))[i] = Course(doc, sent)[i]
         /\ Course(doc, Append(sent, x))[Len(sent) + 1] =
              Applied(x.cmd, Course(doc, sent)[Len(sent)])
<1> DEFINE more == Append(sent, x)
           f == Course(doc, sent)
           n == Len(sent)
           g == [i \in 0 .. n + 1 |-> IF i = n + 1 THEN Applied(x.cmd, f[n]) ELSE f[i]]
<1>1. more \in Seq(S) /\ Len(more) = n + 1 /\ n \in Nat
  OBVIOUS
<1>2. \A i \in 1 .. n : more[i] = sent[i]
  OBVIOUS
<1>3. more[n + 1] = x
  OBVIOUS
<1>4. f[0] = doc /\ \A i \in 1 .. n : f[i] = Applied(sent[i].cmd, f[i - 1])
  BY CourseValues
<1> HIDE DEF more, f, n
<1>5. g = [i \in 0 .. Len(more) |-> g[i]]
  BY <1>1
<1>6. g[0] = doc
  BY <1>1, <1>4
<1>7. \A i \in 1 .. n : g[i] = Applied(more[i].cmd, g[i - 1])
  BY <1>1, <1>2, <1>4
<1>8. g[n + 1] = Applied(more[n + 1].cmd, g[(n + 1) - 1])
  BY <1>1, <1>3
<1>9. \A i \in 1 .. Len(more) : g[i] = Applied(more[i].cmd, g[i - 1])
  <2>1. \A i \in 1 .. Len(more) : i \in 1 .. n \/ i = n + 1
    BY <1>1
  <2> HIDE DEF g
  <2> QED
    BY <1>7, <1>8, <2>1
<1>10. Course(doc, more) = g
  <2> HIDE DEF g
  <2>1. Follows(doc, more, g)
    BY <1>5, <1>6, <1>9 DEF Follows
  <2> QED
    BY <1>1, <2>1, CourseIs
<1>11. \A i \in 0 .. n : g[i] = f[i]
  BY <1>1
<1>12. g[n + 1] = Applied(x.cmd, f[n])
  BY <1>1
<1> QED
  BY <1>10, <1>11, <1>12 DEF more, f, n

\* Carrying out the first command is the first step of the course.
LEMMA CourseTail ==
  ASSUME NEW doc, NEW S, NEW sent \in Seq(S), sent # <<>>
  PROVE  \A i \in 0 .. Len(sent) - 1 :
           Course(Applied(Head(sent).cmd, doc), Tail(sent))[i] =
             Course(doc, sent)[i + 1]
<1> DEFINE rest == Tail(sent)
           f == Course(doc, sent)
           n == Len(sent)
           g == [i \in 0 .. n - 1 |-> f[i + 1]]
<1>1. rest \in Seq(S) /\ Len(rest) = n - 1 /\ n \in Nat \ {0}
  OBVIOUS
<1>2. \A i \in 1 .. n - 1 : rest[i] = sent[i + 1]
  OBVIOUS
<1>3. Head(sent) = sent[1]
  OBVIOUS
<1>4. f[0] = doc /\ \A i \in 1 .. n : f[i] = Applied(sent[i].cmd, f[i - 1])
  BY CourseValues
<1> HIDE DEF rest, f, n
<1>5. g = [i \in 0 .. Len(rest) |-> g[i]]
  BY <1>1
<1>6. g[0] = Applied(Head(sent).cmd, doc)
  BY <1>1, <1>3, <1>4
<1>7. \A i \in 1 .. Len(rest) : g[i] = Applied(rest[i].cmd, g[i - 1])
  <2> SUFFICES ASSUME NEW i \in 1 .. n - 1
               PROVE  g[i] = Applied(rest[i].cmd, g[i - 1])
    BY <1>1
  <2>1. f[i + 1] = Applied(sent[i + 1].cmd, f[(i + 1) - 1])
    BY <1>1, <1>4
  <2>2. g[i] = f[i + 1] /\ g[i - 1] = f[(i - 1) + 1] /\ (i - 1) + 1 = i
        /\ (i + 1) - 1 = i
    BY <1>1
  <2> QED
    BY <1>2, <2>1, <2>2
<1>8. Course(Applied(Head(sent).cmd, doc), rest) = g
  <2> HIDE DEF g
  <2>1. Follows(Applied(Head(sent).cmd, doc), rest, g)
    BY <1>5, <1>6, <1>7 DEF Follows
  <2> QED
    BY <1>1, <2>1, CourseIs
<1> QED
  BY <1>1, <1>8 DEF rest, f, n

-----------------------------------------------------------------------------
(***************************************************************************)
(* What is known of the call in progress.  The invariant behind the        *)
(* refinement: effect is what the command finds when it is carried out, if *)
(* it ever is, and no answer and no result says anything else.             *)
(***************************************************************************)
Sent == [opaque : Opaques, cmd : Commands]

Typed ==
  /\ docs = [k \in Keys |-> docs[k]]
  /\ channel \in [Keys -> Seq(Sent)]
  /\ rc \in {"success", "failed"}

\* What the caller is promised is decided when the command is sent.
Foreseen ==
  IF pc = "idle" THEN call = NoCommand
  ELSE /\ call \in Commands
       /\ effect.taken \in BOOLEAN
       /\ effect.good = Precondition(call, effect.seen)
       /\ effect.taken => effect.good

\* The command at this place of the channel is that of the call, nothing was
\* sent after it for its key, and it will find what was foreseen.
AsForeseen(k, i) ==
  /\ k = call.key
  /\ i = Len(channel[k])
  /\ channel[k][i].cmd = call
  /\ effect.taken = effect.good
  /\ effect.seen = Course(docs[k], channel[k])[i - 1]

\* A result says that the command was a success only if it was.
Truthful(r) ==
  r.status = "success" =>
    /\ effect.taken
    /\ r.value = IF call.kind = "get" THEN effect.seen ELSE Absent

\* A number of a scheduled command belongs to no other command or answer.
Pending ==
  \A s \in scheduled :
    /\ \A k \in Keys : \A i \in 1 .. Len(channel[k]) :
         channel[k][i].opaque = s.opaque => AsForeseen(k, i)
    /\ \A a \in answers : a.opaque = s.opaque => Truthful(a.result)

\* The result the caller will look at is an answer or a time-out by then.
Reported ==
  (pc = "lcb_wait" /\ scheduled = {}) \/ (pc = "done" /\ rc = "success") =>
    \A cell \in Used : Truthful(heap[cell])

CallInv == Live /\ Typed /\ Foreseen /\ Pending /\ Reported

LEMMA InitCall == Init => CallInv
<1> SUFFICES ASSUME Init
             PROVE  CallInv
  OBVIOUS
<1>1. Live
  BY InitLive
<1>2. <<>> \in Seq(Sent)
  OBVIOUS
<1>3. Typed
  BY <1>2 DEF Init, Typed
<1>4. Foreseen /\ Pending /\ Reported
  BY DEF Init, Foreseen, Pending, Reported
<1> QED
  BY <1>1, <1>3, <1>4 DEF CallInv

\* Steps that leave the channel, the documents and the call alone.
LEMMA TypedKept ==
  ASSUME Typed, UNCHANGED <<docs, channel>>, rc' \in {"success", "failed"}
  PROVE  Typed'
BY DEF Typed

LEMMA ForeseenKept ==
  ASSUME Foreseen, UNCHANGED <<call, effect>>, (pc = "idle") = (pc' = "idle")
  PROVE  Foreseen'
BY DEF Foreseen

LEMMA PendingKept ==
  ASSUME Pending, scheduled' \subseteq scheduled, answers' \subseteq answers,
         UNCHANGED <<docs, channel, call, effect>>
  PROVE  Pending'
BY DEF Pending, AsForeseen, Truthful

\* A command is sent last, and finds what the commands before it leave.
LEMMA ScheduleCall ==
  ASSUME CallInv, NEW c \in Commands, sync_schedule(c)
  PROVE  CallInv'
<1>1. PICK cell \in Cells, n \in Opaques \ InUse, sent \in BOOLEAN :
        /\ scheduled' = scheduled \cup {[opaque |-> n, cookie |-> cell]}
        /\ channel' = IF sent
                      THEN [channel EXCEPT ![c.key] =
                              Append(@, [opaque |-> n, cmd |-> c])]
                      ELSE channel
        /\ Foresee(c, sent)
  BY DEF sync_schedule
<1>2. /\ pc = "idle" /\ pc' = "lcb_wait" /\ call' = c
      /\ UNCHANGED <<docs, answers>>
  BY DEF sync_schedule
<1>3. Live'
  BY ScheduleLive DEF CallInv
<1> DEFINE x == [opaque |-> n, cmd |-> c]
           k == c.key
<1>4. x \in Sent /\ x.opaque = n /\ x.cmd = c /\ k \in Keys
  BY KeyAssumption DEF Sent, Commands
<1>5. channel \in [Keys -> Seq(Sent)]
  BY DEF CallInv, Typed
<1>6. Typed'
  <2>1. Append(channel[k], x) \in Seq(Sent)
    BY <1>4, <1>5
  <2>2. channel' \in [Keys -> Seq(Sent)]
    <3> HIDE DEF x, k
    <3> QED
      BY <1>1, <1>4, <1>5, <2>1 DEF x, k
  <2> QED
    BY <1>2, <2>2 DEF CallInv, Typed, sync_schedule
<1>7. /\ effect'.good = Precondition(c, Settled[k])
      /\ effect'.taken = (sent /\ Precondition(c, Settled[k]))
      /\ effect'.seen = Settled[k]
  BY <1>1 DEF Foresee
<1>8. Foreseen'
  BY <1>2, <1>7 DEF Foreseen, Precondition
<1>9. scheduled' = {[opaque |-> n, cookie |-> cell]}
  BY <1>1, <1>2 DEF CallInv, Live
<1>10. ASSUME NEW l \in Keys, NEW i \in 1 .. Len(channel[l])
       PROVE  channel[l][i].opaque # n
  <2>1. channel[l][i] \in ToSet(channel[l])
    BY <1>5 DEF ToSet
  <2> QED
    BY <2>1 DEF InUse
<1>11. ASSUME NEW l \in Keys, NEW i \in 1 .. Len(channel'[l]),
              channel'[l][i].opaque = n
       PROVE  AsForeseen(l, i)'
  <2>1. sent /\ l = k
    BY <1>1, <1>5, <1>10, <1>11
  <2>2. channel'[k] = Append(channel[k], x)
    BY <1>1, <1>4, <1>5, <2>1
  <2>3. channel[k] \in Seq(Sent) /\ Len(channel[k]) \in Nat
    BY <1>4, <1>5
  <2>4. i = Len(channel[k]) + 1 /\ i = Len(channel'[k]) /\ channel'[k][i] = x
    BY <1>10, <1>11, <2>1, <2>2, <2>3
  <2>5. Course(docs[k], channel'[k])[i - 1] =
          Course(docs[k], channel[k])[Len(channel[k])]
    <3>1. i - 1 = Len(channel[k]) /\ i - 1 \in 0 .. Len(channel[k])
      BY <2>3, <2>4
    <3> HIDE DEF x, k
    <3> QED
      BY <1>4, <2>2, <2>3, <3>1, CourseAppend
  <2>6. Settled[k] = Course(docs[k], channel[k])[Len(channel[k])]
    BY <1>4 DEF Settled
  <2>7. effect'.taken = effect'.good
    BY <1>7, <2>1 DEF Precondition
  <2> QED
    BY <1>2, <1>4, <1>7, <2>1, <2>4, <2>5, <2>6, <2>7 DEF AsForeseen
<1>12. \A a \in answers : a.opaque # n
  BY DEF InUse
<1>13. Pending'
  <2>1. \A s \in scheduled' : s.opaque = n
    BY <1>9
  <2>2. \A a \in answers' : a.opaque # n
    BY <1>2, <1>12
  <2>3. \A l \in Keys : \A i \in 1 .. Len(channel'[l]) :
          channel'[l][i].opaque = n => AsForeseen(l, i)'
    BY <1>11
  <2> QED
    BY <2>1, <2>2, <2>3 DEF Pending
<1>14. Reported'
  BY <1>2, <1>9 DEF Reported
<1> QED
  BY <1>3, <1>6, <1>8, <1>13, <1>14 DEF CallInv

LEMMA RefusedCall ==
  ASSUME CallInv, NEW c \in Commands, sync_refused(c)
  PROVE  CallInv'
<1>1. /\ pc = "idle" /\ pc' = "done" /\ rc' = "failed" /\ call' = c
      /\ UNCHANGED <<docs, channel, scheduled>>
  BY DEF sync_refused, server
<1>2. Live'
  BY RefusedLive DEF CallInv
<1>3. Foreseen'
  BY <1>1 DEF Foreseen, sync_refused, Foresee, Precondition
<1>4. scheduled' = {}
  BY <1>1 DEF CallInv, Live
<1> QED
  BY <1>1, <1>2, <1>3, <1>4, TypedKept DEF CallInv, Pending, Reported

\* What the server still has to do for a key is not changed by its doing it.
LEMMA ExecuteSettles ==
  ASSUME Typed, NEW k \in Keys, Execute(k)
  PROVE  /\ Typed'
         /\ Settled' = Settled
         /\ \A l \in Keys \ {k} : channel'[l] = channel[l] /\ docs'[l] = docs[l]
         /\ Len(channel'[k]) = Len(channel[k]) - 1
         /\ \A i \in 1 .. Len(channel'[k]) :
              /\ channel'[k][i] = channel[k][i + 1]
              /\ Course(docs'[k], channel'[k])[i - 1] =
                   Course(docs[k], channel[k])[i]
<1> DEFINE first == Head(channel[k]).cmd
<1>1. /\ channel[k] # <<>>
      /\ channel' = [channel EXCEPT ![k] = Tail(@)]
      /\ docs' = [docs EXCEPT ![k] = Applied(first, @)]
  BY DEF Execute
<1>2. channel \in [Keys -> Seq(Sent)] /\ docs = [l \in Keys |-> docs[l]]
  BY DEF Typed
<1>3. /\ channel[k] \in Seq(Sent)
      /\ Tail(channel[k]) \in Seq(Sent)
      /\ Len(channel[k]) \in Nat \ {0}
      /\ Len(Tail(channel[k])) = Len(channel[k]) - 1
      /\ \A i \in 1 .. Len(channel[k]) - 1 : Tail(channel[k])[i] = channel[k][i + 1]
  BY <1>1, <1>2
<1> HIDE DEF first
<1>4. /\ channel'[k] = Tail(channel[k])
      /\ docs'[k] = Applied(first, docs[k])
      /\ \A l \in Keys \ {k} : channel'[l] = channel[l] /\ docs'[l] = docs[l]
  BY <1>1, <1>2
<1>5. Typed'
  <2>1. rc' = rc
    BY DEF Execute
  <2> QED
    BY <1>1, <1>2, <1>3, <2>1 DEF Typed
<1>6. \A i \in 0 .. Len(channel[k]) - 1 :
        Course(docs'[k], channel'[k])[i] = Course(docs[k], channel[k])[i + 1]
  BY <1>1, <1>3, <1>4, CourseTail DEF first
<1>7. Settled' = Settled
  <2> SUFFICES ASSUME NEW l \in Keys
               PROVE  Course(docs'[l], channel'[l])[Len(channel'[l])] =
                        Course(docs[l], channel[l])[Len(channel[l])]
    BY DEF Settled
  <2>1. CASE l = k
    <3>1. Len(channel[k]) - 1 \in 0 .. Len(channel[k]) - 1
          /\ (Len(channel[k]) - 1) + 1 = Len(channel[k])
      BY <1>3
    <3> QED
      BY <1>3, <1>4, <1>6, <2>1, <3>1
  <2>2. CASE l # k
    BY <1>4, <2>2
  <2> QED
    BY <2>1, <2>2
<1>8. ASSUME NEW i \in 1 .. Len(channel'[k])
      PROVE  /\ channel'[k][i] = channel[k][i + 1]
             /\ Course(docs'[k], channel'[k])[i - 1] =
                  Course(docs[k], channel[k])[i]
  <2>1. i \in 1 .. Len(channel[k]) - 1
    BY <1>3, <1>4
  <2>2. i - 1 \in 0 .. Len(channel[k]) - 1 /\ (i - 1) + 1 = i
    BY <1>3, <2>1
  <2> QED
    BY <1>3, <1>4, <1>6, <2>1, <2>2
<1> QED
  BY <1>3, <1>4, <1>5, <1>7, <1>8

\* The command of the call, once it is carried out, finds what was foreseen.
LEMMA ExecuteCall ==
  ASSUME CallInv, NEW k \in Keys, Execute(k)
  PROVE  CallInv'
<1> DEFINE sent == Head(channel[k])
           good == Precondition(sent.cmd, docs[k])
           got == [status |-> IF good THEN "success" ELSE "failed",
                   value  |-> IF good /\ sent.cmd.kind = "get"
                              THEN docs[k] ELSE Absent]
           answer == [opaque |-> sent.opaque, result |-> got]
<1>1. /\ channel[k] # <<>>
      /\ answers' = answers \cup {answer}
      /\ UNCHANGED <<scheduled, heap, pc, call, rc, effect>>
  BY DEF Execute
<1>2. Live'
  BY ExecuteLive DEF CallInv
<1>3. /\ channel \in [Keys -> Seq(Sent)]
      /\ Typed'
      /\ \A l \in Keys \ {k} : channel'[l] = channel[l] /\ docs'[l] = docs[l]
      /\ Len(channel'[k]) = Len(channel[k]) - 1
      /\ \A i \in 1 .. Len(channel'[k]) :
           /\ channel'[k][i] = channel[k][i + 1]
           /\ Course(docs'[k], channel'[k])[i - 1] =
                Course(docs[k], channel[k])[i]
  BY ExecuteSettles DEF CallInv, Typed
<1>4. Foreseen'
  BY <1>1, ForeseenKept DEF CallInv
<1>5. Reported'
  BY <1>1 DEF CallInv, Reported, Used, Truthful
<1>6. \A l \in Keys : Len(channel[l]) \in Nat
  BY <1>3
<1>7. ASSUME NEW s \in scheduled, NEW l \in Keys, NEW i \in 1 .. Len(channel'[l]),
             channel'[l][i].opaque = s.opaque
      PROVE  AsForeseen(l, i)'
  <2>1. CASE l = k
    <3>1. i + 1 \in 1 .. Len(channel[k]) /\ i \in Nat /\ (i + 1) - 1 = i
      BY <1>3, <1>6, <2>1
    <3>2. channel'[k][i] = channel[k][i + 1]
      BY <1>3, <2>1
    <3>3. AsForeseen(k, i + 1)
      BY <1>7, <2>1, <3>1, <3>2 DEF CallInv, Pending
    <3>4. Course(docs'[k], channel'[k])[i - 1] =
            Course(docs[k], channel[k])[(i + 1) - 1]
      BY <1>3, <2>1, <3>1
    <3>5. i = Len(channel'[k])
      BY <1>3, <1>6, <3>1, <3>3 DEF AsForeseen
    <3> QED
      BY <1>1, <2>1, <3>2, <3>3, <3>4, <3>5 DEF AsForeseen
  <2>2. CASE l # k
    <3>1. channel'[l] = channel[l] /\ docs'[l] = docs[l]
      BY <1>3, <2>2
    <3>2. AsForeseen(l, i)
      BY <1>7, <3>1 DEF CallInv, Pending
    <3> QED
      BY <1>1, <3>1, <3>2 DEF AsForeseen
  <2> QED
    BY <2>1, <2>2
<1> PICK r : r = got
  OBVIOUS
<1>8. ASSUME NEW s \in scheduled, sent.opaque = s.opaque
      PROVE  Truthful(r)'
  <2>1. channel[k] \in Seq(Sent) /\ 1 \in 1 .. Len(channel[k]) /\ sent = channel[k][1]
    BY <1>1, <1>3
  <2>2. AsForeseen(k, 1)
    BY <1>8, <2>1 DEF CallInv, Pending
  <2>3. Course(docs[k], channel[k])[0] = docs[k]
    BY <2>1, CourseValues
  <2>4. /\ sent.cmd = call
        /\ effect.taken = effect.good
        /\ effect.seen = docs[k]
    BY <2>1, <2>2, <2>3 DEF AsForeseen
  <2>5. pc # "idle"
    BY DEF CallInv, Live
  <2>6. effect.good = Precondition(call, docs[k])
    BY <2>4, <2>5 DEF CallInv, Foreseen
  <2>7. good = effect.good
    BY <2>4, <2>6
  <2>8. r.status = "success" => good
    OBVIOUS
  <2>9. r.value = IF good /\ call.kind = "get" THEN effect.seen ELSE Absent
    BY <2>4
  <2> HIDE DEF got, good
  <2> QED
    BY <1>1, <2>4, <2>7, <2>8, <2>9 DEF Truthful
<1>9. Pending'
  <2>1. ASSUME NEW s \in scheduled, NEW a \in answers', a.opaque = s.opaque
        PROVE  Truthful(a.result)'
    <3>1. CASE a \in answers
      BY <1>1, <2>1, <3>1 DEF CallInv, Pending, Truthful
    <3>2. CASE a = answer
      <4>1. a.opaque = sent.opaque /\ a.result = r
        BY <3>2
      <4> QED
        BY <1>8, <2>1, <4>1 DEF Truthful
    <3> QED
      BY <1>1, <3>1, <3>2
  <2> QED
    BY <1>1, <1>7, <2>1 DEF Pending
<1> QED
  BY <1>2, <1>3, <1>4, <1>5, <1>9 DEF CallInv

\* Inside lcb_wait the result is written by the callback alone.
LEMMA CallbackCall ==
  ASSUME CallInv, pc = "lcb_wait", NEW s \in scheduled, NEW r,
         r.status # "free", Truthful(r), sync_callback(s, r),
         answers' \subseteq answers, UNCHANGED <<docs, channel, pc, call, rc, effect>>
  PROVE  CallInv'
<1>1. Live'
  BY CallbackLive DEF CallInv
<1>2. /\ heap' = [heap EXCEPT ![s.cookie] = r]
      /\ scheduled' = scheduled \ {s}
  BY DEF sync_callback
<1>3. s.cookie \in Used /\ s.cookie \in Cells
  BY DEF CallInv, Live, Used
<1>4. heap'[s.cookie] = r
  BY <1>2, <1>3 DEF CallInv, Live
<1>5. r # Free
  BY DEF Free
<1>6. \A cell \in Used' : cell = s.cookie
  BY <1>1, <1>3, <1>4, <1>5 DEF Live, Used
<1>7. Reported'
  BY <1>4, <1>6 DEF Reported, Truthful
<1> QED
  BY <1>1, <1>2, <1>7, TypedKept, ForeseenKept, PendingKept
     DEF CallInv, Typed

LEMMA ReceiveCall ==
  ASSUME CallInv, NEW a \in answers, Receive(a)
  PROVE  CallInv'
<1>1. /\ pc = "lcb_wait" /\ answers' = answers \ {a}
      /\ UNCHANGED <<docs, channel, pc, call, rc, effect>>
  BY DEF Receive
<1>2. CASE \E s \in scheduled : s.opaque = a.opaque
  <2> DEFINE s == CHOOSE x \in scheduled : x.opaque = a.opaque
  <2>1. s \in scheduled /\ s.opaque = a.opaque
    BY <1>2
  <2>2. sync_callback(s, a.result)
    BY <1>2 DEF Receive
  <2>3. a.result.status # "free" /\ Truthful(a.result)
    BY <2>1 DEF CallInv, Live, Pending
  <2> HIDE DEF s
  <2> QED
    BY <1>1, <2>1, <2>2, <2>3, CallbackCall
<1>3. CASE ~\E s \in scheduled : s.opaque = a.opaque
  <2>1. UNCHANGED <<scheduled, heap>>
    BY <1>3 DEF Receive
  <2>2. Live'
    BY <1>1, <2>1, LiveKept DEF CallInv
  <2>3. Reported'
    BY <1>1, <2>1 DEF CallInv, Reported, Used, Truthful
  <2> QED
    BY <1>1, <2>1, <2>2, <2>3, TypedKept, ForeseenKept, PendingKept
     DEF CallInv, Typed
<1> QED
  BY <1>2, <1>3

LEMMA TimeOutCall ==
  ASSUME CallInv, NEW s \in scheduled, TimeOut(s)
  PROVE  CallInv'
<1> DEFINE r == [status |-> "timeout", value |-> Absent]
<1>1. r.status # "free" /\ Truthful(r)
  BY DEF Truthful
<1>2. pc = "lcb_wait" /\ sync_callback(s, r)
  BY DEF TimeOut
<1>3. answers' = answers /\ UNCHANGED <<docs, channel, pc, call, rc, effect>>
  BY DEF TimeOut, server
<1> HIDE DEF r
<1> QED
  BY <1>1, <1>2, <1>3, CallbackCall

LEMMA WaitCall ==
  ASSUME CallInv, lcb_wait
  PROVE  CallInv'
<1>1. /\ pc = "lcb_wait" /\ pc' = "done" /\ scheduled = {}
      /\ UNCHANGED <<docs, channel, answers, scheduled, heap, call, effect>>
  BY DEF lcb_wait, WaitEnds, server
<1>2. Live'
  BY <1>1 DEF CallInv, Live, Used
<1>3. Reported' /\ rc' \in {"success", "failed"}
  BY <1>1 DEF CallInv, Reported, Used, Truthful, lcb_wait
<1> QED
  BY <1>1, <1>2, <1>3, TypedKept, ForeseenKept, PendingKept
     DEF CallInv, Typed

LEMMA FinishCall ==
  ASSUME CallInv, NEW cell \in Cells, finish(cell)
  PROVE  CallInv'
<1>1. /\ pc = "done" /\ pc' = "idle" /\ call' = NoCommand
      /\ UNCHANGED <<docs, channel, scheduled, rc>>
  BY DEF finish, server
<1>2. scheduled' = {}
  BY <1>1 DEF CallInv, Live
<1> QED
  BY <1>1, <1>2, FinishLive, TypedKept DEF CallInv, Typed, Foreseen, Pending, Reported

LEMMA NextCall == CallInv /\ [Next]_vars => CallInv'
<1> SUFFICES ASSUME CallInv, [Next]_vars
             PROVE  CallInv'
  OBVIOUS
<1>1. ASSUME NEW c \in Commands, sync_schedule(c) \/ sync_refused(c)
      PROVE  CallInv'
  BY <1>1, ScheduleCall, RefusedCall
<1>2. ASSUME NEW k \in Keys, Execute(k)
      PROVE  CallInv'
  BY <1>2, ExecuteCall
<1>3. ASSUME UNCHANGED <<docs, channel, scheduled, heap, pc, call, rc, effect>>,
             answers' \subseteq answers
      PROVE  CallInv'
  <2>1. Live'
    BY <1>3, LiveKept DEF CallInv
  <2>2. Reported'
    BY <1>3 DEF CallInv, Reported, Used, Truthful
  <2> QED
    BY <1>3, <2>1, <2>2, TypedKept, ForeseenKept, PendingKept
     DEF CallInv, Typed
<1>4. ASSUME NEW a \in answers, LoseAnswer(a)
      PROVE  CallInv'
  BY <1>3, <1>4 DEF LoseAnswer
<1>5. CASE Library
  BY <1>5, ReceiveCall, TimeOutCall, WaitCall DEF Library
<1>6. CASE Finish
  BY <1>6, FinishCall DEF Finish
<1>7. CASE UNCHANGED vars
  BY <1>3, <1>7 DEF vars
<1> QED
  BY <1>1, <1>2, <1>4, <1>5, <1>6, <1>7 DEF Next

-----------------------------------------------------------------------------
(***************************************************************************)
(* The calls are atomic: a call happens when its command is scheduled.     *)
(***************************************************************************)

\* Both modules take the commands and outcomes from KeyValueCommands and KeyValue.
LEMMA SharedDefinitions ==
  /\ Store!Commands = Commands
  /\ Store!NoCommand = NoCommand
  /\ Store!NoEffect = NoEffect
  /\ Store!Outcomes = Outcomes
  /\ \A c, d : Store!Precondition(c, d) = Precondition(c, d)
  /\ \A c, d : Store!Applied(c, d) = Applied(c, d)
  /\ \A o, good : Store!Takes(o, good) = Takes(o, good)
  /\ \A o, good : Store!Reply(o, good) = Reply(o, good)
<1>1. \A c, d : Store!Precondition(c, d) = Precondition(c, d)
  BY DEF Store!Precondition, Precondition
<1> QED
  BY <1>1 DEF Store!Commands, Commands, Store!NoCommand, NoCommand,
              Store!NoEffect, NoEffect, Store!Outcomes, Outcomes, Store!Applied,
              Applied, Store!Takes, Takes, Store!Reply, Reply

LEMMA SettledQuietly ==
  ASSUME UNCHANGED <<docs, channel>>
  PROVE  Settled' = Settled
BY DEF Settled

LEMMA InitRefines == Init => Store!Init
<1> SUFFICES ASSUME Init
             PROVE  Store!Init
  OBVIOUS
<1>1. ASSUME NEW k \in Keys
      PROVE  Course(docs[k], channel[k])[Len(channel[k])] = Absent
  <2>1. docs[k] = Absent /\ channel[k] = <<>>
    BY DEF Init
  <2>2. <<>> \in Seq(Sent) /\ Len(<<>>) = 0
    OBVIOUS
  <2>3. Course(Absent, <<>>)[0] = Absent
    BY <2>2, CourseValues
  <2> QED
    BY <2>1, <2>2, <2>3
<1>2. Settled = [k \in Keys |-> Absent]
  BY <1>1 DEF Settled
<1> QED
  BY <1>2, SharedDefinitions DEF Init, Store!Init

LEMMA ScheduleSettles ==
  ASSUME CallInv, NEW c \in Commands, sync_schedule(c)
  PROVE  Settled' = IF effect'.taken
                    THEN [Settled EXCEPT ![c.key] = Applied(c, @)] ELSE Settled
<1>1. PICK n \in Opaques \ InUse, sent \in BOOLEAN :
        /\ channel' = IF sent
                      THEN [channel EXCEPT ![c.key] =
                              Append(@, [opaque |-> n, cmd |-> c])]
                      ELSE channel
        /\ effect'.taken = (sent /\ Precondition(c, Settled[c.key]))
  <2>1. PICK n \in Opaques \ InUse, sent \in BOOLEAN :
          /\ channel' = IF sent
                        THEN [channel EXCEPT ![c.key] =
                                Append(@, [opaque |-> n, cmd |-> c])]
                        ELSE channel
          /\ Foresee(c, sent)
    BY DEF sync_schedule
  <2> QED
    BY <2>1 DEF Foresee
<1>2. docs' = docs /\ channel \in [Keys -> Seq(Sent)]
  BY DEF sync_schedule, CallInv, Typed
<1>3. CASE ~sent
  BY <1>1, <1>2, <1>3, SettledQuietly
<1>4. CASE sent
  <2> DEFINE x == [opaque |-> n, cmd |-> c]
             k == c.key
  <2>1. x \in Sent /\ x.cmd = c /\ k \in Keys
    BY KeyAssumption DEF Sent, Commands
  <2>2. channel' = [channel EXCEPT ![k] = Append(@, x)]
    BY <1>1, <1>4
  <2> HIDE DEF x, k
  <2>3. /\ channel[k] \in Seq(Sent)
        /\ channel'[k] = Append(channel[k], x)
        /\ Len(channel'[k]) = Len(channel[k]) + 1
        /\ \A l \in Keys \ {k} : channel'[l] = channel[l]
    BY <1>2, <2>1, <2>2
  <2>4. Settled[k] = Course(docs[k], channel[k])[Len(channel[k])]
    BY <2>1 DEF Settled
  <2>5. Settled'[k] = Course(docs[k], channel'[k])[Len(channel[k]) + 1]
    BY <1>2, <2>1, <2>3 DEF Settled
  <2>6. Settled'[k] = Applied(c, Settled[k])
    BY <2>1, <2>3, <2>4, <2>5, CourseAppend
  <2>7. \A l \in Keys \ {k} : Settled'[l] = Settled[l]
    BY <1>2, <2>3 DEF Settled
  <2>8. ~effect'.taken => Applied(c, Settled[k]) = Settled[k]
    BY <1>1, <1>4 DEF Applied, k
  <2>9. /\ Settled = [l \in Keys |-> Settled[l]]
        /\ Settled' = [l \in Keys |-> Settled'[l]]
    BY DEF Settled
  <2>10. Settled' = [Settled EXCEPT ![k] = Applied(c, Settled[k])]
    BY <2>1, <2>6, <2>7, <2>9
  <2>11. Applied(c, Settled[k]) = Settled[k] => Settled' = Settled
    BY <2>6, <2>7, <2>9
  <2> QED
    BY <2>8, <2>10, <2>11 DEF k
<1> QED
  BY <1>3, <1>4

LEMMA ScheduleRefines ==
  ASSUME CallInv, NEW c \in Commands, sync_schedule(c)
  PROVE  Store!Begin(c)
<1>1. Settled' = IF effect'.taken
                 THEN [Settled EXCEPT ![c.key] = Applied(c, @)] ELSE Settled
  BY ScheduleSettles
<1>2. call = NoCommand /\ call' = c /\ UNCHANGED <<fresult, value>>
  BY DEF CallInv, Foreseen, sync_schedule, outcome
<1> DEFINE good == Precondition(c, Settled[c.key])
<1>3. PICK taken \in {FALSE, good} :
        effect' = [good |-> good, taken |-> taken, seen |-> Settled[c.key]]
  <2>1. PICK sent \in BOOLEAN : Foresee(c, sent)
    BY DEF sync_schedule
  <2>2. (sent /\ good) \in {FALSE, good}
    BY DEF Precondition
  <2> QED
    BY <2>1, <2>2 DEF Foresee
<1>4. effect'.taken = taken
  BY <1>3
<1> HIDE DEF good
<1> QED
  BY <1>1, <1>2, <1>3, <1>4, SharedDefinitions DEF Store!Begin, good

LEMMA RefusedRefines ==
  ASSUME CallInv, NEW c \in Commands, sync_refused(c)
  PROVE  Store!Begin(c)
<1>1. Settled' = Settled
  BY SettledQuietly DEF sync_refused, server
<1>2. call = NoCommand /\ call' = c /\ UNCHANGED <<fresult, value>>
  BY DEF CallInv, Foreseen, sync_refused, outcome
<1>3. effect' = [good  |-> Precondition(c, Settled[c.key]),
                 taken |-> FALSE, seen |-> Settled[c.key]]
  BY DEF sync_refused, Foresee
<1> QED
  BY <1>1, <1>2, <1>3, SharedDefinitions DEF Store!Begin

\* What the caller makes of the result is one of the outcomes of KeyValue.
LEMMA FinishRefines ==
  ASSUME FaultKinds \subseteq Faults, CallInv, NEW cell \in Cells, finish(cell)
  PROVE  Store!End
<1> DEFINE result == heap[cell]
<1>1. /\ pc = "done" /\ cell \in Used
      /\ fresult' = Code(rc, result)
      /\ value' = IF fresult' = "ok" THEN result.value ELSE Absent
      /\ call' = NoCommand /\ effect' = NoEffect
      /\ UNCHANGED <<docs, channel>>
  BY DEF finish, server, Used
<1>2. /\ call \in Commands
      /\ effect.taken \in BOOLEAN
      /\ effect.good = Precondition(call, effect.seen)
      /\ effect.taken => effect.good
  BY <1>1 DEF CallInv, Foreseen
<1>3. call # NoCommand
  <2>1. call.kind # "none"
    BY <1>2 DEF Commands
  <2> QED
    BY <2>1 DEF NoCommand
<1>4. effect.good \in BOOLEAN
  BY <1>2 DEF Precondition
<1>5. Settled' = Settled
  BY <1>1, SettledQuietly
<1>6. rc \in {"success", "failed"}
  BY DEF CallInv, Typed
<1>7. CASE rc = "failed"
  <2>1. fresult' = "EIO"
    BY <1>1, <1>7 DEF Code
  <2> DEFINE o == IF effect.taken THEN "rc_applied" ELSE "rc"
  <2>2. o \in Outcomes /\ Takes(o, effect.good) = effect.taken
    BY <1>2, <1>4 DEF Outcomes, FaultKinds, Takes
  <2>3. Reply(o, effect.good) = "EIO"
    BY DEF Reply
  <2> HIDE DEF o
  <2> QED
    BY <1>1, <1>3, <1>5, <2>1, <2>2, <2>3, SharedDefinitions DEF Store!End
<1>8. CASE rc = "success" /\ result.status = "success"
  <2>1. fresult' = "ok"
    BY <1>1, <1>8 DEF Code
  <2>2. /\ effect.taken
        /\ result.value = IF call.kind = "get" THEN effect.seen ELSE Absent
    BY <1>1, <1>8 DEF CallInv, Reported, Truthful
  <2>3. effect.good = TRUE /\ effect.taken = TRUE
    BY <1>2, <1>4, <2>2
  <2>4. "ack" \in Outcomes /\ Takes("ack", TRUE) = TRUE /\ Reply("ack", TRUE) = "ok"
    BY DEF Outcomes, Takes, Reply
  <2>5. value' = IF call.kind = "get" THEN effect.seen ELSE Absent
    BY <1>1, <2>1, <2>2
  <2> HIDE DEF result
  <2> QED
    BY <1>1, <1>3, <1>5, <2>1, <2>3, <2>4, <2>5, SharedDefinitions DEF Store!End
<1>9. CASE rc = "success" /\ result.status # "success"
  <2>1. fresult' = "ENOENT"
    BY <1>1, <1>9 DEF Code
  <2> DEFINE o == IF effect.taken THEN "status_applied" ELSE "status"
  <2>2. o \in Outcomes /\ Takes(o, effect.good) = effect.taken
    BY <1>2, <1>4 DEF Outcomes, FaultKinds, Takes
  <2>3. Reply(o, effect.good) = "ENOENT"
    BY DEF Reply
  <2> HIDE DEF o, result
  <2> QED
    BY <1>1, <1>3, <1>5, <2>1, <2>2, <2>3, SharedDefinitions DEF Store!End
<1> QED
  BY <1>6, <1>7, <1>8, <1>9

\* Each step of a call is a step of the store, or none that it shows.
LEMMA NextRefines ==
  ASSUME FaultKinds \subseteq Faults, CallInv, [Next]_vars
  PROVE  [Store!Next]_Store!vars
<1>1. ASSUME NEW c \in Commands, sync_schedule(c) \/ sync_refused(c)
      PROVE  Store!Next
  <2>1. Store!Begin(c)
    BY <1>1, ScheduleRefines, RefusedRefines
  <2> QED
    BY <2>1, SharedDefinitions DEF Store!Next
<1>2. ASSUME NEW k \in Keys, Execute(k)
      PROVE  UNCHANGED Store!vars
  <2>1. Settled' = Settled
    BY <1>2, ExecuteSettles DEF CallInv
  <2> QED
    BY <1>2, <2>1 DEF Execute, Store!vars, outcome
<1>3. ASSUME UNCHANGED <<docs, channel, call, effect, fresult, value>>
      PROVE  UNCHANGED Store!vars
  BY <1>3, SettledQuietly DEF Store!vars
<1>4. ASSUME NEW a \in answers, LoseAnswer(a)
      PROVE  UNCHANGED Store!vars
  BY <1>3, <1>4 DEF LoseAnswer, outcome
<1>5. CASE Library
  <2>1. ASSUME NEW a \in answers, Receive(a)
        PROVE  UNCHANGED Store!vars
    BY <1>3, <2>1 DEF Receive, outcome
  <2>2. ASSUME NEW s \in scheduled, TimeOut(s)
        PROVE  UNCHANGED Store!vars
    BY <1>3, <2>2 DEF TimeOut, outcome, server
  <2>3. CASE lcb_wait
    BY <1>3, <2>3 DEF lcb_wait, outcome, server
  <2> QED
    BY <1>5, <2>1, <2>2, <2>3 DEF Library
<1>6. ASSUME Finish
      PROVE  Store!Next
  BY <1>6, FinishRefines DEF Finish, Store!Next
<1>7. CASE UNCHANGED vars
  BY <1>3, <1>7 DEF vars
<1> QED
  BY <1>1, <1>2, <1>4, <1>5, <1>6, <1>7 DEF Next

\* sync_get, sync_store and sync_remove are the atomic calls the handlers are
\* written against, with the outcomes of KeyValue: whatever is lost or late, a
\* call succeeds only if the server carried it out, and a command that is carried
\* out after its call returned is one of which the call reported a failure.
THEOREM CallsAreAtomic ==
  ASSUME FaultKinds \subseteq Faults
  PROVE  Spec => ImplementsKeyValueStore
<1>1. CallInv /\ [Next]_vars => [Store!Next]_Store!vars
  BY NextRefines
<1> QED
  BY <1>1, InitCall, NextCall, InitRefines, PTL
     DEF Spec, ImplementsKeyValueStore, Store!Spec

=============================================================================
