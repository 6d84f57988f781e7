------------------------- MODULE AsyncProcessorProofs -------------------------
(***************************************************************************)
(* Proofs about AsyncProcessor where no wait carries a time point, for any *)
(* number of coroutines, notifiers and iterations, stopped or not.  (With  *)
(* a time point the statements are false, see MCProcessorDoubleSchedule.)  *)
(* At the end, proofs about the Executor's workers, AsyncWorkers.          *)
(***************************************************************************)
EXTENDS AsyncProcessor, AsyncWorkers, FiniteSetTheorems, SequenceTheorems, TLAPS

\* The sleep checker finds nobody to time out.
NoTimeouts ==
  todo = {} /\ cur["checker"] = NoOne /\ pc["checker"] # "forget"

\* The processor has a coroutine in hand while it puts it to sleep.
InHand ==
  IF pc["processor"] \in {"sleep", "list"}
    THEN cur["processor"] \in Coroutines
    ELSE cur["processor"] = NoOne

\* What pushQueues took is scheduled before anything else is done.
TakenFirst ==
  tmpList # <<>> =>
    \/ pc["processor"] = "distribute"
    \/ pc["processor"] \in {"sleep", "list"} /\ back = "distribute"

\* Between its two insertions a coroutine is asleep and not yet listed.
HalfInserted ==
  pc["processor"] = "list" => cur["processor"] \in sleepers \ list

\* A notifier in the middle of a wakeup holds the list's lock, and what it
\* has taken off the list sleeps and is nobody else's.
Notifying ==
  \A n \in Notifiers :
    /\ pc[n] \in {"pick", "wake"} <=> listLock = n
    /\ IF pc[n] = "wake"
         THEN cur[n] \in sleepers \ list /\ cur[n] # cur["processor"]
         ELSE cur[n] = NoOne

\* Whatever the list holds sleeps.
Listed == list \subseteq sleepers

Placement == /\ NoTimeouts
             /\ InHand
             /\ TakenFirst
             /\ HalfInserted
             /\ Notifying
             /\ Listed
             /\ SleepersReachable

\* The owners of a coroutine, queue by queue.
Own(c) ==
  Occurrences(taskList, c) + Occurrences(pushList, c)
    + Occurrences(tmpList, c) + Occurrences(queue, c)
    + Membership(popQueue, c) + Membership(atWorker, c)
    + Membership(sleepers, c)
    + IF pc["processor"] = "sleep" /\ cur["processor"] = c THEN 1 ELSE 0

OwnedOnce ==
  \A c \in Coroutines :
    Own(c) = IF status[c] \in {"live", "finished"} THEN 1 ELSE 0

IInv == TypeOK /\ Placement /\ OwnedOnce /\ TasksCounted

-----------------------------------------------------------------------------
(* Counting what sequences and sets hold. *)

\* How often a value occurs in a sequence is a natural number.
LEMMA OccurrencesNat ==
  ASSUME NEW S, NEW s \in Seq(S), NEW c
  PROVE  /\ IsFiniteSet({i \in 1 .. Len(s) : s[i] = c})
         /\ Occurrences(s, c) = Cardinality({i \in 1 .. Len(s) : s[i] = c})
         /\ Occurrences(s, c) \in Nat
<1>1. DOMAIN s = 1 .. Len(s) /\ Len(s) \in Nat
  BY LenProperties
<1>2. IsFiniteSet(1 .. Len(s))
  BY <1>1, FS_Interval
<1>3. IsFiniteSet({i \in 1 .. Len(s) : s[i] = c})
  BY <1>2, FS_Subset
<1> QED
  BY <1>1, <1>3, FS_CardinalityType DEF Occurrences

\* Nothing occurs in the empty sequence.
LEMMA OccurrencesEmpty == \A c : Occurrences(<<>>, c) = 0
BY FS_EmptySet DEF Occurrences

\* Occurrences in a concatenation are those in both parts.
LEMMA OccurrencesConcat ==
  ASSUME NEW S, NEW s \in Seq(S), NEW t \in Seq(S), NEW c
  PROVE  Occurrences(s \o t, c) = Occurrences(s, c) + Occurrences(t, c)
<1> DEFINE A == {i \in 1 .. Len(s) : s[i] = c}
           B == {i \in 1 .. Len(t) : t[i] = c}
           C == {i \in 1 .. Len(s \o t) : (s \o t)[i] = c}
           D == {i \in (Len(s) + 1) .. (Len(s) + Len(t)) : t[i - Len(s)] = c}
           f == [i \in B |-> i + Len(s)]
<1>1. Len(s) \in Nat /\ Len(t) \in Nat
  BY LenProperties
<1>2. /\ s \o t \in Seq(S)
      /\ Len(s \o t) = Len(s) + Len(t)
      /\ \A i \in 1 .. Len(s) + Len(t) :
           (s \o t)[i] = IF i <= Len(s) THEN s[i] ELSE t[i - Len(s)]
  BY ConcatProperties
<1>3. C = A \cup D /\ A \cap D = {}
  BY <1>1, <1>2
<1>4. IsFiniteSet(A) /\ IsFiniteSet(B)
  BY OccurrencesNat
<1>5. /\ f \in [B -> D]
      /\ \A i, j \in B : f[i] = f[j] => i = j
      /\ \A j \in D : \E i \in B : f[i] = j
  <2>1. \A i \in B : f[i] \in D
    BY <1>1
  <2>2. \A j \in D : j - Len(s) \in B /\ f[j - Len(s)] = j
    BY <1>1
  <2>3. \A i, j \in B : f[i] = f[j] => i = j
    BY <1>1
  <2> QED
    BY <2>1, <2>2, <2>3
<1>6. f \in Bijection(B, D)
  BY <1>5, Zenon DEF Bijection, Injection, Surjection, IsInjective
<1>7. IsFiniteSet(D) /\ Cardinality(D) = Cardinality(B)
  BY <1>4, <1>6, FS_Bijection, Zenon DEF ExistsBijection
<1>8. Cardinality(C) = Cardinality(A) + Cardinality(B)
  <2> HIDE DEF A, B, C, D, f
  <2>1. Cardinality(A \cup D)
          = Cardinality(A) + Cardinality(D) - Cardinality(A \cap D)
    BY <1>4, <1>7, FS_Union
  <2>2. Cardinality(A \cap D) = 0
    BY <1>3, FS_EmptySet
  <2>3. Cardinality(A) \in Nat /\ Cardinality(D) \in Nat
    BY <1>4, <1>7, FS_CardinalityType
  <2> QED
    BY <1>3, <1>7, <2>1, <2>2, <2>3
<1>9. /\ Occurrences(s, c) = Cardinality(A)
      /\ Occurrences(t, c) = Cardinality(B)
      /\ Occurrences(s \o t, c) = Cardinality(C)
  BY <1>2, OccurrencesNat, Zenon
<1> QED
  BY <1>8, <1>9

\* A sequence of one value holds it once and nothing else.
LEMMA OccurrencesOne ==
  ASSUME NEW d, NEW c
  PROVE  Occurrences(<<d>>, c) = IF c = d THEN 1 ELSE 0
<1>1. {i \in DOMAIN <<d>> : <<d>>[i] = c} = IF c = d THEN {1} ELSE {}
  OBVIOUS
<1> QED
  BY <1>1, FS_Singleton, FS_EmptySet DEF Occurrences

\* What is appended occurs once more.
LEMMA OccurrencesAppend ==
  ASSUME NEW S, NEW s \in Seq(S), NEW d \in S, NEW c
  PROVE  Occurrences(Append(s, d), c)
           = Occurrences(s, c) + IF c = d THEN 1 ELSE 0
<1>1. Append(s, d) = s \o <<d>> /\ <<d>> \in Seq(S)
  BY AppendIsConcat
<1>2. Occurrences(s \o <<d>>, c) = Occurrences(s, c) + Occurrences(<<d>>, c)
  BY <1>1, OccurrencesConcat
<1> QED
  BY <1>1, <1>2, OccurrencesOne

\* The head occurs once less in the tail.
LEMMA OccurrencesTail ==
  ASSUME NEW S, NEW s \in Seq(S), s # <<>>, NEW c
  PROVE  Occurrences(s, c)
           = Occurrences(Tail(s), c) + IF c = Head(s) THEN 1 ELSE 0
<1>1. Tail(s) \in Seq(S) /\ <<Head(s)>> \in Seq(S)
  BY HeadTailProperties
<1>2. s = <<Head(s)>> \o Tail(s)
  OBVIOUS
<1>3. Occurrences(<<Head(s)>> \o Tail(s), c)
        = Occurrences(<<Head(s)>>, c) + Occurrences(Tail(s), c)
  BY <1>1, OccurrencesConcat
<1>4. Occurrences(Tail(s), c) \in Nat
  BY <1>1, OccurrencesNat
<1>5. Occurrences(<<Head(s)>>, c) = IF c = Head(s) THEN 1 ELSE 0
  BY OccurrencesOne
<1>6. Occurrences(s, c) = Occurrences(<<Head(s)>> \o Tail(s), c)
  BY <1>2, Zenon
<1> QED
  BY <1>3, <1>4, <1>5, <1>6

\* Owners adds up the queues one by one.
LEMMA OwnersSum ==
  TypeOK /\ NoTimeouts => \A c \in Coroutines : Owners(c) = Own(c)
<1> SUFFICES ASSUME TypeOK, NoTimeouts, NEW c \in Coroutines
             PROVE  Owners(c) = Own(c)
  OBVIOUS
<1>1. /\ taskList \in Seq(Coroutines) /\ pushList \in Seq(Coroutines)
      /\ tmpList \in Seq(Coroutines) /\ queue \in Seq(Coroutines)
  BY DEF TypeOK
<1>2. /\ taskList \o pushList \in Seq(Coroutines)
      /\ taskList \o pushList \o tmpList \in Seq(Coroutines)
  BY <1>1
<1>3. Occurrences(taskList \o pushList \o tmpList \o queue, c)
        = Occurrences(taskList, c) + Occurrences(pushList, c)
            + Occurrences(tmpList, c) + Occurrences(queue, c)
  <2>1. Occurrences(taskList \o pushList, c)
          = Occurrences(taskList, c) + Occurrences(pushList, c)
    BY <1>1, OccurrencesConcat
  <2>2. Occurrences(taskList \o pushList \o tmpList, c)
          = Occurrences(taskList \o pushList, c) + Occurrences(tmpList, c)
    BY <1>1, <1>2, OccurrencesConcat
  <2>3. Occurrences(taskList \o pushList \o tmpList \o queue, c)
          = Occurrences(taskList \o pushList \o tmpList, c)
              + Occurrences(queue, c)
    BY <1>1, <1>2, OccurrencesConcat
  <2> QED
    BY <2>1, <2>2, <2>3
<1>4. Membership({cur["checker"]}, c) = 0
  BY ConstantsAssumption DEF NoTimeouts, Membership
<1>5. Membership({d \in {cur["processor"]} : At("processor", "sleep")}, c)
        = IF pc["processor"] = "sleep" /\ cur["processor"] = c THEN 1 ELSE 0
  BY DEF Membership, At
<1>6. /\ Occurrences(taskList, c) \in Nat /\ Occurrences(pushList, c) \in Nat
      /\ Occurrences(tmpList, c) \in Nat /\ Occurrences(queue, c) \in Nat
  BY <1>1, OccurrencesNat
<1>7. \A S : Membership(S, c) \in Nat
  BY DEF Membership
<1> QED
  BY <1>3, <1>4, <1>5, <1>6, <1>7 DEF Owners, Own

-----------------------------------------------------------------------------
(* The invariant holds initially and is preserved by every step. *)

\* A processor that has been given nothing satisfies the invariant.
LEMMA InitInv == Init => IInv
<1> SUFFICES ASSUME Init PROVE IInv
  OBVIOUS
<1>1. TypeOK
  BY ConstantsAssumption, FiniteAssumption, FS_CardinalityType
     DEF Init, TypeOK, Actors, Labels, Statuses, Outcomes
<1>2. Placement
  BY ConstantsAssumption
     DEF Init, Placement, NoTimeouts, InHand, TakenFirst, HalfInserted,
         Notifying, Listed, SleepersReachable, Actors
<1>3. OwnedOnce
  BY ConstantsAssumption, OccurrencesEmpty
     DEF Init, OwnedOnce, Own, Membership, Actors
<1>4. TasksCounted
  <2>1. {c \in Coroutines : status[c] \notin {"new", "gone"}} = {}
    BY DEF Init
  <2> QED
    BY <2>1, FS_EmptySet DEF Init, TasksCounted
<1> QED
  BY <1>1, <1>2, <1>3, <1>4 DEF IInv

\* Steps that move no coroutine keep the count of owners and of tasks.
LEMMA OwnersKept ==
  ASSUME OwnedOnce, TasksCounted,
         UNCHANGED <<lists, sleepers, status, counter>>,
         cur'["processor"] = cur["processor"],
         pc'["processor"] = "sleep" <=> pc["processor"] = "sleep"
  PROVE  OwnedOnce' /\ TasksCounted'
BY DEF OwnedOnce, Own, TasksCounted, lists

\* The queues' and sets' counts are natural numbers.
LEMMA CountsNat ==
  ASSUME NEW s \in Seq(Coroutines), NEW c
  PROVE  Occurrences(s, c) \in Nat
BY OccurrencesNat

\* The counts of the four queues.
LEMMA QueuesNat ==
  ASSUME TypeOK
  PROVE  \A d \in Coroutines : /\ Occurrences(taskList, d) \in Nat
                             /\ Occurrences(pushList, d) \in Nat
                             /\ Occurrences(tmpList, d) \in Nat
                             /\ Occurrences(queue, d) \in Nat
BY CountsNat DEF TypeOK

\* The lemmas on sequences, for sequences of coroutines.
LEMMA CountsAppend ==
  \A s \in Seq(Coroutines), c, d \in Coroutines :
    /\ Append(s, c) \in Seq(Coroutines)
    /\ Occurrences(Append(s, c), d)
         = Occurrences(s, d) + IF d = c THEN 1 ELSE 0
BY OccurrencesAppend, AppendProperties

\* Taking the head off lowers the count of the head alone.
LEMMA CountsTail ==
  \A s \in Seq(Coroutines), d \in Coroutines : s # <<>> =>
    /\ Tail(s) \in Seq(Coroutines) /\ Head(s) \in Coroutines
    /\ Occurrences(s, d)
         = Occurrences(Tail(s), d) + IF d = Head(s) THEN 1 ELSE 0
BY OccurrencesTail, HeadTailProperties

\* Membership counts once or not at all.
LEMMA MembershipNat == \A S, c : Membership(S, c) \in Nat
BY DEF Membership

\* A task more or less changes the number of tasks by one.
LEMMA TasksChange ==
  ASSUME NEW c \in Coroutines,
         \A d \in Coroutines \ {c} : status'[d] = status[d]
  PROVE  LET before == {d \in Coroutines : status[d] \notin {"new", "gone"}}
             after  == {d \in Coroutines : status'[d] \notin {"new", "gone"}}
         IN  /\ Cardinality(before) \in Nat
             /\ Cardinality(after) =
                  IF c \in before THEN
                       IF c \in after THEN Cardinality(before)
                                      ELSE Cardinality(before) - 1
                  ELSE IF c \in after THEN Cardinality(before) + 1
                                      ELSE Cardinality(before)
<1> DEFINE before == {d \in Coroutines : status[d] \notin {"new", "gone"}}
           after  == {d \in Coroutines : status'[d] \notin {"new", "gone"}}
<1>1. IsFiniteSet(before)
  BY FiniteAssumption, FS_Subset
<1>2. after = IF c \in after THEN before \cup {c} ELSE before \ {c}
  OBVIOUS
<1> HIDE DEF before, after
<1>3. Cardinality(before) \in Nat
  BY <1>1, FS_CardinalityType
<1>4. /\ Cardinality(before \cup {c}) =
           IF c \in before THEN Cardinality(before) ELSE Cardinality(before) + 1
      /\ Cardinality(before \ {c}) =
           IF c \in before THEN Cardinality(before) - 1 ELSE Cardinality(before)
  BY <1>1, FS_AddElement, FS_RemoveElement
<1>5. Cardinality(after) =
        IF c \in before THEN
             IF c \in after THEN Cardinality(before)
                            ELSE Cardinality(before) - 1
        ELSE IF c \in after THEN Cardinality(before) + 1
                            ELSE Cardinality(before)
  BY <1>2, <1>4
<1> QED
  BY <1>3, <1>5 DEF before, after

\* The tasks are coroutines.
LEMMA CounterBound ==
  ASSUME TasksCounted' PROVE counter' \in 0 .. Cardinality(Coroutines)
<1> DEFINE after == {c \in Coroutines : status'[c] \notin {"new", "gone"}}
<1>1. /\ IsFiniteSet(after) /\ Cardinality(after) <= Cardinality(Coroutines)
      /\ Cardinality(after) \in Nat /\ Cardinality(Coroutines) \in Nat
  BY FiniteAssumption, FS_Subset, FS_CardinalityType
<1>2. counter' = Cardinality(after)
  BY DEF TasksCounted
<1> QED
  BY <1>1, <1>2

\* Submission: a task is counted, then owned by the processor's inbox.
LEMMA SubmissionStep ==
  ASSUME IInv, NEW c \in Coroutines, Count(c) \/ Submit(c)
  PROVE  IInv'
<1> USE ConstantsAssumption
<1>1. CASE Count(c)
  <2>1. status' = [status EXCEPT ![c] = "counted"] /\ status[c] = "new"
    BY <1>1 DEF Count
  <2>2. \A d \in Coroutines \ {c} : status'[d] = status[d]
    BY <2>1 DEF IInv, TypeOK
  <2>3. status' \in [Coroutines -> Statuses] /\ status'[c] = "counted"
    BY <2>1 DEF IInv, TypeOK, Statuses
  <2>4. TasksCounted'
    BY <1>1, <2>1, <2>2, <2>3, TasksChange DEF Count, IInv, TasksCounted
  <2>5. TypeOK'
    BY <1>1, <2>3, <2>4, CounterBound
       DEF Count, IInv, TypeOK, sleep, lists, locks, local, flags
  <2>6. Placement'
    BY <1>1 DEF Count, IInv, Placement, NoTimeouts, InHand, TakenFirst,
       HalfInserted, Notifying, Listed, SleepersReachable, sleep, lists,
       locks, local, flags
  <2>7. OwnedOnce'
    BY <1>1, <2>1, <2>2, <2>3
       DEF Count, IInv, OwnedOnce, Own, sleep, lists
  <2> QED
    BY <2>4, <2>5, <2>6, <2>7 DEF IInv
<1>2. CASE Submit(c)
  <2>1. status' = [status EXCEPT ![c] = "live"] /\ status[c] = "counted"
    BY <1>2 DEF Submit
  <2>2. \A d \in Coroutines \ {c} : status'[d] = status[d]
    BY <2>1 DEF IInv, TypeOK
  <2>3. TypeOK'
    BY <1>2, AppendProperties
       DEF Submit, IInv, TypeOK, Statuses, Labels, Actors, NotifyProcessor,
           sleep, locks, local, flags
  <2>4. Placement'
    BY <1>2 DEF Submit, IInv, TypeOK, Placement, NoTimeouts, InHand,
       TakenFirst, HalfInserted, Notifying, Listed, SleepersReachable,
       NotifyProcessor, Actors, sleep, locks, local, flags
  <2>5. status'[c] = "live"
    BY <2>1 DEF IInv, TypeOK
  <2>6. TasksCounted'
    BY <1>2, <2>1, <2>2, <2>3, <2>5, TasksChange
       DEF Submit, IInv, TasksCounted
  <2>7. \A d \in Coroutines :
          Occurrences(taskList', d)
            = Occurrences(taskList, d) + IF d = c THEN 1 ELSE 0
    <3>1. taskList \in Seq(Coroutines) /\ taskList' = Append(taskList, c)
      BY <1>2 DEF Submit, IInv, TypeOK
    <3> QED
      BY <3>1, CountsAppend
  <2>8. pc'["processor"] = "sleep" <=> pc["processor"] = "sleep"
    BY <1>2 DEF Submit, NotifyProcessor, IInv, TypeOK, Actors
  <2>9. \A d \in Coroutines : Own(d)' = Own(d) + IF d = c THEN 1 ELSE 0
    <3>1. UNCHANGED <<pushList, tmpList, queue, popQueue, atWorker, sleepers,
                      cur>>
      BY <1>2 DEF Submit, sleep
    <3>2. TypeOK
      BY DEF IInv
    <3> QED
      BY <2>7, <2>8, <3>1, <3>2, QueuesNat, MembershipNat DEF Own
  <2>10. OwnedOnce'
    BY <2>1, <2>2, <2>5, <2>9 DEF IInv, OwnedOnce
  <2> QED
    BY <2>3, <2>4, <2>6, <2>10 DEF IInv
<1> QED
  BY <1>1, <1>2

\* Steps that change neither an owner nor a task: where a thread goes next,
\* the locks, the clock and the flags.
QuietStep ==
  \/ Run \/ WaitForTasks \/ StartIterating \/ StopIterating \/ More
  \/ \E c \in Coroutines : Elapse(c)
  \/ \E n \in Notifiers : BeginNotify(n) \/ EndNotify(n)
  \/ CheckerLoop \/ CheckSleepers \/ Block \/ EndScan \/ CheckerLock
  \/ StopRequested \/ StopperStep \/ Quiescent

\* They preserve the invariant.
LEMMA QuietInv ==
  ASSUME Timed = {}, IInv, QuietStep \/ UNCHANGED vars
  PROVE  IInv'
<1> USE ConstantsAssumption
<1>1. /\ TypeOK /\ Placement /\ OwnedOnce /\ TasksCounted
  BY DEF IInv
<1>2. TypeOK'
  <2> USE <1>1 DEF Goto, GotoNotifying, At, TypeOK, Labels, Actors, vars,
        tasks, sleep, lists, locks, local, flags
  <2>1. CASE Run \/ WaitForTasks \/ StartIterating \/ StopIterating \/ More
    BY <2>1 DEF Run, WaitForTasks, StartIterating, StopIterating, More
  <2>2. CASE \E c \in Coroutines : Elapse(c)
    BY <2>2 DEF Elapse
  <2>3. CASE \E n \in Notifiers : BeginNotify(n) \/ EndNotify(n)
    BY <2>3 DEF BeginNotify, EndNotify
  <2>4. CASE CheckerLoop \/ CheckSleepers
    BY <2>4 DEF CheckerLoop, CheckSleepers
  <2>5. CASE Block \/ EndScan \/ CheckerLock
    BY <2>5 DEF Block, EndScan, CheckerLock
  <2>6. CASE StopRequested \/ StopProcessor
    BY <2>6 DEF StopRequested, StopProcessor
  <2>7. CASE NotifyChecker \/ JoinChecker
    BY <2>7 DEF NotifyChecker, JoinChecker
  <2>8. CASE Quiescent \/ UNCHANGED vars
    BY <2>8 DEF Quiescent
  <2> QED
    BY <2>1, <2>2, <2>3, <2>4, <2>5, <2>6, <2>7, <2>8
       DEF QuietStep, StopperStep
<1>3. /\ UNCHANGED <<lists, sleepers, status, counter, list, cur>>
      /\ pc'["processor"] \in {"sleep", "list"}
           => pc'["processor"] = pc["processor"] /\ UNCHANGED back
      /\ pc["processor"] \in {"sleep", "list"}
           => pc'["processor"] = pc["processor"]
  BY <1>1 DEF QuietStep, Run, WaitForTasks, StartIterating, StopIterating,
     More, Elapse, BeginNotify, EndNotify, CheckerLoop, CheckSleepers, Block,
     EndScan, CheckerLock, StopRequested, StopperStep, StopProcessor,
     NotifyChecker, JoinChecker, Quiescent, Goto, GotoNotifying, At, TypeOK,
     Labels, Actors, vars, tasks, sleep, lists, locks, local, flags
<1>4. OwnedOnce' /\ TasksCounted'
  BY <1>1, <1>3, OwnersKept
<1>5. NoTimeouts' /\ TakenFirst'
  BY <1>1 DEF QuietStep, Run, WaitForTasks, StartIterating, StopIterating,
     More, Elapse, BeginNotify, EndNotify, CheckerLoop, CheckSleepers, Block,
     EndScan, CheckerLock, StopRequested, StopperStep, StopProcessor,
     NotifyChecker, JoinChecker, Quiescent, Goto, GotoNotifying, At, TypeOK,
     Labels, Actors, vars, tasks, sleep, lists, locks, local, flags,
     Placement, NoTimeouts, TakenFirst
<1>6. Notifying'
  BY <1>1, <1>3 DEF QuietStep, Run, WaitForTasks, StartIterating,
     StopIterating, More, Elapse, BeginNotify, EndNotify, CheckerLoop,
     CheckSleepers, Block, EndScan, CheckerLock, StopRequested, StopperStep,
     StopProcessor, NotifyChecker, JoinChecker, Quiescent, Goto,
     GotoNotifying, At, TypeOK, Labels, Actors, vars, tasks, sleep, lists,
     locks, local, flags, Placement, Notifying
<1>7. InHand' /\ HalfInserted' /\ Listed' /\ SleepersReachable'
  BY <1>1, <1>3 DEF Placement, InHand, HalfInserted, Listed,
     SleepersReachable, TypeOK, Actors
<1> QED
  BY <1>2, <1>4, <1>5, <1>6, <1>7 DEF IInv, Placement

\* pushQueues moves the inbox to the run queue and takes what was pushed.
LEMMA PushQueuesStep ==
  ASSUME IInv, PushQueues
  PROVE  IInv'
<1> USE ConstantsAssumption
<1>1. TypeOK /\ Placement /\ OwnedOnce /\ TasksCounted
  BY DEF IInv
<1>2. /\ pc["processor"] = "push" /\ pc' = [pc EXCEPT !["processor"] = "distribute"]
      /\ queue' = queue \o taskList /\ taskList' = <<>>
      /\ tmpList' = pushList /\ pushList' = <<>>
      /\ UNCHANGED <<status, counter, sleepers, list, popQueue, atWorker,
                     listLock, cur, back, todo>>
  BY DEF PushQueues, Goto, tasks, sleep, locks, local
<1>3. TypeOK'
  BY <1>1, ConcatProperties DEF PushQueues, Goto, TypeOK, Labels, Actors,
     tasks, sleep, locks, local, flags
<1>4. Placement'
  BY <1>1, <1>2 DEF Placement, NoTimeouts, InHand, TakenFirst, HalfInserted,
     Notifying, Listed, SleepersReachable, TypeOK, Actors
<1>5. tmpList = <<>>
  BY <1>1, <1>2 DEF Placement, TakenFirst
<1>6. \A d \in Coroutines :
        Occurrences(queue', d) = Occurrences(queue, d) + Occurrences(taskList, d)
  <2>1. queue \in Seq(Coroutines) /\ taskList \in Seq(Coroutines)
    BY <1>1 DEF TypeOK
  <2> QED
    BY <1>2, <2>1, OccurrencesConcat
<1>7. pc'["processor"] = "distribute"
  BY <1>1, <1>2 DEF TypeOK, Actors
<1>8. \A d \in Coroutines : Own(d)' = Own(d)
  <2>1. \A d \in Coroutines :
          /\ Occurrences(taskList', d) = 0 /\ Occurrences(tmpList, d) = 0
          /\ Occurrences(pushList', d) = 0
          /\ Occurrences(tmpList', d) = Occurrences(pushList, d)
    BY <1>2, <1>5, OccurrencesEmpty
  <2>2. /\ pc["processor"] # "sleep" /\ pc'["processor"] # "sleep"
        /\ UNCHANGED <<popQueue, atWorker, sleepers>>
    BY <1>2, <1>7
  <2> QED
    BY <1>1, <1>6, <2>1, <2>2, QueuesNat, MembershipNat DEF Own
<1>9. OwnedOnce' /\ TasksCounted'
  BY <1>1, <1>2, <1>8 DEF OwnedOnce, TasksCounted
<1> QED
  BY <1>3, <1>4, <1>9 DEF IInv

\* popTasks hands the co-workers what waits for them.
LEMMA PopTasksStep ==
  ASSUME IInv, PopTasks
  PROVE  IInv'
<1> USE ConstantsAssumption
<1>1. TypeOK /\ Placement /\ OwnedOnce /\ TasksCounted
  BY DEF IInv
<1>2. /\ pc["processor"] = "popTasks" /\ pc' = [pc EXCEPT !["processor"] = "more"]
      /\ atWorker' = atWorker \cup popQueue /\ popQueue' = {}
      /\ UNCHANGED <<status, counter, sleepers, list, taskList, pushList,
                     tmpList, queue, listLock, cur, back, todo>>
  BY DEF PopTasks, Goto, tasks, sleep, locks, local
<1>3. TypeOK'
  BY <1>1 DEF PopTasks, Goto, TypeOK, Labels, Actors, tasks, sleep, locks,
     local, flags
<1>4. Placement'
  BY <1>1, <1>2 DEF Placement, NoTimeouts, InHand, TakenFirst, HalfInserted,
     Notifying, Listed, SleepersReachable, TypeOK, Actors
<1>5. pc'["processor"] = "more"
  BY <1>1, <1>2 DEF TypeOK, Actors
<1>6. \A d \in Coroutines : ~ (d \in popQueue /\ d \in atWorker)
  <2> SUFFICES ASSUME NEW d \in Coroutines, d \in popQueue, d \in atWorker
               PROVE  FALSE
    OBVIOUS
  <2>1. Membership(popQueue, d) = 1 /\ Membership(atWorker, d) = 1
    BY DEF Membership
  <2>2. Own(d) \in {0, 1}
    BY <1>1 DEF OwnedOnce
  <2> QED
    BY <1>1, <2>1, <2>2, QueuesNat, MembershipNat DEF Own
<1>7. \A d \in Coroutines :
        Membership(atWorker', d) + Membership(popQueue', d)
          = Membership(atWorker, d) + Membership(popQueue, d)
  BY <1>2, <1>6 DEF Membership
<1>8. \A d \in Coroutines : Own(d)' = Own(d)
  <2>1. /\ pc["processor"] # "sleep" /\ pc'["processor"] # "sleep"
        /\ UNCHANGED <<taskList, pushList, tmpList, queue, sleepers>>
    BY <1>2, <1>5
  <2> QED
    BY <1>1, <1>7, <2>1, QueuesNat, MembershipNat DEF Own
<1>9. OwnedOnce' /\ TasksCounted'
  BY <1>1, <1>2, <1>8 DEF OwnedOnce, TasksCounted
<1> QED
  BY <1>3, <1>4, <1>9 DEF IInv

\* A finished coroutine is deleted and not counted any more.
LEMMA RemoveStep ==
  ASSUME IInv, Remove
  PROVE  IInv'
<1> USE ConstantsAssumption
<1> DEFINE c == Head(queue)
<1>1. TypeOK /\ Placement /\ OwnedOnce /\ TasksCounted
  BY DEF IInv
<1>2. /\ pc["processor"] = "iterate" /\ queue # <<>>
      /\ status[c] = "finished" /\ status' = [status EXCEPT ![c] = "gone"]
      /\ queue' = Tail(queue) /\ counter' = counter - 1
      /\ UNCHANGED <<pc, sleepers, list, taskList, pushList, tmpList,
                     popQueue, atWorker, listLock, cur, back, todo>>
  BY DEF Remove, At, sleep, locks
<1>3. queue \in Seq(Coroutines) /\ c \in Coroutines
      /\ Tail(queue) \in Seq(Coroutines)
  BY <1>1, <1>2, HeadTailProperties DEF TypeOK
<1> HIDE DEF c
<1>4. /\ status' \in [Coroutines -> Statuses] /\ status'[c] = "gone"
      /\ \A d \in Coroutines \ {c} : status'[d] = status[d]
  BY <1>1, <1>2, <1>3 DEF TypeOK, Statuses
<1>5. TasksCounted'
  BY <1>1, <1>2, <1>3, <1>4, TasksChange DEF TasksCounted
<1>6. TypeOK'
  <2>1. counter' \in 0 .. Cardinality(Coroutines)
    BY <1>5, CounterBound
  <2>2. /\ round' \in 0 .. Iterations /\ queue' \in Seq(Coroutines)
        /\ UNCHANGED <<schA, sleep, taskList, pushList, tmpList, popQueue,
                       atWorker, locks, pc, cur, back, todo, all, flags>>
    BY <1>1, <1>2, <1>3 DEF Remove, TypeOK
  <2> QED
    BY <1>1, <1>4, <2>1, <2>2 DEF TypeOK, sleep, locks, flags
<1>7. Placement'
  BY <1>1, <1>2 DEF Placement, NoTimeouts, InHand, TakenFirst, HalfInserted,
     Notifying, Listed, SleepersReachable
<1>8. \A d \in Coroutines :
        Occurrences(queue, d)
          = Occurrences(queue', d) + IF d = c THEN 1 ELSE 0
  BY <1>2, <1>3, CountsTail DEF c
<1>9. \A d \in Coroutines : Occurrences(queue', d) \in Nat
  BY <1>2, <1>3, CountsNat
<1>10. UNCHANGED <<taskList, pushList, tmpList, popQueue, atWorker, sleepers,
                   pc, cur>>
  BY <1>2
<1>11. \A d \in Coroutines :
         /\ Own(d)' \in Nat
         /\ Own(d) = Own(d)' + IF d = c THEN 1 ELSE 0
  BY <1>1, <1>8, <1>9, <1>10, QueuesNat, MembershipNat DEF Own
<1>12. OwnedOnce'
  BY <1>1, <1>2, <1>4, <1>11 DEF OwnedOnce
<1> QED
  BY <1>5, <1>6, <1>7, <1>12 DEF IInv

\* What Schedule leaves of the variables it may change: their types, and
\* either the same point of the code or coroutine c in hand.
Placed(c, from) ==
  /\ queue' \in Seq(Coroutines) /\ popQueue' \subseteq Coroutines
  /\ schA' \in [Coroutines -> Outcomes] /\ due' \subseteq Coroutines
  /\ status' \in [Coroutines -> Statuses]
  /\ status'[c] \in {status[c], "finished"}
  /\ \A d \in Coroutines \ {c} : status'[d] = status[d]
  /\ pc' \in [Actors -> Labels]
  /\ cur' \in [Actors -> Coroutines \cup {NoOne}]
  /\ back' \in {"distribute", "iterate"}
  /\ \A a \in Actors \ {"processor"} : pc'[a] = pc[a] /\ cur'[a] = cur[a]
  /\ \/ pc' = pc /\ cur' = cur /\ back' = back
     \/ pc'["processor"] = "sleep" /\ cur'["processor"] = c /\ back' = from

\* Coroutine c has been added to what q, the co-workers' queues and the
\* processor's hand held.
Moved(c, q) ==
  \A d \in Coroutines :
    /\ Occurrences(queue', d) \in Nat
    /\ Occurrences(queue', d) + Membership(popQueue', d)
         + (IF pc'["processor"] = "sleep" /\ cur'["processor"] = d
              THEN 1 ELSE 0)
         = Occurrences(q, d) + Membership(popQueue, d)
             + IF d = c THEN 1 ELSE 0

\* Wherever Schedule puts a coroutine that was taken off its queue, it is in
\* one place more than in what is left of the queues.
LEMMA ScheduleMoves ==
  ASSUME TypeOK, InHand, NEW c \in Coroutines, NEW action \in Outcomes,
         NEW q \in Seq(Coroutines), NEW from \in {"distribute", "iterate"},
         pc["processor"] = from, c \notin popQueue,
         Schedule(c, action, q, from)
  PROVE  Placed(c, from) /\ Moved(c, q)
<1> USE DEF Placed, Moved
<1> USE ConstantsAssumption
<1>1. schA' \in [Coroutines -> Outcomes]
  BY DEF Schedule, TypeOK
<1>2. \A d \in Coroutines : Occurrences(q, d) \in Nat
  BY CountsNat
<1>3. CASE action \in {"none", "finish"}
  <2>1. /\ queue' = Append(q, c)
        /\ status' = [status EXCEPT ![c] =
                        IF action = "finish" THEN "finished" ELSE @]
        /\ UNCHANGED <<due, popQueue, pc, cur, back>>
    BY <1>3 DEF Schedule
  <2>2. queue' \in Seq(Coroutines)
    BY <2>1, CountsAppend
  <2>3. \A d \in Coroutines :
          /\ Occurrences(queue', d) \in Nat
          /\ Occurrences(queue', d)
               = Occurrences(q, d) + IF d = c THEN 1 ELSE 0
    BY <2>1, <2>2, CountsAppend, CountsNat
  <2>4. pc["processor"] # "sleep" /\ pc' = pc
    BY <2>1
  <2>5. \A d \in Coroutines :
          Occurrences(queue', d) + Membership(popQueue', d)
            + (IF pc'["processor"] = "sleep" /\ cur'["processor"] = d
                 THEN 1 ELSE 0)
            = Occurrences(q, d) + Membership(popQueue, d)
                + IF d = c THEN 1 ELSE 0
    <3>1. popQueue' = popQueue
      BY <2>1
    <3> QED
      BY <1>2, <2>3, <2>4, <3>1, MembershipNat
  <2> QED
    BY <1>1, <2>1, <2>2, <2>3, <2>5 DEF TypeOK, Statuses
<1>4. CASE action = "worker"
  <2>1. /\ queue' = q /\ popQueue' = popQueue \cup {c}
        /\ UNCHANGED <<status, due, pc, cur, back>>
    BY <1>4 DEF Schedule
  <2>2. \A d \in Coroutines :
          Membership(popQueue', d)
            = Membership(popQueue, d) + IF d = c THEN 1 ELSE 0
    BY <2>1 DEF Membership
  <2>3. pc["processor"] # "sleep" /\ pc' = pc
    BY <2>1
  <2>4. \A d \in Coroutines :
          Occurrences(queue', d) + Membership(popQueue', d)
            + (IF pc'["processor"] = "sleep" /\ cur'["processor"] = d
                 THEN 1 ELSE 0)
            = Occurrences(q, d) + Membership(popQueue, d)
                + IF d = c THEN 1 ELSE 0
    <3>1. queue' = q
      BY <2>1
    <3> QED
      BY <1>2, <2>2, <2>3, <3>1, MembershipNat
  <2> QED
    BY <1>1, <1>2, <2>1, <2>4 DEF TypeOK
<1>5. CASE action = "wait"
  <2>1. /\ queue' = q /\ due' = due \ {c} /\ back' = from
        /\ pc' = [pc EXCEPT !["processor"] = "sleep"]
        /\ cur' = [cur EXCEPT !["processor"] = c]
        /\ UNCHANGED <<status, popQueue>>
    BY <1>5 DEF Schedule
  <2>2. /\ pc' \in [Actors -> Labels] /\ pc'["processor"] = "sleep"
        /\ cur' \in [Actors -> Coroutines \cup {NoOne}]
        /\ cur'["processor"] = c
        /\ \A a \in Actors \ {"processor"} :
             pc'[a] = pc[a] /\ cur'[a] = cur[a]
    BY <2>1 DEF TypeOK, Actors, Labels
  <2>3. \A d \in Coroutines :
          Occurrences(queue', d) + Membership(popQueue', d)
            + (IF pc'["processor"] = "sleep" /\ cur'["processor"] = d
                 THEN 1 ELSE 0)
            = Occurrences(q, d) + Membership(popQueue, d)
                + IF d = c THEN 1 ELSE 0
    <3>1. queue' = q /\ popQueue' = popQueue
      BY <2>1
    <3>2. pc'["processor"] = "sleep" /\ cur'["processor"] = c
      BY <2>2
    <3> QED
      BY <1>2, <3>1, <3>2, MembershipNat
  <2> QED
    BY <1>1, <1>2, <2>1, <2>2, <2>3 DEF TypeOK
<1> QED
  BY <1>3, <1>4, <1>5 DEF Outcomes

\* What occurs in a queue is in no other place, and is a living coroutine.
LEMMA QueuedElsewhere ==
  ASSUME TypeOK, OwnedOnce, NEW c \in Coroutines,
         Occurrences(tmpList, c) >= 1 \/ Occurrences(queue, c) >= 1
  PROVE  /\ c \notin popQueue /\ c \notin sleepers
         /\ status[c] \in {"live", "finished"}
<1>1. Own(c) = IF status[c] \in {"live", "finished"} THEN 1 ELSE 0
  BY DEF OwnedOnce
<1>2. Own(c) >= 1 + Membership(popQueue, c) + Membership(sleepers, c)
  BY QueuesNat, MembershipNat DEF Own
<1>3. Membership(popQueue, c) = 0 /\ Membership(sleepers, c) = 0 /\ Own(c) = 1
  BY <1>1, <1>2, MembershipNat
<1> QED
  BY <1>1, <1>3 DEF Membership

\* A coroutine that only changes its place, or ends, is still a task.
LEMMA StillATask ==
  ASSUME TasksCounted, UNCHANGED counter, NEW c \in Coroutines,
         status[c] \in {"live", "finished"},
         status'[c] \in {"live", "finished"},
         \A d \in Coroutines \ {c} : status'[d] = status[d]
  PROVE  TasksCounted'
<1>1. {d \in Coroutines : status'[d] \notin {"new", "gone"}}
        = {d \in Coroutines : status[d] \notin {"new", "gone"}}
  OBVIOUS
<1> QED
  BY <1>1 DEF TasksCounted

\* iterate() lets the first coroutine of the run queue take its next action.
LEMMA IterateStep ==
  ASSUME IInv, Iterate
  PROVE  IInv'
<1> USE ConstantsAssumption
<1>1. TypeOK /\ Placement /\ OwnedOnce /\ TasksCounted
  BY DEF IInv
<1>2. PICK action \in Outcomes :
        Schedule(Head(queue), action, Tail(queue), "iterate")
  BY DEF Iterate
<1>3. /\ pc["processor"] = "iterate" /\ queue # <<>> /\ round < Iterations
      /\ status[Head(queue)] # "finished" /\ round' = round + 1
      /\ UNCHANGED <<counter, sleepers, list, taskList, pushList, tmpList,
                     atWorker, locks, todo, all, flags>>
  BY DEF Iterate, At
<1> DEFINE c == Head(queue)
           q == Tail(queue)
<1>4. /\ c \in Coroutines /\ q \in Seq(Coroutines)
      /\ \A d \in Coroutines :
           /\ Occurrences(q, d) \in Nat
           /\ Occurrences(queue, d)
                = Occurrences(q, d) + IF d = c THEN 1 ELSE 0
  <2>1. queue \in Seq(Coroutines) /\ queue # <<>>
    BY <1>1, <1>3 DEF TypeOK
  <2>2. /\ c \in Coroutines /\ q \in Seq(Coroutines)
        /\ \A d \in Coroutines :
             Occurrences(queue, d)
               = Occurrences(q, d) + IF d = c THEN 1 ELSE 0
    BY <2>1, CountsTail
  <2> HIDE DEF c, q
  <2>3. \A d \in Coroutines : Occurrences(q, d) \in Nat
    BY <2>2, CountsNat
  <2> QED
    BY <2>2, <2>3
<1>5. /\ c \notin popQueue /\ c \notin sleepers
      /\ status[c] \in {"live", "finished"}
  <2>1. Occurrences(queue, c) >= 1
    BY <1>4
  <2> QED
    BY <1>1, <1>4, <2>1, QueuedElsewhere
<1>6. Schedule(c, action, q, "iterate")
  BY <1>2
<1> HIDE DEF c, q
<1>7. InHand
  BY <1>1 DEF Placement
<1>8. Placed(c, "iterate") /\ Moved(c, q)
  BY <1>1, <1>3, <1>4, <1>5, <1>6, <1>7, ScheduleMoves
<1>9. TypeOK'
  BY <1>1, <1>3, <1>8 DEF Placed, TypeOK, locks, flags
<1>10. Placement'
  <2> USE DEF Placement
  <2>1. NoTimeouts' /\ InHand' /\ Listed'
    BY <1>1, <1>3, <1>4, <1>8
       DEF Placed, NoTimeouts, InHand, Listed, Actors
  <2>2. TakenFirst'
    BY <1>1, <1>3, <1>8 DEF Placed, TakenFirst
  <2>3. HalfInserted'
    BY <1>1, <1>3, <1>8 DEF Placed, HalfInserted
  <2>4. cur'["processor"] \notin sleepers
    BY <1>1, <1>3, <1>5, <1>8 DEF Placed, InHand, TypeOK
  <2>5. Notifying'
    BY <1>1, <1>3, <1>8, <2>4 DEF Placed, Notifying, Actors, locks
  <2>6. SleepersReachable'
    BY <1>1, <1>3, <1>8, <2>4 DEF Placed, SleepersReachable, InHand, TypeOK
  <2> QED
    BY <2>1, <2>2, <2>3, <2>5, <2>6
<1>11. TasksCounted'
  BY <1>1, <1>3, <1>4, <1>5, <1>8, StillATask DEF Placed
<1>12. OwnedOnce'
  <2>1. UNCHANGED <<taskList, pushList, tmpList, atWorker, sleepers>>
    BY <1>3
  <2>2. pc["processor"] # "sleep"
    BY <1>3
  <2>3. \A d \in Coroutines : Own(d)' = Own(d)
    <3>1. TypeOK
      BY <1>1
    <3>2. \A d \in Coroutines :
            /\ Occurrences(queue', d) \in Nat
            /\ Occurrences(queue', d) + Membership(popQueue', d)
                 + (IF pc'["processor"] = "sleep" /\ cur'["processor"] = d
                      THEN 1 ELSE 0)
                 = Occurrences(queue, d) + Membership(popQueue, d)
      <4> TAKE d \in Coroutines
      <4>1. /\ Occurrences(queue, d)
                 = Occurrences(q, d) + IF d = c THEN 1 ELSE 0
            /\ Occurrences(q, d) \in Nat
        BY <1>4
      <4>2. /\ Occurrences(queue', d) \in Nat
            /\ Occurrences(queue', d) + Membership(popQueue', d)
                 + (IF pc'["processor"] = "sleep" /\ cur'["processor"] = d
                      THEN 1 ELSE 0)
                 = Occurrences(q, d) + Membership(popQueue, d)
                     + IF d = c THEN 1 ELSE 0
        BY <1>8 DEF Moved
      <4> QED
        BY <4>1, <4>2, MembershipNat
    <3> QED
      BY <2>1, <2>2, <3>1, <3>2, QueuesNat, MembershipNat DEF Own
  <2> QED
    BY <1>1, <1>4, <1>5, <1>8, <2>3 DEF OwnedOnce, Placed
<1> QED
  BY <1>9, <1>10, <1>11, <1>12 DEF IInv

\* addCoroutine does the same for the first coroutine that was pushed back.
LEMMA AddCoroutineStep ==
  ASSUME IInv, AddCoroutine
  PROVE  IInv'
<1> USE ConstantsAssumption
<1>1. TypeOK /\ Placement /\ OwnedOnce /\ TasksCounted
  BY DEF IInv
<1> DEFINE c == Head(tmpList)
           q == Tail(tmpList)
<1>2. /\ pc["processor"] = "distribute" /\ tmpList # <<>> /\ tmpList' = q
      /\ Schedule(c, schA[c], queue, "distribute")
      /\ UNCHANGED <<counter, sleepers, list, taskList, pushList, atWorker,
                     locks, round, todo, all, flags>>
  BY DEF AddCoroutine, At
<1>3. /\ c \in Coroutines /\ q \in Seq(Coroutines)
      /\ \A d \in Coroutines :
           /\ Occurrences(q, d) \in Nat
           /\ Occurrences(tmpList, d)
                = Occurrences(q, d) + IF d = c THEN 1 ELSE 0
  <2>1. tmpList \in Seq(Coroutines) /\ tmpList # <<>>
    BY <1>1, <1>2 DEF TypeOK
  <2>2. /\ c \in Coroutines /\ q \in Seq(Coroutines)
        /\ \A d \in Coroutines :
             Occurrences(tmpList, d)
               = Occurrences(q, d) + IF d = c THEN 1 ELSE 0
    BY <2>1, CountsTail
  <2> HIDE DEF c, q
  <2>3. \A d \in Coroutines : Occurrences(q, d) \in Nat
    BY <2>2, CountsNat
  <2> QED
    BY <2>2, <2>3
<1>4. /\ c \notin popQueue /\ c \notin sleepers
      /\ status[c] \in {"live", "finished"}
  <2>1. Occurrences(tmpList, c) >= 1
    BY <1>3
  <2> QED
    BY <1>1, <1>3, <2>1, QueuedElsewhere
<1> HIDE DEF c, q
<1>5. schA[c] \in Outcomes /\ queue \in Seq(Coroutines) /\ InHand
  BY <1>1, <1>3 DEF TypeOK, Placement
<1>6. Placed(c, "distribute") /\ Moved(c, queue)
  BY <1>1, <1>2, <1>3, <1>4, <1>5, ScheduleMoves
<1>7. TypeOK'
  BY <1>1, <1>2, <1>3, <1>6 DEF Placed, TypeOK, locks, flags
<1>8. Placement'
  <2> USE DEF Placement
  <2>1. NoTimeouts' /\ InHand' /\ Listed'
    BY <1>1, <1>2, <1>3, <1>6
       DEF Placed, NoTimeouts, InHand, Listed, Actors
  <2>2. TakenFirst'
    BY <1>1, <1>2, <1>6 DEF Placed, TakenFirst
  <2>3. HalfInserted'
    BY <1>1, <1>2, <1>6 DEF Placed, HalfInserted
  <2>4. cur'["processor"] \notin sleepers
    BY <1>1, <1>2, <1>4, <1>6 DEF Placed, InHand, TypeOK
  <2>5. Notifying'
    BY <1>1, <1>2, <1>6, <2>4 DEF Placed, Notifying, Actors, locks
  <2>6. SleepersReachable'
    BY <1>1, <1>2, <1>6, <2>4 DEF Placed, SleepersReachable, InHand, TypeOK
  <2> QED
    BY <2>1, <2>2, <2>3, <2>5, <2>6
<1>9. TasksCounted'
  BY <1>1, <1>2, <1>3, <1>4, <1>6, StillATask DEF Placed
<1>10. OwnedOnce'
  <2>1. UNCHANGED <<taskList, pushList, atWorker, sleepers>>
    BY <1>2
  <2>2. pc["processor"] # "sleep"
    BY <1>2
  <2>3. \A d \in Coroutines :
          Occurrences(tmpList, d)
            = Occurrences(tmpList', d) + IF d = c THEN 1 ELSE 0
    BY <1>2, <1>3
  <2>4. \A d \in Coroutines : Occurrences(tmpList', d) \in Nat
    BY <1>2, <1>3
  <2>5. \A d \in Coroutines : Own(d)' = Own(d)
    BY <1>1, <1>6, <2>1, <2>2, <2>3, <2>4, QueuesNat, MembershipNat
       DEF Own, Moved
  <2> QED
    BY <1>1, <1>3, <1>4, <1>6, <2>5 DEF OwnedOnce, Placed
<1> QED
  BY <1>7, <1>8, <1>9, <1>10 DEF IInv

\* The first insertion: the coroutine in hand joins the sleep set.
LEMMA PutToSleepStep ==
  ASSUME Timed = {}, IInv, PutToSleep
  PROVE  IInv'
<1> USE ConstantsAssumption
<1>1. TypeOK /\ Placement /\ OwnedOnce /\ TasksCounted
  BY DEF IInv
<1> DEFINE c == cur["processor"]
<1>2. /\ pc["processor"] = "sleep" /\ sleepers' = sleepers \cup {c}
      /\ UNCHANGED <<tasks, due, list, lists, locks, cur, local, flags>>
  BY DEF PutToSleep, At
<1>3. /\ pc' = [pc EXCEPT !["processor"] = "list"]
  BY <1>1 DEF PutToSleep, TypeOK
<1>4. c \in Coroutines
  BY <1>1, <1>2 DEF Placement, InHand
<1>5. c \notin sleepers
  <2>1. Own(c) <= 1
    BY <1>1, <1>4 DEF OwnedOnce
  <2>2. Own(c) >= 1 + Membership(sleepers, c)
    BY <1>1, <1>2, <1>4, QueuesNat, MembershipNat DEF Own
  <2>3. Membership(sleepers, c) = 0
    BY <1>1, <1>4, <2>1, <2>2, MembershipNat DEF OwnedOnce
  <2> QED
    BY <2>3 DEF Membership
<1>6. /\ pc' \in [Actors -> Labels] /\ pc'["processor"] = "list"
      /\ \A a \in Actors \ {"processor"} : pc'[a] = pc[a]
  BY <1>1, <1>3 DEF TypeOK, Actors, Labels
<1>7. TypeOK'
  BY <1>1, <1>2, <1>4, <1>6 DEF TypeOK, tasks, lists, locks, local, flags
<1>8. Placement'
  BY <1>1, <1>2, <1>4, <1>5, <1>6 DEF Placement, NoTimeouts, InHand,
     TakenFirst, HalfInserted, Notifying, Listed, SleepersReachable, Actors,
     lists, locks, local
<1>9. UNCHANGED <<taskList, pushList, tmpList, queue, popQueue, atWorker,
                  cur, status, counter>>
  BY <1>2 DEF lists, tasks
<1>10. \A d \in Coroutines :
         Membership(sleepers', d) = Membership(sleepers, d)
                                      + IF d = c THEN 1 ELSE 0
  BY <1>2, <1>5 DEF Membership
<1>11. \A d \in Coroutines : Own(d)' = Own(d)
  <2>1. pc["processor"] = "sleep" /\ pc'["processor"] = "list"
    BY <1>2, <1>6
  <2> QED
    BY <1>1, <1>9, <1>10, <2>1, QueuesNat, MembershipNat DEF Own
<1>12. OwnedOnce' /\ TasksCounted'
  BY <1>1, <1>9, <1>11 DEF OwnedOnce, TasksCounted
<1> QED
  BY <1>7, <1>8, <1>12 DEF IInv

\* The second insertion: the coroutine in hand joins the wait list.
LEMMA AddToListStep ==
  ASSUME IInv, AddToList
  PROVE  IInv'
<1> USE ConstantsAssumption
<1>1. TypeOK /\ Placement /\ OwnedOnce /\ TasksCounted
  BY DEF IInv
<1>2. /\ pc["processor"] = "list" /\ pc' = [pc EXCEPT !["processor"] = back]
      /\ list' = list \cup {cur["processor"]}
      /\ cur' = [cur EXCEPT !["processor"] = NoOne]
      /\ UNCHANGED <<tasks, due, sleepers, lists, locks, local, flags>>
  BY DEF AddToList, Goto
<1>3. cur["processor"] \in sleepers \ list /\ cur["processor"] \in Coroutines
  BY <1>1, <1>2 DEF Placement, HalfInserted, InHand
<1>4. /\ pc' \in [Actors -> Labels] /\ pc'["processor"] = back
      /\ cur' \in [Actors -> Coroutines \cup {NoOne}]
      /\ cur'["processor"] = NoOne
      /\ back \in {"distribute", "iterate"}
      /\ \A a \in Actors \ {"processor"} : pc'[a] = pc[a] /\ cur'[a] = cur[a]
  BY <1>1, <1>2 DEF TypeOK, Actors, Labels
<1>5. TypeOK'
  BY <1>1, <1>2, <1>3, <1>4 DEF TypeOK, tasks, lists, locks, local, flags
<1>6. Placement'
  BY <1>1, <1>2, <1>3, <1>4 DEF Placement, NoTimeouts, InHand, TakenFirst,
     HalfInserted, Notifying, Listed, SleepersReachable, TypeOK, Actors,
     lists, locks, local
<1>7. UNCHANGED <<taskList, pushList, tmpList, queue, popQueue, atWorker,
                  sleepers, status, counter>>
  BY <1>2 DEF lists, tasks
<1>8. \A d \in Coroutines : Own(d)' = Own(d)
  <2>1. pc["processor"] # "sleep" /\ pc'["processor"] # "sleep"
    BY <1>2, <1>4
  <2> QED
    BY <1>1, <1>7, <2>1, QueuesNat, MembershipNat DEF Own
<1>9. OwnedOnce' /\ TasksCounted'
  BY <1>1, <1>7, <1>8 DEF OwnedOnce, TasksCounted
<1> QED
  BY <1>5, <1>6, <1>9 DEF IInv

\* A co-worker pushes back a coroutine that it held.
LEMMA WorkerReturnsStep ==
  ASSUME IInv, NEW c \in Coroutines, WorkerReturns(c)
  PROVE  IInv'
<1> USE ConstantsAssumption
<1>1. TypeOK /\ Placement /\ OwnedOnce /\ TasksCounted
  BY DEF IInv
<1>2. /\ c \in atWorker /\ atWorker' = atWorker \ {c}
      /\ pushList' = Append(pushList, c)
      /\ pc' = [pc EXCEPT !["processor"] = IF @ = "waiting" THEN "wait" ELSE @]
      /\ UNCHANGED <<status, counter, sleep, taskList, tmpList, queue,
                     popQueue, locks, cur, local, flags>>
  BY DEF WorkerReturns, NotifyProcessor
<1>3. schA' \in [Coroutines -> Outcomes]
  BY <1>1 DEF WorkerReturns, TypeOK
<1>4. /\ pc' \in [Actors -> Labels]
      /\ \A a \in Actors \ {"processor"} : pc'[a] = pc[a]
      /\ pc'["processor"] = IF pc["processor"] = "waiting" THEN "wait"
                                                  ELSE pc["processor"]
  BY <1>1, <1>2 DEF TypeOK, Actors, Labels
<1>5. /\ pushList' \in Seq(Coroutines)
      /\ \A d \in Coroutines :
           Occurrences(pushList', d)
             = Occurrences(pushList, d) + IF d = c THEN 1 ELSE 0
  <2>1. pushList \in Seq(Coroutines) /\ pushList' = Append(pushList, c)
    BY <1>1, <1>2 DEF TypeOK
  <2> QED
    BY <2>1, CountsAppend
<1>6. TypeOK'
  BY <1>1, <1>2, <1>3, <1>4, <1>5 DEF TypeOK, sleep, locks, local, flags
<1>7. Placement'
  BY <1>1, <1>2, <1>4 DEF Placement, NoTimeouts, InHand, TakenFirst,
     HalfInserted, Notifying, Listed, SleepersReachable, Actors, sleep,
     locks, local
<1>8. \A d \in Coroutines :
        Membership(atWorker, d)
          = Membership(atWorker', d) + IF d = c THEN 1 ELSE 0
  BY <1>2 DEF Membership
<1>9. \A d \in Coroutines : Own(d)' = Own(d)
  <2>1. /\ pc'["processor"] = "sleep" <=> pc["processor"] = "sleep"
        /\ UNCHANGED <<taskList, tmpList, queue, popQueue, sleepers, cur>>
    BY <1>2, <1>4 DEF sleep
  <2> QED
    <3> TAKE d \in Coroutines
    <3>1. Occurrences(pushList', d) + Membership(atWorker', d)
            = Occurrences(pushList, d) + Membership(atWorker, d)
      <4>1. /\ Occurrences(pushList', d)
                   = Occurrences(pushList, d) + IF d = c THEN 1 ELSE 0
            /\ Membership(atWorker, d)
                   = Membership(atWorker', d) + IF d = c THEN 1 ELSE 0
        BY <1>5, <1>8
      <4> QED
        BY <1>1, <4>1, QueuesNat, MembershipNat
    <3>2. Occurrences(pushList', d) \in Nat
      BY <1>5, CountsNat
    <3> QED
      BY <1>1, <2>1, <3>1, <3>2, QueuesNat, MembershipNat DEF Own
<1>10. OwnedOnce' /\ TasksCounted'
  BY <1>1, <1>2, <1>9 DEF OwnedOnce, TasksCounted
<1> QED
  BY <1>6, <1>7, <1>10 DEF IInv

\* A notifier takes a coroutine off the list.
LEMMA PickStep ==
  ASSUME IInv, NEW n \in Notifiers, Pick(n)
  PROVE  IInv'
<1> USE ConstantsAssumption
<1>1. TypeOK /\ Placement /\ OwnedOnce /\ TasksCounted
  BY DEF IInv
<1>2. PICK c \in list : list' = list \ {c} /\ cur' = [cur EXCEPT ![n] = c]
  BY DEF Pick
<1>3. /\ pc[n] = "pick" /\ pc' = [pc EXCEPT ![n] = "wake"]
      /\ UNCHANGED <<tasks, due, sleepers, lists, locks, local, flags>>
  BY DEF Pick, Goto
<1>4. c \in Coroutines /\ c \in sleepers /\ cur[n] = NoOne /\ listLock = n
  BY <1>1, <1>3 DEF Placement, Listed, Notifying, TypeOK
<1>5. /\ pc' \in [Actors -> Labels] /\ pc'[n] = "wake" /\ cur'[n] = c
      /\ cur' \in [Actors -> Coroutines \cup {NoOne}]
      /\ \A a \in Actors \ {n} : pc'[a] = pc[a] /\ cur'[a] = cur[a]
      /\ n \notin {"processor", "checker", "stopper"}
      /\ pc'["processor"] = pc["processor"]
      /\ cur'["processor"] = cur["processor"]
      /\ pc'["checker"] = pc["checker"] /\ cur'["checker"] = cur["checker"]
  BY <1>1, <1>2, <1>3, <1>4 DEF TypeOK, Actors, Labels
<1>6. TypeOK'
  BY <1>1, <1>2, <1>3, <1>5 DEF TypeOK, tasks, lists, locks, local, flags
<1>7. c # cur["processor"]
  <2>1. CASE pc["processor"] = "sleep"
    <3>1. Own(c) <= 1
      BY <1>1, <1>4 DEF OwnedOnce
    <3>2. Membership(sleepers, c) = 1
      BY <1>4 DEF Membership
    <3>3. Own(c) >= 1 + IF c = cur["processor"] THEN 1 ELSE 0
      BY <1>1, <1>4, <2>1, <3>2, QueuesNat, MembershipNat DEF Own
    <3> QED
      BY <1>1, <1>4, <3>1, <3>3 DEF OwnedOnce
  <2>2. CASE pc["processor"] = "list"
    BY <1>1, <2>2 DEF Placement, HalfInserted
  <2>3. CASE pc["processor"] \notin {"sleep", "list"}
    BY <1>1, <1>4, <2>3 DEF Placement, InHand
  <2> QED
    BY <2>1, <2>2, <2>3
<1>8. Placement'
  <2> USE DEF Placement
  <2>1. NoTimeouts' /\ InHand' /\ TakenFirst' /\ HalfInserted' /\ Listed'
    BY <1>1, <1>2, <1>3, <1>5 DEF NoTimeouts, InHand, TakenFirst,
       HalfInserted, Listed, local, lists
  <2>2. Notifying'
    BY <1>1, <1>2, <1>3, <1>4, <1>5, <1>7 DEF Notifying, Actors, locks
  <2>3. SleepersReachable'
    <3> SUFFICES ASSUME NEW s \in sleepers, s \notin list'
                 PROVE  \E a \in Actors : cur'[a] = s
      BY <1>3 DEF SleepersReachable
    <3>1. CASE s \in list
      BY <1>2, <1>5, <3>1 DEF Actors
    <3>2. CASE s \notin list
      <4>1. PICK a \in Actors : cur[a] = s
        BY <1>1, <3>2 DEF SleepersReachable
      <4>2. a # n
        BY <1>1, <1>4, <4>1 DEF TypeOK
      <4> QED
        BY <1>5, <4>1, <4>2
    <3> QED
      BY <3>1, <3>2
  <2> QED
    BY <2>1, <2>2, <2>3
<1>9. OwnedOnce' /\ TasksCounted'
  BY <1>1, <1>3, <1>5, OwnersKept DEF tasks
<1> QED
  BY <1>6, <1>8, <1>9 DEF IInv

\* wakeCoroutine moves a coroutine from the sleep set to the pushed ones.
LEMMA WakeStep ==
  ASSUME IInv, NEW n \in Notifiers, Wake(n)
  PROVE  IInv'
<1> USE ConstantsAssumption
<1> DEFINE c == cur[n]
<1>1. TypeOK /\ Placement /\ OwnedOnce /\ TasksCounted
  BY DEF IInv
<1>2. /\ pc[n] = "wake" /\ sleepers' = sleepers \ {c}
      /\ schA' = [schA EXCEPT ![c] = "none"]
      /\ pushList' = Append(pushList, c)
      /\ cur' = [cur EXCEPT ![n] = NoOne]
      /\ UNCHANGED <<status, counter, due, list, taskList, tmpList, queue,
                     popQueue, atWorker, sleepLock, local, flags>>
  BY DEF Wake, At
<1>3. \E to \in {"pick", "idle"} :
        /\ pc' = [pc EXCEPT ![n] = to,
                    !["processor"] = IF @ = "waiting" THEN "wait" ELSE @]
        /\ listLock' = IF to = "pick" THEN listLock ELSE NoOne
  BY DEF Wake, GotoNotifying
<1>4. /\ c \in Coroutines /\ c \in sleepers /\ c \notin list
      /\ c # cur["processor"] /\ listLock = n
  BY <1>1, <1>2 DEF Placement, Notifying, TypeOK
<1> HIDE DEF c
<1>5. /\ pc' \in [Actors -> Labels]
      /\ IF pc'[n] = "pick" THEN listLock' = n ELSE listLock' = NoOne
      /\ pc'[n] \in {"pick", "idle"} /\ cur'[n] = NoOne
      /\ pc'["processor"] = IF pc["processor"] = "waiting" THEN "wait"
                                                  ELSE pc["processor"]
      /\ cur' \in [Actors -> Coroutines \cup {NoOne}]
      /\ \A a \in Actors \ {n} : cur'[a] = cur[a]
      /\ \A a \in Actors \ {n, "processor"} : pc'[a] = pc[a]
      /\ n \notin {"processor", "checker", "stopper"}
  <2>1. n \in Actors /\ n \notin {"processor", "checker", "stopper"}
    BY DEF Actors
  <2>2. PICK to \in {"pick", "idle"} :
          /\ pc' = [pc EXCEPT ![n] = to,
                      !["processor"] = IF @ = "waiting" THEN "wait" ELSE @]
          /\ listLock' = IF to = "pick" THEN listLock ELSE NoOne
    BY <1>3
  <2>3. pc \in [Actors -> Labels] /\ "processor" \in Actors
    BY <1>1 DEF TypeOK, Actors
  <2>4. /\ pc' \in [Actors -> Labels] /\ pc'[n] = to
        /\ \A a \in Actors \ {n, "processor"} : pc'[a] = pc[a]
        /\ pc'["processor"] = IF pc["processor"] = "waiting" THEN "wait"
                                                    ELSE pc["processor"]
    BY <2>1, <2>2, <2>3 DEF Labels
  <2>5. /\ cur' \in [Actors -> Coroutines \cup {NoOne}] /\ cur'[n] = NoOne
        /\ \A a \in Actors \ {n} : cur'[a] = cur[a]
    BY <1>1, <1>2, <2>1 DEF TypeOK
  <2> QED
    BY <1>4, <2>1, <2>2, <2>4, <2>5
<1>6. /\ pushList' \in Seq(Coroutines)
      /\ \A d \in Coroutines :
           Occurrences(pushList', d)
             = Occurrences(pushList, d) + IF d = c THEN 1 ELSE 0
  <2>1. pushList \in Seq(Coroutines) /\ pushList' = Append(pushList, c)
    BY <1>1, <1>2 DEF TypeOK
  <2> QED
    BY <1>4, <2>1, CountsAppend
<1>7. TypeOK'
  <2>1. schA' \in [Coroutines -> Outcomes] /\ listLock' \in Notifiers \cup {NoOne}
    BY <1>1, <1>2, <1>4, <1>5 DEF TypeOK, Outcomes
  <2> QED
    BY <1>1, <1>2, <1>5, <1>6, <2>1 DEF TypeOK, local, flags
<1>8. Placement'
  <2> USE DEF Placement
  <2>1. NoTimeouts' /\ InHand' /\ TakenFirst' /\ Listed'
    BY <1>1, <1>2, <1>4, <1>5 DEF NoTimeouts, InHand, TakenFirst, Listed,
       Actors, local
  <2>2. HalfInserted'
    BY <1>1, <1>2, <1>4, <1>5 DEF HalfInserted, Actors
  <2>3. Notifying'
    BY <1>1, <1>2, <1>4, <1>5 DEF Notifying, Actors
  <2>4. SleepersReachable'
    BY <1>1, <1>2, <1>4, <1>5 DEF SleepersReachable, Actors, c
  <2> QED
    BY <2>1, <2>2, <2>3, <2>4
<1>9. \A d \in Coroutines :
        Membership(sleepers, d)
          = Membership(sleepers', d) + IF d = c THEN 1 ELSE 0
  BY <1>2, <1>4 DEF Membership
<1>10. \A d \in Coroutines : Own(d)' = Own(d)
  <2>1. /\ pc'["processor"] = "sleep" <=> pc["processor"] = "sleep"
        /\ cur'["processor"] = cur["processor"]
        /\ UNCHANGED <<taskList, tmpList, queue, popQueue, atWorker>>
    BY <1>2, <1>5 DEF Actors
  <2> QED
    <3> TAKE d \in Coroutines
    <3>1. Occurrences(pushList', d) + Membership(sleepers', d)
            = Occurrences(pushList, d) + Membership(sleepers, d)
      BY <1>1, <1>6, <1>9, QueuesNat, MembershipNat
    <3>2. Occurrences(pushList', d) \in Nat
      BY <1>6, CountsNat
    <3> QED
      BY <1>1, <2>1, <3>1, <3>2, QueuesNat, MembershipNat DEF Own
<1>11. OwnedOnce' /\ TasksCounted'
  BY <1>1, <1>2, <1>10 DEF OwnedOnce, TasksCounted
<1> QED
  BY <1>7, <1>8, <1>11 DEF IInv

\* Every step preserves the invariant; a scan meets nobody who is due.
LEMMA StepInv ==
  ASSUME Timed = {}
  PROVE  IInv /\ [Next]_vars => IInv'
<1> SUFFICES ASSUME IInv, [Next]_vars PROVE IInv'
  OBVIOUS
<1>1. CASE \E c \in Coroutines : Count(c) \/ Submit(c)
  BY <1>1, SubmissionStep
<1>2. CASE \E c \in Coroutines : WorkerReturns(c)
  BY <1>2, WorkerReturnsStep
<1>3. CASE PushQueues
  BY <1>3, PushQueuesStep
<1>4. CASE AddCoroutine
  BY <1>4, AddCoroutineStep
<1>5. CASE Remove
  BY <1>5, RemoveStep
<1>6. CASE Iterate
  BY <1>6, IterateStep
<1>7. CASE PopTasks
  BY <1>7, PopTasksStep
<1>8. CASE PutToSleep
  BY <1>8, PutToSleepStep
<1>9. CASE AddToList
  BY <1>9, AddToListStep
<1>10. CASE \E n \in Notifiers : Pick(n)
  BY <1>10, PickStep
<1>11. CASE \E n \in Notifiers : Wake(n)
  BY <1>11, WakeStep
<1>12. CASE (\E c \in Coroutines : Scan(c)) \/ Forget
  BY <1>12 DEF Scan, Forget, GotoNotifying, IInv, Placement, NoTimeouts
<1>13. CASE QuietStep \/ UNCHANGED vars
  BY <1>13, QuietInv
<1> QED
  BY <1>1, <1>2, <1>3, <1>4, <1>5, <1>6, <1>7, <1>8, <1>9, <1>10, <1>11,
     <1>12, <1>13
     DEF Next, ProcessorStep, NotifierStep, CheckerStep, QuietStep

-----------------------------------------------------------------------------
(* Theorems *)

\* The invariant holds in every state.
LEMMA Invariance == ASSUME Timed = {} PROVE Spec => []IInv
<1>1. Init => IInv
  BY InitInv
<1>2. IInv /\ [Next]_vars => IInv'
  BY StepInv
<1> QED
  BY <1>1, <1>2, PTL DEF Spec

\* Every variable keeps its type where no wait is timed: in particular the
\* counter never goes below zero or above the number of coroutines.
THEOREM TypeCorrect == ASSUME Timed = {} PROVE Spec => []TypeOK
<1>1. IInv => TypeOK
  BY DEF IInv
<1> QED
  BY <1>1, Invariance, PTL

\* Iteration, notification, co-workers and stop neither lose nor duplicate a
\* coroutine: at any time one queue, set or thread owns it.
THEOREM OneOwner == ASSUME Timed = {} PROVE Spec => []SingleOwner
<1>1. IInv => SingleOwner
  BY OwnersSum DEF IInv, Placement, OwnedOnce, SingleOwner
<1> QED
  BY <1>1, Invariance, PTL

\* m_tasksCounter counts the tasks that are not deleted, in every state.
THEOREM TaskCountExact == ASSUME Timed = {} PROVE Spec => []TasksCounted
<1>1. IInv => TasksCounted
  BY DEF IInv
<1> QED
  BY <1>1, Invariance, PTL

\* A coroutine that sleeps on a list can be found by a notification, or a
\* thread is about to insert or wake it.
THEOREM SleepersNotLost == ASSUME Timed = {} PROVE Spec => []SleepersReachable
<1>1. IInv => SleepersReachable
  BY DEF IInv, Placement
<1> QED
  BY <1>1, Invariance, PTL

\* A notification never reaches a coroutine that is scheduled, running or
\* deleted: what the list holds sleeps.
THEOREM ListedAreAsleep == ASSUME Timed = {} PROVE Spec => []ListedSleep
<1>1. IInv => ListedSleep
  BY DEF IInv, Placement, Listed, ListedSleep
<1> QED
  BY <1>1, Invariance, PTL

-----------------------------------------------------------------------------
(* The Executor's workers (AsyncWorkers): where a coroutine is while the       *)
(* processor does not have it, and what epoll may report of it.                *)

\* The actions a coroutine is scheduled with, and a worker's side of epoll.
WorkerActions == {Other, Finished, WaitRepeat(TRUE), WaitRepeat(FALSE)} \cup IOActions

EpollRecords == [added : SUBSET Handles, enabled : SUBSET Handles, trigger : BOOLEAN,
                 events : SUBSET Handles, pop : Seq(Handles)]

WorkersTypes ==
  /\ ioWorkerType \in {"naive", "event"}
  /\ m_backlog \in [Workers -> Seq(Handles)] /\ m_queue \in [Workers -> Seq(Handles)]
  /\ kept \in Seq(Handles) /\ epoll \in [EventWorkers -> EpollRecords]
  /\ scheduled \in [Handles -> WorkerActions] /\ atProcessor \subseteq Handles

\* A registration that was reported is off until its coroutine has been iterated.
OneShot == \A w \in EventWorkers : epoll[w].enabled \cap epoll[w].events = {}

\* Who comes to an event worker, or leaves it for the other one, waits for its event.
ComeForTheirEvent ==
  \A w \in EventWorkers :
    /\ \A c \in Handles : Occurrences(m_backlog[w], c) > 0 =>
         IsIO(scheduled[c]) /\ scheduled[c].event = w
    /\ \A c \in Handles : Occurrences(epoll[w].pop, c) > 0 =>
         IsIO(scheduled[c]) /\ scheduled[c].event # w

WorkersInv ==
  WorkersTypes /\ HeldInOnePlace /\ ArmedForItsEvent /\ OneShot /\ ComeForTheirEvent

InBacklog(w, c) == Occurrences(m_backlog[w], c)
InQueue(w, c) == Occurrences(m_queue[w], c)
InKept(c) == Occurrences(kept, c)
InPop(w, c) == Occurrences(epoll[w].pop, c)
Registered(w, c) == Membership(epoll[w].added, c)
Processed(c) == Membership(atProcessor, c)

\* What each worker holds.
AtTimer(c) == InBacklog("timer", c) + InQueue("timer", c) + InKept(c)
AtNaive(c) == InBacklog("naive", c) + InQueue("naive", c)
AtEvents(w, c) == InBacklog(w, c) + InQueue(w, c) + Registered(w, c) + InPop(w, c)

\* Held adds up the places one by one.
HeldIsSum ==
  \A c : Held(c) =
    Processed(c) + AtTimer(c) + AtNaive(c) + AtEvents("reader", c) + AtEvents("writer", c)

\* The numbers that are added up.
PlacesAreCounted ==
  \A c : /\ InKept(c) \in Nat /\ Processed(c) \in {0, 1}
         /\ \A w \in Workers : InBacklog(w, c) \in Nat /\ InQueue(w, c) \in Nat
         /\ \A w \in EventWorkers : InPop(w, c) \in Nat /\ Registered(w, c) \in {0, 1}
         /\ AtTimer(c) \in Nat /\ AtNaive(c) \in Nat
         /\ \A w \in EventWorkers : AtEvents(w, c) \in Nat

\* Every number that is added up is natural.
LEMMA PlacesCounted == WorkersTypes => PlacesAreCounted
<1> SUFFICES ASSUME WorkersTypes, NEW c
             PROVE  /\ InKept(c) \in Nat /\ Processed(c) \in {0, 1}
                    /\ \A w \in Workers : InBacklog(w, c) \in Nat /\ InQueue(w, c) \in Nat
                    /\ \A w \in EventWorkers : InPop(w, c) \in Nat
                                               /\ Registered(w, c) \in {0, 1}
                    /\ AtTimer(c) \in Nat /\ AtNaive(c) \in Nat
                    /\ \A w \in EventWorkers : AtEvents(w, c) \in Nat
  BY DEF PlacesAreCounted
<1>1. /\ kept \in Seq(Handles)
      /\ \A w \in Workers : m_backlog[w] \in Seq(Handles) /\ m_queue[w] \in Seq(Handles)
      /\ \A w \in EventWorkers : epoll[w].pop \in Seq(Handles)
  BY DEF WorkersTypes, EpollRecords
<1>2. /\ InKept(c) \in Nat
      /\ \A w \in Workers : InBacklog(w, c) \in Nat /\ InQueue(w, c) \in Nat
      /\ \A w \in EventWorkers : InPop(w, c) \in Nat
  BY <1>1, OccurrencesNat DEF InKept, InBacklog, InQueue, InPop
<1>3. Processed(c) \in {0, 1} /\ \A w \in EventWorkers : Registered(w, c) \in {0, 1}
  BY DEF Registered, Processed, Membership
<1>4. AtTimer(c) \in Nat /\ AtNaive(c) \in Nat
  BY <1>2 DEF AtTimer, AtNaive, Workers
<1>5. \A w \in EventWorkers : AtEvents(w, c) \in Nat
  BY <1>2, <1>3 DEF AtEvents, Workers, EventWorkers
<1> QED
  BY <1>2, <1>3, <1>4, <1>5

\* Held is that sum.
LEMMA HeldSum == WorkersTypes => HeldIsSum
<1> SUFFICES ASSUME WorkersTypes, NEW c
             PROVE  Held(c) = Processed(c) + AtTimer(c) + AtNaive(c)
                                + AtEvents("reader", c) + AtEvents("writer", c)
  BY DEF HeldIsSum
<1>1. /\ InKept(c) \in Nat /\ Processed(c) \in Nat
      /\ InBacklog("timer", c) \in Nat /\ InQueue("timer", c) \in Nat
      /\ InBacklog("naive", c) \in Nat /\ InQueue("naive", c) \in Nat
      /\ InBacklog("reader", c) \in Nat /\ InQueue("reader", c) \in Nat
      /\ InBacklog("writer", c) \in Nat /\ InQueue("writer", c) \in Nat
      /\ InPop("reader", c) \in Nat /\ Registered("reader", c) \in Nat
      /\ InPop("writer", c) \in Nat /\ Registered("writer", c) \in Nat
  BY PlacesCounted DEF PlacesAreCounted, Workers, EventWorkers
<1>2. Held(c) =
        Processed(c) + InKept(c)
        + (InBacklog("timer", c) + InQueue("timer", c))
        + (InBacklog("naive", c) + InQueue("naive", c))
        + (InBacklog("reader", c) + InQueue("reader", c))
        + (InBacklog("writer", c) + InQueue("writer", c))
        + (Registered("reader", c) + InPop("reader", c))
        + (Registered("writer", c) + InPop("writer", c))
  BY Zenon DEF Held, Occurrences, Membership, InBacklog, InQueue, InKept, InPop,
     Registered, Processed
<1> QED
  BY <1>1, <1>2 DEF AtTimer, AtNaive, AtEvents

\* Both, now and after a step.
LEMMA PlacesNowAndThen ==
  ASSUME WorkersTypes, WorkersTypes'
  PROVE  HeldIsSum /\ HeldIsSum' /\ PlacesAreCounted /\ PlacesAreCounted'
BY HeldSum, PlacesCounted, PTL

\* No event worker has anything to do with the coroutine.
Unarmed(c) == \A w \in EventWorkers : /\ c \notin epoll[w].enabled \cup epoll[w].events
                                      /\ InBacklog(w, c) = 0 /\ InPop(w, c) = 0

\* A coroutine that is not scheduled for I/O.
LEMMA QuietIsUnarmed ==
  ASSUME WorkersInv, NEW c \in Handles, ~IsIO(scheduled[c])
  PROVE  Unarmed(c)
<1>1. PlacesAreCounted
  BY PlacesCounted DEF WorkersInv
<1>2. \A w \in EventWorkers : InBacklog(w, c) = 0 /\ InPop(w, c) = 0
  BY <1>1 DEF WorkersInv, ComeForTheirEvent, PlacesAreCounted, InBacklog, InPop, Workers,
     EventWorkers
<1> QED
  BY <1>2 DEF Unarmed, WorkersInv, ArmedForItsEvent

\* Whoever the processor has, or a queue, is nowhere else and has not finished.
LEMMA HereIsUnarmed ==
  ASSUME WorkersInv, NEW c \in Handles,
         \/ Processed(c) = 1 \/ InKept(c) > 0
         \/ InQueue("timer", c) > 0 \/ InQueue("naive", c) > 0
  PROVE  /\ Unarmed(c) /\ scheduled[c] # Finished /\ Held(c) = 1
         /\ \A w \in EventWorkers : c \notin epoll[w].added
<1>1. HeldIsSum /\ PlacesAreCounted
  BY HeldSum, PlacesCounted DEF WorkersInv
<1>2. Held(c) = IF scheduled[c] = Finished THEN 0 ELSE 1
  BY DEF WorkersInv, HeldInOnePlace
<1>3. /\ InKept(c) \in Nat /\ Processed(c) \in Nat
      /\ InBacklog("timer", c) \in Nat /\ InQueue("timer", c) \in Nat
      /\ InBacklog("naive", c) \in Nat /\ InQueue("naive", c) \in Nat
      /\ AtTimer(c) \in Nat /\ AtNaive(c) \in Nat
      /\ AtEvents("reader", c) \in Nat /\ AtEvents("writer", c) \in Nat
  BY <1>1 DEF PlacesAreCounted, Workers, EventWorkers
<1>4. \A w \in EventWorkers : InBacklog(w, c) = 0 /\ InPop(w, c) = 0
                                /\ Registered(w, c) = 0
  <2>1. Processed(c) = 1 \/ AtTimer(c) > 0 \/ AtNaive(c) > 0
    BY <1>3 DEF AtTimer, AtNaive
  <2>2. Held(c) = Processed(c) + AtTimer(c) + AtNaive(c)
                    + AtEvents("reader", c) + AtEvents("writer", c)
    BY <1>1, Zenon DEF HeldIsSum
  <2>3. AtEvents("reader", c) = 0 /\ AtEvents("writer", c) = 0
    <3>1. Held(c) \in {0, 1}
      BY <1>2
    <3>2. Processed(c) + AtTimer(c) + AtNaive(c) >= 1
      BY <1>3, <2>1
    <3> QED
      BY <1>3, <2>2, <3>1, <3>2
  <2>4. \A w \in EventWorkers : AtEvents(w, c) = 0
    BY <2>3 DEF EventWorkers
  <2>5. \A w \in EventWorkers : /\ InBacklog(w, c) \in Nat /\ InQueue(w, c) \in Nat
                                /\ InPop(w, c) \in Nat /\ Registered(w, c) \in Nat
    BY <1>1 DEF PlacesAreCounted, Workers, EventWorkers
  <2> QED
    BY <2>4, <2>5 DEF AtEvents
<1>5. \A w \in EventWorkers : c \notin epoll[w].added
  BY <1>4 DEF Registered, Membership, EventWorkers
<1>6. scheduled[c] # Finished /\ Held(c) = 1
  BY <1>1, <1>2, <1>3 DEF HeldIsSum, AtTimer, AtNaive
<1>7. \A w \in EventWorkers : c \notin epoll[w].enabled \cup epoll[w].events
  BY <1>5 DEF WorkersInv, ArmedForItsEvent
<1> QED
  BY <1>4, <1>5, <1>6, <1>7 DEF Unarmed, EventWorkers

\* What the processor, the timer and the naive worker hold.
Plain(c) == Processed(c) + AtTimer(c) + AtNaive(c)

\* A step that moves coroutines between places away from the event workers, and may
\* schedule one that they do not have.
LEMMA Rearranged ==
  ASSUME WorkersInv, WorkersTypes',
         \A w \in EventWorkers :
           /\ m_backlog'[w] = m_backlog[w] /\ m_queue'[w] = m_queue[w]
           /\ epoll'[w].added = epoll[w].added /\ epoll'[w].enabled = epoll[w].enabled
           /\ epoll'[w].events = epoll[w].events /\ epoll'[w].pop = epoll[w].pop,
         \A d \in Handles : Plain(d)' = Plain(d),
         \/ scheduled' = scheduled
         \/ \E c \in Handles, a \in WorkerActions :
              /\ scheduled' = [scheduled EXCEPT ![c] = a]
              /\ Unarmed(c) /\ scheduled[c] # Finished /\ a # Finished
  PROVE  WorkersInv'
<1>1. \A d \in Handles : Held(d)' = Held(d)
  <2> SUFFICES ASSUME NEW d \in Handles PROVE Held(d)' = Held(d)
    OBVIOUS
  <2>1. HeldIsSum /\ HeldIsSum'
    BY PlacesNowAndThen DEF WorkersInv
  <2>2. \A w \in EventWorkers : AtEvents(w, d)' = AtEvents(w, d)
    BY DEF AtEvents, InBacklog, InQueue, Registered, InPop
  <2>3. /\ AtEvents("reader", d)' = AtEvents("reader", d)
        /\ AtEvents("writer", d)' = AtEvents("writer", d)
    BY <2>2 DEF EventWorkers
  <2>4. Plain(d)' = Plain(d)
    OBVIOUS
  <2>5. /\ Held(d) = Plain(d) + AtEvents("reader", d) + AtEvents("writer", d)
        /\ Held(d)' = Plain(d)' + AtEvents("reader", d)' + AtEvents("writer", d)'
    BY <2>1, Zenon DEF HeldIsSum, Plain
  <2> QED
    BY <2>3, <2>4, <2>5, Zenon
<1>2. HeldInOnePlace'
  BY <1>1 DEF WorkersInv, WorkersTypes, HeldInOnePlace
<1>3. \A w \in EventWorkers, d \in Handles :
        \/ scheduled'[d] = scheduled[d]
        \/ /\ d \notin epoll[w].enabled \cup epoll[w].events
           /\ InBacklog(w, d) = 0 /\ InPop(w, d) = 0
  BY DEF WorkersInv, WorkersTypes, Unarmed
<1>4. \A w \in EventWorkers : /\ epoll[w].enabled \subseteq Handles
                              /\ epoll[w].events \subseteq Handles
  BY DEF WorkersInv, WorkersTypes, EpollRecords
<1>5. ArmedForItsEvent' /\ OneShot'
  BY <1>3, <1>4 DEF WorkersInv, ArmedForItsEvent, OneShot
<1>6. ComeForTheirEvent'
  BY <1>3 DEF WorkersInv, ComeForTheirEvent, InBacklog, InPop
<1> QED
  BY <1>2, <1>5, <1>6 DEF WorkersInv

\* The actions a coroutine returns.
LEMMA KindsOfActions ==
  /\ {Other, Finished, WaitRepeat(TRUE), WaitRepeat(FALSE)} \subseteq WorkerActions
  /\ Finished \notin {Other, WaitRepeat(TRUE), WaitRepeat(FALSE)} \cup IOActions
  /\ Other.type = "other" /\ Finished.type = "finished"
  /\ \A b : WaitRepeat(b).type = "wait repeat"
  /\ \A a \in WorkerActions : IsIO(a) => a.event \in EventWorkers
  /\ \A a \in IOActions : a \in WorkerActions /\ IsIO(a)
<1>1. /\ Other.type = "other" /\ Finished.type = "finished"
      /\ \A b : WaitRepeat(b).type = "wait repeat"
  BY DEF Other, Finished, WaitRepeat
<1>2. \A a \in IOActions : a.type \in {"io wait", "io repeat"} /\ a.event \in EventWorkers
  BY DEF IOActions
<1>3. Finished \notin {Other, WaitRepeat(TRUE), WaitRepeat(FALSE)} \cup IOActions
  BY <1>1, <1>2
<1>4. \A a \in WorkerActions : IsIO(a) => a \in IOActions
  BY <1>1 DEF WorkerActions, IsIO
<1> QED
  BY <1>1, <1>2, <1>3, <1>4 DEF WorkerActions, IsIO

\* What iterate() returns can be scheduled, and is not the end.
LEMMA AnswersAreActions ==
  ASSUME NEW c, NEW a \in Answers(c)
  PROVE  a \in WorkerActions /\ a # Finished
<1>1. a \in {Other, WaitRepeat(FALSE)} \cup IOActions
  BY DEF Answers
<1> QED
  BY <1>1, KindsOfActions

-----------------------------------------------------------------------------
(* The steps of the processor and of the environment.                          *)

\* The processor iterates a coroutine it has.
LEMMA ProcessorIteratesKeeps ==
  ASSUME WorkersInv, NEW c \in Handles, ProcessorIterates(c)
  PROVE  WorkersInv'
<1>1. PICK a \in {WaitRepeat(FALSE)} \cup IOActions :
        scheduled' = [scheduled EXCEPT ![c] = a]
  BY DEF ProcessorIterates, SetScheduled
<1>2. /\ c \in atProcessor /\ scheduled[c].type = "other"
      /\ UNCHANGED <<ioWorkerType, m_backlog, m_queue, kept, epoll, atProcessor>>
  BY DEF ProcessorIterates
<1>3. a \in WorkerActions /\ a # Finished
  BY <1>1, KindsOfActions
<1>4. WorkersTypes'
  BY <1>1, <1>2, <1>3 DEF WorkersInv, WorkersTypes
<1>5. Unarmed(c) /\ scheduled[c] # Finished
  BY <1>2, HereIsUnarmed DEF Processed, Membership
<1>6. \A d \in Handles : Plain(d)' = Plain(d)
  BY <1>2 DEF Plain, Processed, AtTimer, AtNaive, InBacklog, InQueue, InKept
<1> QED
  BY <1>1, <1>2, <1>3, <1>4, <1>5, <1>6, Rearranged

\* A wait's time point passes.
LEMMA TimePassesKeeps ==
  ASSUME WorkersInv, NEW c \in Handles, TimePasses(c)
  PROVE  WorkersInv'
<1>1. /\ scheduled[c] = WaitRepeat(FALSE)
      /\ scheduled' = [scheduled EXCEPT ![c] = WaitRepeat(TRUE)]
      /\ UNCHANGED <<ioWorkerType, m_backlog, m_queue, kept, epoll, atProcessor>>
  BY DEF TimePasses, SetScheduled
<1>2. /\ WaitRepeat(TRUE) \in WorkerActions
      /\ Finished \notin {WaitRepeat(FALSE), WaitRepeat(TRUE)}
      /\ ~IsIO(WaitRepeat(FALSE))
  BY KindsOfActions DEF IsIO
<1>3. WorkersTypes'
  BY <1>1, <1>2 DEF WorkersInv, WorkersTypes
<1>4. Unarmed(c) /\ scheduled[c] # Finished
  BY <1>1, <1>2, QuietIsUnarmed
<1>5. \A d \in Handles : Plain(d)' = Plain(d)
  BY <1>1 DEF Plain, Processed, AtTimer, AtNaive, InBacklog, InQueue, InKept
<1> QED
  BY <1>1, <1>2, <1>3, <1>4, <1>5, Rearranged

\* Steps that move nobody and schedule nobody.
LEMMA NobodyMoves ==
  ASSUME WorkersInv,
         UNCHANGED <<ioWorkerType, m_backlog, m_queue, kept, atProcessor, scheduled>>,
         \/ epoll' = epoll
         \/ \E w \in EventWorkers, b \in BOOLEAN :
              epoll' = [epoll EXCEPT ![w].trigger = b]
  PROVE  WorkersInv'
<1>1. epoll' \in [EventWorkers -> EpollRecords]
      /\ \A w \in EventWorkers :
           /\ epoll'[w].added = epoll[w].added /\ epoll'[w].enabled = epoll[w].enabled
           /\ epoll'[w].events = epoll[w].events /\ epoll'[w].pop = epoll[w].pop
  <2>1. epoll \in [EventWorkers -> EpollRecords]
    BY DEF WorkersInv, WorkersTypes
  <2>2. CASE epoll' = epoll
    BY <2>1, <2>2
  <2>3. CASE \E w \in EventWorkers, b \in BOOLEAN :
               epoll' = [epoll EXCEPT ![w].trigger = b]
    <3>1. PICK w \in EventWorkers, b \in BOOLEAN :
            epoll' = [epoll EXCEPT ![w].trigger = b]
      BY <2>3
    <3>2. \A v \in EventWorkers :
            epoll'[v] = IF v = w THEN [epoll[w] EXCEPT !.trigger = b] ELSE epoll[v]
      BY <2>1, <3>1
    <3>3. epoll[w] \in EpollRecords
      BY <2>1
    <3>4. /\ [epoll[w] EXCEPT !.trigger = b] \in EpollRecords
          /\ [epoll[w] EXCEPT !.trigger = b].added = epoll[w].added
          /\ [epoll[w] EXCEPT !.trigger = b].enabled = epoll[w].enabled
          /\ [epoll[w] EXCEPT !.trigger = b].events = epoll[w].events
          /\ [epoll[w] EXCEPT !.trigger = b].pop = epoll[w].pop
      BY <3>3 DEF EpollRecords
    <3>5. epoll' \in [EventWorkers -> EpollRecords]
      BY <2>1, <3>1, <3>4
    <3> QED
      BY <3>2, <3>4, <3>5
  <2> QED
    BY <2>2, <2>3
<1>2. WorkersTypes'
  BY <1>1 DEF WorkersInv, WorkersTypes
<1>3. \A d \in Handles : Plain(d)' = Plain(d)
  BY DEF Plain, Processed, AtTimer, AtNaive, InBacklog, InQueue, InKept
<1> QED
  BY <1>1, <1>2, <1>3, Rearranged

\* Events, exits, a missed lock and the stop.
LEMMA OthersKeep ==
  ASSUME WorkersInv,
         \/ \E c \in Handles : EventHappens(c)
         \/ \E w \in Workers : Exits(w)
         \/ NaiveMisses \/ ExecutorStopBegins \/ StopWorker
         \/ UNCHANGED workerVars
  PROVE  WorkersInv'
<1>1. UNCHANGED <<ioWorkerType, m_backlog, m_queue, kept, atProcessor, scheduled>>
  BY DEF EventHappens, Exits, NaiveMisses, ExecutorStopBegins, StopWorker, workerVars
<1>2. \/ epoll' = epoll
      \/ \E w \in EventWorkers : epoll' = [epoll EXCEPT ![w].trigger = TRUE]
  BY DEF EventHappens, Exits, NaiveMisses, ExecutorStopBegins, StopWorker, workerVars
<1> QED
  BY <1>1, <1>2, NobodyMoves

-----------------------------------------------------------------------------
(* The steps of the timer.                                                    *)

\* The backlog joins the queue.
LEMMA TimerConsumesKeeps ==
  ASSUME WorkersInv, TimerConsumes
  PROVE  WorkersInv'
<1>1. /\ m_queue' = [m_queue EXCEPT !["timer"] = @ \o m_backlog["timer"]]
      /\ m_backlog' = [m_backlog EXCEPT !["timer"] = <<>>]
      /\ UNCHANGED <<ioWorkerType, kept, epoll, scheduled, atProcessor>>
  BY DEF TimerConsumes, MovedAll
<1>2. /\ m_queue \in [Workers -> Seq(Handles)] /\ m_backlog \in [Workers -> Seq(Handles)]
      /\ "timer" \in Workers /\ <<>> \in Seq(Handles)
      /\ m_queue["timer"] \o m_backlog["timer"] \in Seq(Handles)
  BY DEF WorkersInv, WorkersTypes, Workers
<1>3. WorkersTypes'
  BY <1>1, <1>2 DEF WorkersInv, WorkersTypes
<1>4. \A w \in Workers \ {"timer"} : m_queue'[w] = m_queue[w] /\ m_backlog'[w] = m_backlog[w]
  BY <1>1, <1>2
<1>5. \A d \in Handles : Plain(d)' = Plain(d)
  <2> SUFFICES ASSUME NEW d \in Handles PROVE Plain(d)' = Plain(d)
    OBVIOUS
  <2>1. InQueue("timer", d)' = InQueue("timer", d) + InBacklog("timer", d)
        /\ InBacklog("timer", d)' = 0
    BY <1>1, <1>2, OccurrencesConcat, OccurrencesEmpty DEF InQueue, InBacklog
  <2>2. /\ InKept(d)' = InKept(d) /\ Processed(d)' = Processed(d)
        /\ AtNaive(d)' = AtNaive(d)
    BY <1>1, <1>4 DEF InKept, Processed, AtNaive, InQueue, InBacklog, Workers
  <2>3. AtTimer(d)' = AtTimer(d)
    BY <2>1, <2>2, PlacesCounted DEF AtTimer, WorkersInv, PlacesAreCounted, Workers
  <2> QED
    BY <2>2, <2>3 DEF Plain
<1> QED
  BY <1>1, <1>3, <1>4, <1>5, Rearranged DEF Workers, EventWorkers

\* The entries the round has passed are the queue again.
LEMMA TimerSleepsKeeps ==
  ASSUME WorkersInv, TimerSleeps
  PROVE  WorkersInv'
<1>1. /\ m_queue["timer"] = <<>> /\ kept' = <<>>
      /\ m_queue' = [m_queue EXCEPT !["timer"] = kept]
      /\ UNCHANGED <<ioWorkerType, m_backlog, epoll, scheduled, atProcessor>>
  BY DEF TimerSleeps
<1>2. /\ m_queue \in [Workers -> Seq(Handles)] /\ kept \in Seq(Handles)
      /\ "timer" \in Workers /\ <<>> \in Seq(Handles)
  BY DEF WorkersInv, WorkersTypes, Workers
<1>3. WorkersTypes'
  BY <1>1, <1>2 DEF WorkersInv, WorkersTypes
<1>4. \A w \in Workers \ {"timer"} : m_queue'[w] = m_queue[w]
  BY <1>1, <1>2
<1>5. \A d \in Handles : Plain(d)' = Plain(d)
  <2> SUFFICES ASSUME NEW d \in Handles PROVE Plain(d)' = Plain(d)
    OBVIOUS
  <2>1. /\ InQueue("timer", d)' = InKept(d) /\ InQueue("timer", d) = 0
        /\ InKept(d)' = 0
    BY <1>1, <1>2, OccurrencesEmpty DEF InQueue, InKept
  <2>2. /\ InBacklog("timer", d)' = InBacklog("timer", d)
        /\ Processed(d)' = Processed(d) /\ AtNaive(d)' = AtNaive(d)
    BY <1>1, <1>4 DEF Processed, AtNaive, InQueue, InBacklog, Workers
  <2>3. AtTimer(d)' = AtTimer(d)
    BY <2>1, <2>2, PlacesCounted DEF AtTimer, WorkersInv, PlacesAreCounted, Workers
  <2> QED
    BY <2>2, <2>3 DEF Plain
<1> QED
  BY <1>1, <1>3, <1>4, <1>5, Rearranged DEF Workers, EventWorkers

\* The head of a queue that is not empty.
LEMMA HeadIsThere ==
  ASSUME WorkersInv, NEW w \in {"timer", "naive"}, m_queue[w] # <<>>
  PROVE  /\ Head(m_queue[w]) \in Handles /\ Tail(m_queue[w]) \in Seq(Handles)
         /\ Unarmed(Head(m_queue[w])) /\ scheduled[Head(m_queue[w])] # Finished
         /\ Head(m_queue[w]) \notin atProcessor
         /\ \A d : InQueue(w, d) = Occurrences(Tail(m_queue[w]), d)
                                     + IF d = Head(m_queue[w]) THEN 1 ELSE 0
<1>1. m_queue[w] \in Seq(Handles)
  BY DEF WorkersInv, WorkersTypes, Workers
<1>2. Head(m_queue[w]) \in Handles /\ Tail(m_queue[w]) \in Seq(Handles)
  BY <1>1, HeadTailProperties
<1>3. \A d : InQueue(w, d) = Occurrences(Tail(m_queue[w]), d)
                               + IF d = Head(m_queue[w]) THEN 1 ELSE 0
  BY <1>1, OccurrencesTail DEF InQueue
<1> DEFINE c == Head(m_queue[w])
<1>4. InQueue(w, c) > 0
  <2>1. Occurrences(Tail(m_queue[w]), c) \in Nat
    BY <1>2, OccurrencesNat
  <2>2. InQueue(w, c) = Occurrences(Tail(m_queue[w]), c) + 1
    BY <1>3
  <2> QED
    BY <2>1, <2>2
<1>5. Unarmed(c) /\ scheduled[c] # Finished /\ Held(c) = 1
  BY <1>2, <1>4, HereIsUnarmed
<1>6. c \notin atProcessor
  <2>1. HeldIsSum /\ PlacesAreCounted
    BY HeldSum, PlacesCounted DEF WorkersInv
  <2>2. AtTimer(c) > 0 \/ AtNaive(c) > 0
    BY <1>4, <2>1 DEF PlacesAreCounted, Workers, AtTimer, AtNaive
  <2>3. Processed(c) # 1
    BY <1>5, <2>1, <2>2 DEF HeldIsSum, PlacesAreCounted, EventWorkers
  <2> QED
    BY <2>3 DEF Processed, Membership
<1> QED
  BY <1>2, <1>3, <1>5, <1>6

\* The head of the queue is kept, or goes back to the processor.
LEMMA TimerVisitsKeeps ==
  ASSUME WorkersInv, TimerVisits
  PROVE  WorkersInv'
<1> DEFINE c == Head(m_queue["timer"])
<1>1. /\ m_queue["timer"] # <<>>
      /\ m_queue' = [m_queue EXCEPT !["timer"] = Tail(@)]
      /\ UNCHANGED <<ioWorkerType, m_backlog, epoll>>
  BY DEF TimerVisits
<1>2. /\ \/ kept' = Append(kept, c) /\ atProcessor' = atProcessor
         \/ kept' = kept /\ atProcessor' = atProcessor \cup {c}
      /\ \/ scheduled' = scheduled
         \/ \E a \in WorkerActions : /\ a # Finished
                                     /\ scheduled' = [scheduled EXCEPT ![c] = a]
  <2>1. CASE /\ ~scheduled[c].due /\ TimerKeeps(c)
             /\ UNCHANGED <<scheduled, awaits, ready, atProcessor>>
    BY <2>1 DEF TimerKeeps
  <2>2. ASSUME NEW a \in Answers(c),
               \/ a.type = "wait repeat" /\ SetScheduled(c, a) /\ TimerKeeps(c)
                  /\ UNCHANGED atProcessor
               \/ a.type = "io wait" /\ SetScheduled(c, WaitRepeat(TRUE)) /\ TimerKeeps(c)
                  /\ UNCHANGED atProcessor
               \/ a.type \in {"io repeat", "other"} /\ SetScheduled(c, a) /\ ToProcessor(c)
                  /\ UNCHANGED kept
        PROVE  /\ \/ kept' = Append(kept, c) /\ atProcessor' = atProcessor
                  \/ kept' = kept /\ atProcessor' = atProcessor \cup {c}
               /\ \E b \in WorkerActions : /\ b # Finished
                                           /\ scheduled' = [scheduled EXCEPT ![c] = b]
    BY <2>2, AnswersAreActions, KindsOfActions DEF TimerKeeps, SetScheduled, ToProcessor
  <2> QED
    BY <2>1, <2>2 DEF TimerVisits
<1>3. /\ c \in Handles /\ Tail(m_queue["timer"]) \in Seq(Handles)
      /\ Unarmed(c) /\ scheduled[c] # Finished /\ c \notin atProcessor
      /\ \A d : InQueue("timer", d) = Occurrences(Tail(m_queue["timer"]), d)
                                        + IF d = c THEN 1 ELSE 0
  BY <1>1, HeadIsThere
<1>4. /\ m_queue \in [Workers -> Seq(Handles)] /\ kept \in Seq(Handles)
      /\ "timer" \in Workers
  BY DEF WorkersInv, WorkersTypes, Workers
<1> HIDE DEF c
<1>5. WorkersTypes'
  <2>1. kept' \in Seq(Handles) /\ atProcessor' \subseteq Handles
    <3>1. Append(kept, c) \in Seq(Handles)
      BY <1>3, <1>4, AppendProperties
    <3>2. atProcessor \subseteq Handles /\ atProcessor \cup {c} \subseteq Handles
      BY <1>3 DEF WorkersInv, WorkersTypes
    <3> QED
      BY <1>2, <1>4, <3>1, <3>2
  <2>2. m_queue' \in [Workers -> Seq(Handles)]
    BY <1>1, <1>3, <1>4
  <2>3. scheduled' \in [Handles -> WorkerActions]
    BY <1>2, <1>3 DEF WorkersInv, WorkersTypes
  <2> QED
    BY <1>1, <2>1, <2>2, <2>3 DEF WorkersInv, WorkersTypes
<1>6. /\ m_queue'["timer"] = Tail(m_queue["timer"])
      /\ \A w \in Workers \ {"timer"} : m_queue'[w] = m_queue[w]
  BY <1>1, <1>4
<1>7. \A d \in Handles : Plain(d)' = Plain(d)
  <2> SUFFICES ASSUME NEW d \in Handles PROVE Plain(d)' = Plain(d)
    OBVIOUS
  <2>1. InQueue("timer", d) = InQueue("timer", d)' + IF d = c THEN 1 ELSE 0
    BY <1>3, <1>6 DEF InQueue
  <2>2. InKept(d)' + Processed(d)' = InKept(d) + Processed(d) + IF d = c THEN 1 ELSE 0
    <3>1. InKept(d) \in Nat /\ Processed(d) \in {0, 1}
      BY PlacesCounted DEF WorkersInv, PlacesAreCounted
    <3>2. CASE kept' = Append(kept, c) /\ atProcessor' = atProcessor
      <4>1. InKept(d)' = InKept(d) + IF d = c THEN 1 ELSE 0
        BY <1>3, <1>4, <3>2, OccurrencesAppend DEF InKept
      <4>2. Processed(d)' = Processed(d)
        BY <3>2 DEF Processed
      <4> QED
        BY <3>1, <4>1, <4>2
    <3>3. CASE kept' = kept /\ atProcessor' = atProcessor \cup {c}
      <4>1. Processed(d)' = Processed(d) + IF d = c THEN 1 ELSE 0
        BY <1>3, <3>3 DEF Processed, Membership
      <4>2. InKept(d)' = InKept(d)
        BY <3>3 DEF InKept
      <4> QED
        BY <3>1, <4>1, <4>2
    <3> QED
      BY <1>2, <3>2, <3>3
  <2>3. /\ InBacklog("timer", d)' = InBacklog("timer", d)
        /\ AtNaive(d)' = AtNaive(d)
    BY <1>1, <1>6 DEF AtNaive, InQueue, InBacklog, Workers
  <2>4. PlacesAreCounted /\ PlacesAreCounted'
    BY <1>5, PlacesNowAndThen DEF WorkersInv
  <2> QED
    BY <2>1, <2>2, <2>3, <2>4 DEF Plain, AtTimer, PlacesAreCounted, Workers
<1> QED
  BY <1>1, <1>2, <1>3, <1>5, <1>6, <1>7, Rearranged DEF Workers, EventWorkers

-----------------------------------------------------------------------------
(* The steps of the naive I/O worker.                                         *)

\* Its queue takes the whole backlog.
LEMMA NaiveTakesBacklog ==
  ASSUME WorkersInv,
         m_queue' = [m_queue EXCEPT !["naive"] = @ \o m_backlog["naive"]],
         m_backlog' = [m_backlog EXCEPT !["naive"] = <<>>],
         UNCHANGED <<ioWorkerType, kept, epoll, scheduled, atProcessor>>
  PROVE  WorkersInv'
<1>1. /\ m_queue \in [Workers -> Seq(Handles)] /\ m_backlog \in [Workers -> Seq(Handles)]
      /\ "naive" \in Workers /\ <<>> \in Seq(Handles)
      /\ m_queue["naive"] \o m_backlog["naive"] \in Seq(Handles)
  BY DEF WorkersInv, WorkersTypes, Workers
<1>2. WorkersTypes'
  BY <1>1 DEF WorkersInv, WorkersTypes
<1>3. \A w \in Workers \ {"naive"} : m_queue'[w] = m_queue[w] /\ m_backlog'[w] = m_backlog[w]
  BY <1>1
<1>4. \A d \in Handles : Plain(d)' = Plain(d)
  <2> SUFFICES ASSUME NEW d \in Handles PROVE Plain(d)' = Plain(d)
    OBVIOUS
  <2>1. InQueue("naive", d)' = InQueue("naive", d) + InBacklog("naive", d)
        /\ InBacklog("naive", d)' = 0
    BY <1>1, OccurrencesConcat, OccurrencesEmpty DEF InQueue, InBacklog
  <2>2. Processed(d)' = Processed(d) /\ AtTimer(d)' = AtTimer(d)
    BY <1>3 DEF InKept, Processed, AtTimer, InQueue, InBacklog, Workers
  <2>3. AtNaive(d)' = AtNaive(d)
    BY <2>1, PlacesCounted DEF AtNaive, WorkersInv, PlacesAreCounted, Workers
  <2> QED
    BY <2>2, <2>3 DEF Plain
<1> QED
  BY <1>2, <1>3, <1>4, Rearranged DEF Workers, EventWorkers

\* Both ways of taking the backlog; the first finds the queue empty.
LEMMA NaiveConsumesKeeps ==
  ASSUME WorkersInv, NaiveConsumes \/ NaiveLooks
  PROVE  WorkersInv'
<1>1. /\ m_backlog' = [m_backlog EXCEPT !["naive"] = <<>>]
      /\ UNCHANGED <<ioWorkerType, kept, epoll, scheduled, atProcessor>>
  BY DEF NaiveConsumes, NaiveLooks
<1>2. m_backlog["naive"] \in Seq(Handles)
  BY DEF WorkersInv, WorkersTypes, Workers
<1>3. m_queue' = [m_queue EXCEPT !["naive"] = @ \o m_backlog["naive"]]
  <2>1. CASE NaiveLooks
    BY <2>1 DEF NaiveLooks, MovedAll
  <2>2. CASE NaiveConsumes
    <3>1. m_queue["naive"] = <<>> /\ m_queue' = [m_queue EXCEPT !["naive"] = m_backlog["naive"]]
      BY <2>2 DEF NaiveConsumes, NaiveQueue
    <3>2. <<>> \o m_backlog["naive"] = m_backlog["naive"]
      BY <1>2
    <3> QED
      BY <3>1, <3>2
  <2> QED
    BY <2>1, <2>2
<1> QED
  BY <1>1, <1>3, NaiveTakesBacklog

\* The head stays, goes to the end, or goes back to the processor.
LEMMA NaivePollsKeeps ==
  ASSUME WorkersInv, NaivePolls
  PROVE  WorkersInv'
<1> DEFINE c == Head(m_queue["naive"])
           q == m_queue["naive"]
<1>1. q # <<>> /\ UNCHANGED <<ioWorkerType, m_backlog, kept, epoll>>
  BY DEF NaivePolls, NaiveQueue
<1>2. /\ \/ atProcessor' = atProcessor /\ m_queue' = m_queue
         \/ atProcessor' = atProcessor /\ m_queue' = [m_queue EXCEPT !["naive"] = Rounded(q)]
         \/ atProcessor' = atProcessor \cup {c}
            /\ m_queue' = [m_queue EXCEPT !["naive"] = Tail(q)]
      /\ \/ scheduled' = scheduled
         \/ \E a \in WorkerActions : /\ a # Finished
                                     /\ scheduled' = [scheduled EXCEPT ![c] = a]
  <2>1. PICK a \in Answers(c) : NaiveTakes(c, a)
    BY DEF NaivePolls, NaiveQueue
  <2>2. m_queue = [m_queue EXCEPT !["naive"] = m_queue["naive"]]
    BY DEF WorkersInv, WorkersTypes
  <2>3. a \in WorkerActions /\ a # Finished
    BY AnswersAreActions
  <2>4. CASE a.type = "io repeat"
    BY <2>1, <2>2, <2>3, <2>4 DEF NaiveTakes, SetScheduled
  <2>5. CASE a.type = "io wait"
    BY <2>1, <2>3, <2>5, KindsOfActions DEF NaiveTakes, SetScheduled, ToProcessor
  <2>6. CASE a.type \in {"wait repeat", "other"}
    BY <2>1, <2>3, <2>6 DEF NaiveTakes, SetScheduled, ToProcessor
  <2> QED
    BY <2>1, <2>4, <2>5, <2>6 DEF NaiveTakes
<1>3. /\ c \in Handles /\ Tail(q) \in Seq(Handles)
      /\ Unarmed(c) /\ scheduled[c] # Finished /\ c \notin atProcessor
      /\ \A d : InQueue("naive", d) = Occurrences(Tail(q), d) + IF d = c THEN 1 ELSE 0
  BY <1>1, HeadIsThere
<1>4. /\ m_queue \in [Workers -> Seq(Handles)] /\ "naive" \in Workers /\ q \in Seq(Handles)
  BY DEF WorkersInv, WorkersTypes, Workers
<1>5. /\ Rounded(q) \in Seq(Handles)
      /\ \A d : Occurrences(Rounded(q), d) = Occurrences(q, d)
  <2>1. Rounded(q) = Append(Tail(q), c)
    BY <1>3 DEF Rounded
  <2>2. Rounded(q) \in Seq(Handles)
    BY <1>3, <2>1, AppendProperties
  <2>3. \A d : Occurrences(Rounded(q), d)
                 = Occurrences(Tail(q), d) + IF d = c THEN 1 ELSE 0
    <3>1. \A d : Occurrences(Append(Tail(q), c), d)
                   = Occurrences(Tail(q), d) + IF d = c THEN 1 ELSE 0
      <4> HIDE DEF c, q
      <4> QED
        BY <1>3, OccurrencesAppend
    <3> QED
      BY <2>1, <3>1
  <2> QED
    BY <1>3, <2>2, <2>3 DEF InQueue
<1> HIDE DEF c
<1>6. WorkersTypes'
  <2>1. atProcessor \subseteq Handles /\ atProcessor \cup {c} \subseteq Handles
    BY <1>3 DEF WorkersInv, WorkersTypes
  <2>2. m_queue' \in [Workers -> Seq(Handles)]
    BY <1>2, <1>3, <1>4, <1>5
  <2>3. scheduled' \in [Handles -> WorkerActions]
    BY <1>2, <1>3 DEF WorkersInv, WorkersTypes
  <2> QED
    BY <1>1, <1>2, <2>1, <2>2, <2>3 DEF WorkersInv, WorkersTypes
<1>7. \A w \in Workers \ {"naive"} : m_queue'[w] = m_queue[w]
  BY <1>2, <1>4
<1>8. \A d \in Handles : Plain(d)' = Plain(d)
  <2> SUFFICES ASSUME NEW d \in Handles PROVE Plain(d)' = Plain(d)
    OBVIOUS
  <2>1. InBacklog("naive", d)' = InBacklog("naive", d) /\ AtTimer(d)' = AtTimer(d)
    BY <1>1, <1>7 DEF AtTimer, InQueue, InBacklog, InKept, Workers
  <2>2. PlacesAreCounted /\ PlacesAreCounted'
    BY <1>6, PlacesNowAndThen DEF WorkersInv
  <2>3. CASE /\ atProcessor' = atProcessor
             /\ m_queue' = m_queue \/ m_queue' = [m_queue EXCEPT !["naive"] = Rounded(q)]
    <3>1. InQueue("naive", d)' = InQueue("naive", d) /\ Processed(d)' = Processed(d)
      BY <1>4, <1>5, <2>3 DEF InQueue, Processed
    <3> QED
      BY <2>1, <3>1 DEF Plain, AtNaive
  <2>4. CASE /\ atProcessor' = atProcessor \cup {c}
             /\ m_queue' = [m_queue EXCEPT !["naive"] = Tail(q)]
    <3>1. InQueue("naive", d) = InQueue("naive", d)' + IF d = c THEN 1 ELSE 0
      BY <1>3, <1>4, <2>4 DEF InQueue
    <3>2. Processed(d)' = Processed(d) + IF d = c THEN 1 ELSE 0
      BY <1>3, <2>4 DEF Processed, Membership
    <3> QED
      BY <2>1, <2>2, <3>1, <3>2 DEF Plain, AtNaive, PlacesAreCounted, Workers
  <2> QED
    BY <1>2, <2>3, <2>4
<1> QED
  BY <1>1, <1>2, <1>3, <1>6, <1>7, <1>8, Rearranged DEF Workers, EventWorkers

-----------------------------------------------------------------------------
(* The steps of the event workers, and the hand-over to them.                 *)

\* Pushing moves the coroutines into one backlog; of epoll it changes a trigger at most.
LEMMA Pushing ==
  ASSUME WorkersInv, NEW w \in Workers, NEW moved \in Seq(Handles), NEW ep,
         ep \in [EventWorkers -> EpollRecords], PushTo(w, moved, ep)
  PROVE  /\ m_backlog' \in [Workers -> Seq(Handles)]
         /\ epoll' \in [EventWorkers -> EpollRecords]
         /\ \A v \in Workers \ {w} : m_backlog'[v] = m_backlog[v]
         /\ \A d : InBacklog(w, d)' = InBacklog(w, d) + Occurrences(moved, d)
         /\ \A v \in EventWorkers :
              /\ epoll'[v].added = ep[v].added /\ epoll'[v].enabled = ep[v].enabled
              /\ epoll'[v].events = ep[v].events /\ epoll'[v].pop = ep[v].pop
<1>1. /\ m_backlog' = [m_backlog EXCEPT ![w] = @ \o moved]
      /\ epoll' = ep \/ (w \in EventWorkers /\ epoll' = [ep EXCEPT ![w].trigger = TRUE])
  BY DEF PushTo, MovedAll
<1>2. /\ m_backlog \in [Workers -> Seq(Handles)] /\ m_backlog[w] \in Seq(Handles)
      /\ m_backlog[w] \o moved \in Seq(Handles)
  BY DEF WorkersInv, WorkersTypes
<1>3. /\ m_backlog' \in [Workers -> Seq(Handles)]
      /\ m_backlog'[w] = m_backlog[w] \o moved
      /\ \A v \in Workers \ {w} : m_backlog'[v] = m_backlog[v]
  BY <1>1, <1>2
<1>4. \A d : InBacklog(w, d)' = InBacklog(w, d) + Occurrences(moved, d)
  BY <1>2, <1>3, OccurrencesConcat DEF InBacklog
<1>5. /\ epoll' \in [EventWorkers -> EpollRecords]
      /\ \A v \in EventWorkers :
           /\ epoll'[v].added = ep[v].added /\ epoll'[v].enabled = ep[v].enabled
           /\ epoll'[v].events = ep[v].events /\ epoll'[v].pop = ep[v].pop
  <2>1. CASE epoll' = ep
    BY <2>1
  <2>2. CASE w \in EventWorkers /\ epoll' = [ep EXCEPT ![w].trigger = TRUE]
    <3>1. \A v \in EventWorkers :
            epoll'[v] = IF v = w THEN [ep[w] EXCEPT !.trigger = TRUE] ELSE ep[v]
      BY <2>2
    <3>2. ep[w] \in EpollRecords
      BY <2>2
    <3>3. /\ [ep[w] EXCEPT !.trigger = TRUE] \in EpollRecords
          /\ [ep[w] EXCEPT !.trigger = TRUE].added = ep[w].added
          /\ [ep[w] EXCEPT !.trigger = TRUE].enabled = ep[w].enabled
          /\ [ep[w] EXCEPT !.trigger = TRUE].events = ep[w].events
          /\ [ep[w] EXCEPT !.trigger = TRUE].pop = ep[w].pop
      BY <3>2 DEF EpollRecords
    <3>4. epoll' \in [EventWorkers -> EpollRecords]
      BY <2>2, <3>3
    <3> QED
      BY <3>1, <3>3, <3>4
  <2> QED
    BY <1>1, <2>1, <2>2
<1> QED
  BY <1>3, <1>4, <1>5

\* There are two of them.
LEMMA PeerIsTheOther ==
  ASSUME NEW w \in EventWorkers
  PROVE  Peer(w) \in EventWorkers /\ Peer(w) # w
<1>1. \E v \in EventWorkers : v # w
  <2>1. "reader" \in EventWorkers /\ "writer" \in EventWorkers
    BY DEF EventWorkers
  <2> QED
    BY <2>1
<1> QED
  BY <1>1, Zenon DEF Peer

\* What an event worker holds of a coroutine is natural.
LEMMA EventsCounted ==
  ASSUME WorkersInv, NEW c
  PROVE  \A v \in EventWorkers : /\ InBacklog(v, c) \in Nat /\ InQueue(v, c) \in Nat
                                 /\ InPop(v, c) \in Nat /\ Registered(v, c) \in Nat
                                 /\ AtEvents(v, c) \in Nat
BY PlacesCounted DEF WorkersInv, PlacesAreCounted, Workers, EventWorkers

\* A coroutine that an event worker has, in whatever way, is there once and nowhere else.
LEMMA EventsHoldOnce ==
  ASSUME WorkersInv, NEW w \in EventWorkers, NEW c \in Handles, AtEvents(w, c) >= 1
  PROVE  /\ scheduled[c] # Finished /\ c \notin atProcessor /\ AtEvents(w, c) = 1
         /\ \A v \in EventWorkers \ {w} : InBacklog(v, c) = 0 /\ InPop(v, c) = 0
                                          /\ c \notin epoll[v].added
<1>1. HeldIsSum /\ PlacesAreCounted
  BY HeldSum, PlacesCounted DEF WorkersInv
<1>2. Held(c) = IF scheduled[c] = Finished THEN 0 ELSE 1
  BY DEF WorkersInv, HeldInOnePlace
<1>3. Processed(c) \in Nat /\ AtTimer(c) \in Nat /\ AtNaive(c) \in Nat
  BY <1>1 DEF PlacesAreCounted
<1>4. Held(c) = Processed(c) + AtTimer(c) + AtNaive(c)
                  + AtEvents("reader", c) + AtEvents("writer", c)
  BY <1>1, Zenon DEF HeldIsSum
<1>5. /\ Held(c) = 1 /\ Processed(c) = 0 /\ AtEvents(w, c) = 1
      /\ \A v \in EventWorkers \ {w} : AtEvents(v, c) = 0
  <2>1. Held(c) \in {0, 1}
    BY <1>2
  <2>2. AtEvents("reader", c) \in Nat /\ AtEvents("writer", c) \in Nat
    BY EventsCounted DEF EventWorkers
  <2>3. CASE w = "reader"
    BY <1>3, <1>4, <2>1, <2>2, <2>3 DEF EventWorkers
  <2>4. CASE w = "writer"
    BY <1>3, <1>4, <2>1, <2>2, <2>4 DEF EventWorkers
  <2> QED
    BY <2>3, <2>4 DEF EventWorkers
<1>6. \A v \in EventWorkers \ {w} : InBacklog(v, c) = 0 /\ InPop(v, c) = 0
                                    /\ Registered(v, c) = 0
  BY <1>5, EventsCounted DEF AtEvents
<1>7. c \notin atProcessor /\ \A v \in EventWorkers \ {w} : c \notin epoll[v].added
  BY <1>5, <1>6 DEF Processed, Registered, Membership
<1> QED
  BY <1>2, <1>5, <1>6, <1>7

\* A coroutine that is registered is with that worker alone, and only registered.
LEMMA RegisteredIsAlone ==
  ASSUME WorkersInv, NEW w \in EventWorkers, NEW c \in epoll[w].added
  PROVE  /\ c \in Handles /\ scheduled[c] # Finished /\ c \notin atProcessor
         /\ \A v \in EventWorkers : InBacklog(v, c) = 0 /\ InPop(v, c) = 0
         /\ \A v \in EventWorkers \ {w} : c \notin epoll[v].added
<1>1. c \in Handles
  BY DEF WorkersInv, WorkersTypes, EpollRecords
<1>2. Registered(w, c) = 1
  BY DEF Registered, Membership
<1>3. AtEvents(w, c) >= 1
  BY <1>2, EventsCounted DEF AtEvents
<1>4. AtEvents(w, c) = 1
  BY <1>1, <1>3, EventsHoldOnce
<1>5. InBacklog(w, c) = 0 /\ InPop(w, c) = 0
  BY <1>2, <1>4, EventsCounted DEF AtEvents
<1> QED
  BY <1>1, <1>3, <1>5, EventsHoldOnce

\* Who waits in the backlog is not registered yet, and is there once.
LEMMA BackloggedIsAlone ==
  ASSUME WorkersInv, NEW w \in EventWorkers, NEW c \in Handles, InBacklog(w, c) > 0
  PROVE  /\ InBacklog(w, c) = 1 /\ c \notin epoll[w].added /\ InPop(w, c) = 0
         /\ c \notin epoll[Peer(w)].added
<1>1. AtEvents(w, c) >= 1
  BY EventsCounted DEF AtEvents
<1>2. AtEvents(w, c) = 1
  BY <1>1, EventsHoldOnce
<1>3. InBacklog(w, c) = 1 /\ Registered(w, c) = 0 /\ InPop(w, c) = 0
  BY <1>2, EventsCounted DEF AtEvents
<1>4. c \notin epoll[w].added
  BY <1>3 DEF Registered, Membership
<1>5. c \notin epoll[Peer(w)].added
  <2>1. Peer(w) \in EventWorkers \ {w}
    BY PeerIsTheOther
  <2> QED
    BY <1>1, <2>1, EventsHoldOnce
<1> QED
  BY <1>3, <1>4, <1>5

\* A step of the event workers that leaves every coroutine held as often.
LEMMA HeldAgain ==
  ASSUME WorkersTypes, WorkersTypes', NEW d,
         AtTimer(d)' = AtTimer(d), AtNaive(d)' = AtNaive(d),
         Processed(d)' + AtEvents("reader", d)' + AtEvents("writer", d)'
           = Processed(d) + AtEvents("reader", d) + AtEvents("writer", d)
  PROVE  Held(d)' = Held(d)
<1>1. HeldIsSum /\ HeldIsSum' /\ PlacesAreCounted /\ PlacesAreCounted'
  BY PlacesNowAndThen
<1>2. /\ AtTimer(d) \in Nat /\ AtNaive(d) \in Nat /\ Processed(d) \in Nat
      /\ AtEvents("reader", d) \in Nat /\ AtEvents("writer", d) \in Nat
      /\ Processed(d)' \in Nat
      /\ AtEvents("reader", d)' \in Nat /\ AtEvents("writer", d)' \in Nat
  BY <1>1 DEF PlacesAreCounted, EventWorkers
<1>3. /\ Held(d) = Processed(d) + AtTimer(d) + AtNaive(d)
                     + AtEvents("reader", d) + AtEvents("writer", d)
      /\ Held(d)' = Processed(d)' + AtTimer(d)' + AtNaive(d)'
                     + AtEvents("reader", d)' + AtEvents("writer", d)'
  BY <1>1, Zenon DEF HeldIsSum
<1>4. Held(d) = (Processed(d) + AtEvents("reader", d) + AtEvents("writer", d))
                + (AtTimer(d) + AtNaive(d))
  BY <1>2, <1>3
<1>5. Held(d)' = (Processed(d)' + AtEvents("reader", d)' + AtEvents("writer", d)')
                 + (AtTimer(d) + AtNaive(d))
  BY <1>2, <1>3
<1> QED
  BY <1>4, <1>5, Zenon

\* From the processor to the backlog of the worker for the action.
LEMMA ProcessorHandsOverKeeps ==
  ASSUME WorkersInv, NEW c \in Handles, ProcessorHandsOver(c)
  PROVE  WorkersInv'
<1>1. /\ c \in atProcessor /\ scheduled[c].type # "other"
      /\ atProcessor' = atProcessor \ {c} /\ PushTo(WorkerFor(scheduled[c]), <<c>>, epoll)
      /\ UNCHANGED <<ioWorkerType, m_queue, kept, scheduled>>
  BY DEF ProcessorHandsOver
<1>2. scheduled[c] # Finished /\ \A v \in EventWorkers : c \notin epoll[v].added
  BY <1>1, HereIsUnarmed DEF Processed, Membership
<1>3. \/ scheduled[c].type = "wait repeat"
      \/ IsIO(scheduled[c]) /\ scheduled[c].event \in EventWorkers
  <2>1. scheduled[c] \in WorkerActions
    BY DEF WorkersInv, WorkersTypes
  <2> QED
    BY <1>1, <1>2, <2>1, KindsOfActions DEF WorkerActions
<1>4. PICK w \in Workers :
        /\ w = WorkerFor(scheduled[c])
        /\ w \in EventWorkers => IsIO(scheduled[c]) /\ scheduled[c].event = w
  <2> DEFINE v == WorkerFor(scheduled[c])
  <2>1. CASE scheduled[c].type = "wait repeat"
    <3>1. v = "timer"
      BY <2>1 DEF WorkerFor
    <3> QED
      BY <3>1 DEF Workers, EventWorkers
  <2>2. CASE /\ scheduled[c].type # "wait repeat"
             /\ IsIO(scheduled[c]) /\ scheduled[c].event \in EventWorkers
    <3>1. v = "naive" \/ v = scheduled[c].event
      BY <2>2 DEF WorkerFor
    <3> QED
      BY <2>2, <3>1 DEF Workers, EventWorkers
  <2> QED
    BY <1>3, <2>1, <2>2
<1>5. <<c>> \in Seq(Handles) /\ epoll \in [EventWorkers -> EpollRecords]
  BY DEF WorkersInv, WorkersTypes
<1>6. /\ m_backlog' \in [Workers -> Seq(Handles)]
      /\ epoll' \in [EventWorkers -> EpollRecords]
      /\ \A v \in Workers \ {w} : m_backlog'[v] = m_backlog[v]
      /\ \A d : InBacklog(w, d)' = InBacklog(w, d) + IF d = c THEN 1 ELSE 0
      /\ \A v \in EventWorkers :
           /\ epoll'[v].added = epoll[v].added /\ epoll'[v].enabled = epoll[v].enabled
           /\ epoll'[v].events = epoll[v].events /\ epoll'[v].pop = epoll[v].pop
  <2>1. \A d : InBacklog(w, d)' = InBacklog(w, d) + Occurrences(<<c>>, d)
    BY <1>1, <1>4, <1>5, Pushing
  <2>2. \A d : Occurrences(<<c>>, d) = IF d = c THEN 1 ELSE 0
    BY OccurrencesOne
  <2>3. /\ m_backlog' \in [Workers -> Seq(Handles)]
        /\ epoll' \in [EventWorkers -> EpollRecords]
        /\ \A v \in Workers \ {w} : m_backlog'[v] = m_backlog[v]
        /\ \A v \in EventWorkers :
             /\ epoll'[v].added = epoll[v].added /\ epoll'[v].enabled = epoll[v].enabled
             /\ epoll'[v].events = epoll[v].events /\ epoll'[v].pop = epoll[v].pop
    BY <1>1, <1>4, <1>5, Pushing
  <2> QED
    BY <2>1, <2>2, <2>3
<1>7. WorkersTypes'
  BY <1>1, <1>6 DEF WorkersInv, WorkersTypes
<1>8. \A d : Processed(d) = Processed(d)' + IF d = c THEN 1 ELSE 0
  BY <1>1 DEF Processed, Membership
<1>9. PlacesAreCounted /\ PlacesAreCounted'
  BY <1>7, PlacesNowAndThen DEF WorkersInv
<1>10. CASE w \in {"timer", "naive"}
  <2>1. \A d \in Handles : Plain(d)' = Plain(d)
    <3> SUFFICES ASSUME NEW d \in Handles PROVE Plain(d)' = Plain(d)
      OBVIOUS
    <3>1. /\ InQueue("timer", d)' = InQueue("timer", d) /\ InKept(d)' = InKept(d)
          /\ InQueue("naive", d)' = InQueue("naive", d)
      BY <1>1 DEF InQueue, InKept
    <3>2. InBacklog("timer", d)' + InBacklog("naive", d)'
            = InBacklog("timer", d) + InBacklog("naive", d) + IF d = c THEN 1 ELSE 0
      <4>1. InBacklog("timer", d) \in Nat /\ InBacklog("naive", d) \in Nat
        BY <1>9 DEF PlacesAreCounted, Workers
      <4>2. \A v \in {"timer", "naive"} \ {w} : InBacklog(v, d)' = InBacklog(v, d)
        BY <1>6 DEF InBacklog, Workers
      <4> QED
        <5>1. CASE w = "timer"
          BY <1>6, <4>1, <4>2, <5>1
        <5>2. CASE w = "naive"
          BY <1>6, <4>1, <4>2, <5>2
        <5> QED
          BY <1>10, <5>1, <5>2
    <3>3. /\ InBacklog("timer", d) \in Nat /\ InBacklog("naive", d) \in Nat
          /\ InBacklog("timer", d)' \in Nat /\ InBacklog("naive", d)' \in Nat
          /\ InQueue("timer", d) \in Nat /\ InQueue("naive", d) \in Nat
          /\ InKept(d) \in Nat /\ Processed(d) \in Nat /\ Processed(d)' \in Nat
      BY <1>9 DEF PlacesAreCounted, Workers
    <3> QED
      BY <1>8, <3>1, <3>2, <3>3 DEF Plain, AtTimer, AtNaive
  <2> QED
    BY <1>1, <1>6, <1>7, <1>10, <2>1, Rearranged DEF Workers, EventWorkers
<1>11. CASE w \in EventWorkers
  <2>1. \A d \in Handles : Held(d)' = Held(d)
    <3> SUFFICES ASSUME NEW d \in Handles PROVE Held(d)' = Held(d)
      OBVIOUS
    <3>1. AtTimer(d)' = AtTimer(d) /\ AtNaive(d)' = AtNaive(d)
      BY <1>1, <1>6, <1>11
      DEF AtTimer, AtNaive, InBacklog, InQueue, InKept, Workers, EventWorkers
    <3>2. \A v \in EventWorkers : /\ InQueue(v, d)' = InQueue(v, d)
                                  /\ Registered(v, d)' = Registered(v, d)
                                  /\ InPop(v, d)' = InPop(v, d)
      BY <1>1, <1>6 DEF InQueue, Registered, InPop
    <3>3. \A v \in EventWorkers \ {w} : InBacklog(v, d)' = InBacklog(v, d)
      BY <1>6 DEF InBacklog, Workers, EventWorkers
    <3>4. \A v \in EventWorkers : /\ InBacklog(v, d) \in Nat /\ InQueue(v, d) \in Nat
                                  /\ InPop(v, d) \in Nat /\ Registered(v, d) \in Nat
      BY <1>9 DEF PlacesAreCounted, Workers, EventWorkers
    <3>5. /\ \A v \in EventWorkers \ {w} : AtEvents(v, d)' = AtEvents(v, d)
          /\ AtEvents(w, d)' = AtEvents(w, d) + IF d = c THEN 1 ELSE 0
      <4>1. InBacklog(w, d)' = InBacklog(w, d) + IF d = c THEN 1 ELSE 0
        BY <1>6
      <4>2. \A v \in EventWorkers \ {w} : AtEvents(v, d)' = AtEvents(v, d)
        BY <3>2, <3>3 DEF AtEvents
      <4> QED
        BY <1>11, <3>2, <3>4, <4>1, <4>2 DEF AtEvents
    <3>6. /\ AtEvents("reader", d) \in Nat /\ AtEvents("writer", d) \in Nat
          /\ Processed(d) \in Nat /\ Processed(d)' \in Nat
      BY <1>9 DEF PlacesAreCounted, EventWorkers
    <3>7. Processed(d)' + AtEvents("reader", d)' + AtEvents("writer", d)'
            = Processed(d) + AtEvents("reader", d) + AtEvents("writer", d)
      <4>1. CASE w = "reader"
        <5>1. /\ AtEvents("reader", d)' = AtEvents("reader", d) + IF d = c THEN 1 ELSE 0
              /\ AtEvents("writer", d)' = AtEvents("writer", d)
          BY <3>5, <4>1 DEF EventWorkers
        <5> QED
          BY <1>8, <3>6, <5>1
      <4>2. CASE w = "writer"
        <5>1. /\ AtEvents("writer", d)' = AtEvents("writer", d) + IF d = c THEN 1 ELSE 0
              /\ AtEvents("reader", d)' = AtEvents("reader", d)
          BY <3>5, <4>2 DEF EventWorkers
        <5> QED
          BY <1>8, <3>6, <5>1
      <4> QED
        BY <1>11, <4>1, <4>2 DEF EventWorkers
    <3> QED
      BY <1>7, <3>1, <3>7, HeldAgain DEF WorkersInv
  <2>2. HeldInOnePlace'
    BY <1>1, <2>1 DEF WorkersInv, HeldInOnePlace
  <2>3. ArmedForItsEvent' /\ OneShot'
    BY <1>1, <1>6 DEF WorkersInv, ArmedForItsEvent, OneShot
  <2>4. ComeForTheirEvent'
    <3>1. \A v \in EventWorkers, d \in Handles :
            /\ InPop(v, d)' = InPop(v, d)
            /\ InBacklog(v, d)' > 0 => InBacklog(v, d) > 0 \/ (v = w /\ d = c)
      <4>1. \A v \in EventWorkers \ {w}, d \in Handles : InBacklog(v, d)' = InBacklog(v, d)
        BY <1>6 DEF InBacklog, Workers, EventWorkers
      <4>2. \A d \in Handles : d # c => InBacklog(w, d)' = InBacklog(w, d)
        <5>1. \A d \in Handles : InBacklog(w, d) \in Nat
          BY <1>9 DEF PlacesAreCounted
        <5> QED
          BY <1>6, <5>1
      <4>3. \A v \in EventWorkers, d \in Handles : InPop(v, d)' = InPop(v, d)
        BY <1>6 DEF InPop
      <4>4. \A v \in EventWorkers, d \in Handles :
              InBacklog(v, d)' = InBacklog(v, d) \/ (v = w /\ d = c)
        BY <4>1, <4>2
      <4> QED
        BY <4>3, <4>4
    <3> QED
      BY <1>1, <1>4, <1>11, <3>1 DEF WorkersInv, ComeForTheirEvent, InBacklog, InPop
  <2> QED
    BY <1>7, <2>2, <2>3, <2>4 DEF WorkersInv
<1> QED
  BY <1>4, <1>10, <1>11 DEF Workers, EventWorkers

\* The coroutine ends and is nowhere.
LEMMA ProcessorFinishesKeeps ==
  ASSUME WorkersInv, NEW c \in Handles, ProcessorFinishes(c)
  PROVE  WorkersInv'
<1>1. /\ c \in atProcessor /\ atProcessor' = atProcessor \ {c}
      /\ scheduled' = [scheduled EXCEPT ![c] = Finished]
      /\ UNCHANGED <<ioWorkerType, m_backlog, m_queue, kept, epoll>>
  BY DEF ProcessorFinishes, SetScheduled
<1>2. Unarmed(c) /\ scheduled[c] # Finished /\ Held(c) = 1
  BY <1>1, HereIsUnarmed DEF Processed, Membership
<1>3. WorkersTypes'
  BY <1>1, KindsOfActions DEF WorkersInv, WorkersTypes
<1>4. \A d \in Handles : Held(d) = Held(d)' + IF d = c THEN 1 ELSE 0
  <2> SUFFICES ASSUME NEW d \in Handles
               PROVE  Held(d) = Held(d)' + IF d = c THEN 1 ELSE 0
    OBVIOUS
  <2>1. HeldIsSum /\ HeldIsSum' /\ PlacesAreCounted
    BY <1>3, PlacesNowAndThen DEF WorkersInv
  <2>2. /\ AtTimer(d)' = AtTimer(d) /\ AtNaive(d)' = AtNaive(d)
        /\ AtEvents("reader", d)' = AtEvents("reader", d)
        /\ AtEvents("writer", d)' = AtEvents("writer", d)
    BY <1>1 DEF AtTimer, AtNaive, AtEvents, InBacklog, InQueue, InKept, InPop, Registered
  <2>3. Processed(d) = Processed(d)' + IF d = c THEN 1 ELSE 0
    BY <1>1 DEF Processed, Membership
  <2>4. /\ AtTimer(d) \in Nat /\ AtNaive(d) \in Nat /\ Processed(d)' \in {0, 1}
        /\ AtEvents("reader", d) \in Nat /\ AtEvents("writer", d) \in Nat
    BY <2>1 DEF PlacesAreCounted, EventWorkers, Processed, Membership
  <2>5. /\ Held(d) = Processed(d) + AtTimer(d) + AtNaive(d)
                       + AtEvents("reader", d) + AtEvents("writer", d)
        /\ Held(d)' = Processed(d)' + AtTimer(d)' + AtNaive(d)'
                       + AtEvents("reader", d)' + AtEvents("writer", d)'
    BY <2>1, Zenon DEF HeldIsSum
  <2> QED
    BY <2>2, <2>3, <2>4, <2>5
<1>5. HeldInOnePlace'
  <2>1. \A d \in Handles : Held(d) = IF scheduled[d] = Finished THEN 0 ELSE 1
    BY DEF WorkersInv, HeldInOnePlace
  <2>2. HeldIsSum' /\ PlacesAreCounted'
    BY <1>3, PlacesNowAndThen DEF WorkersInv
  <2>3. \A d \in Handles : Held(d)' \in Int
    BY <2>2 DEF HeldIsSum, PlacesAreCounted, EventWorkers
  <2>4. \A d \in Handles : scheduled'[d] = IF d = c THEN Finished ELSE scheduled[d]
    BY <1>1 DEF WorkersInv, WorkersTypes
  <2>5. \A d \in Handles : Held(d)' = IF scheduled'[d] = Finished THEN 0 ELSE 1
    BY <1>2, <1>4, <2>1, <2>3, <2>4
  <2> QED
    BY <2>5 DEF HeldInOnePlace
<1>6. \A w \in EventWorkers, d \in Handles :
        \/ scheduled'[d] = scheduled[d]
        \/ /\ d \notin epoll[w].enabled \cup epoll[w].events
           /\ InBacklog(w, d) = 0 /\ InPop(w, d) = 0
  BY <1>1, <1>2 DEF WorkersInv, WorkersTypes, Unarmed
<1>7. \A w \in EventWorkers : /\ epoll[w].enabled \subseteq Handles
                              /\ epoll[w].events \subseteq Handles
  BY DEF WorkersInv, WorkersTypes, EpollRecords
<1>8. ArmedForItsEvent' /\ OneShot'
  BY <1>1, <1>6, <1>7 DEF WorkersInv, ArmedForItsEvent, OneShot
<1>9. ComeForTheirEvent'
  BY <1>1, <1>6 DEF WorkersInv, ComeForTheirEvent, InBacklog, InPop
<1> QED
  BY <1>3, <1>5, <1>8, <1>9 DEF WorkersInv

\* The record of an event worker after a step, field by field.
LEMMA OneRecordChanges ==
  ASSUME WorkersInv, NEW w \in EventWorkers, NEW r \in EpollRecords,
         epoll' = [epoll EXCEPT ![w] = r]
  PROVE  /\ epoll' \in [EventWorkers -> EpollRecords]
         /\ epoll'[w] = r /\ \A v \in EventWorkers \ {w} : epoll'[v] = epoll[v]
BY DEF WorkersInv, WorkersTypes

\* What an event worker and its peer hold when the others hold the same.
LEMMA EventsOfBoth ==
  ASSUME WorkersTypes, WorkersTypes', NEW w \in EventWorkers, NEW d,
         UNCHANGED <<m_queue, kept>>,
         \A v \in {"timer", "naive"} : m_backlog'[v] = m_backlog[v],
         Processed(d)' + AtEvents(w, d)' + AtEvents(Peer(w), d)'
           = Processed(d) + AtEvents(w, d) + AtEvents(Peer(w), d)
  PROVE  Held(d)' = Held(d)
<1>1. AtTimer(d)' = AtTimer(d) /\ AtNaive(d)' = AtNaive(d)
  BY DEF AtTimer, AtNaive, InBacklog, InQueue, InKept
<1>2. PlacesAreCounted /\ PlacesAreCounted'
  BY PlacesNowAndThen
<1>3. /\ AtEvents("reader", d) \in Nat /\ AtEvents("writer", d) \in Nat
      /\ AtEvents("reader", d)' \in Nat /\ AtEvents("writer", d)' \in Nat
      /\ Processed(d) \in Nat /\ Processed(d)' \in Nat
  BY <1>2 DEF PlacesAreCounted, EventWorkers
<1>4. \/ w = "reader" /\ Peer(w) = "writer"
      \/ w = "writer" /\ Peer(w) = "reader"
  <2>1. Peer(w) \in EventWorkers /\ Peer(w) # w
    BY PeerIsTheOther
  <2>2. Peer(w) \in {"reader", "writer"} /\ w \in {"reader", "writer"}
    BY <2>1 DEF EventWorkers
  <2> QED
    BY <2>1, <2>2
<1>5. Processed(d)' + AtEvents("reader", d)' + AtEvents("writer", d)'
        = Processed(d) + AtEvents("reader", d) + AtEvents("writer", d)
  BY <1>3, <1>4
<1> QED
  BY <1>1, <1>5, HeldAgain

\* epoll_wait reports events and turns their registrations off.
LEMMA EventArrivesKeeps ==
  ASSUME WorkersInv, NEW w \in EventWorkers, EventArrives(w)
  PROVE  WorkersInv'
<1> DEFINE fired == {c \in epoll[w].enabled : c \in ready /\ scheduled[c].event = w}
           e == epoll[w]
<1>1. /\ epoll' = [epoll EXCEPT ![w].events = fired, ![w].enabled = @ \ fired,
                                ![w].trigger = FALSE]
      /\ UNCHANGED <<ioWorkerType, m_backlog, m_queue, kept, scheduled, atProcessor>>
  BY DEF EventArrives
<1>2. /\ e \in EpollRecords /\ epoll \in [EventWorkers -> EpollRecords]
      /\ fired \subseteq Handles
  BY DEF WorkersInv, WorkersTypes, EpollRecords
<1> DEFINE r == [e EXCEPT !.events = fired, !.enabled = @ \ fired, !.trigger = FALSE]
<1>3. epoll' = [epoll EXCEPT ![w] = r]
  BY <1>1, <1>2
<1>4. /\ r \in EpollRecords /\ r.added = e.added /\ r.pop = e.pop
      /\ r.enabled = e.enabled \ fired /\ r.events = fired
  BY <1>2 DEF EpollRecords
<1>5. /\ epoll' \in [EventWorkers -> EpollRecords]
      /\ epoll'[w] = r /\ \A v \in EventWorkers \ {w} : epoll'[v] = epoll[v]
  BY <1>3, <1>4, OneRecordChanges
<1>6. /\ \A v \in EventWorkers : epoll'[v].added = epoll[v].added
                                 /\ epoll'[v].pop = epoll[v].pop
      /\ epoll'[w].enabled = epoll[w].enabled \ fired /\ epoll'[w].events = fired
      /\ fired \subseteq epoll[w].enabled
  BY <1>4, <1>5
<1> HIDE DEF r, fired
<1>7. WorkersTypes'
  BY <1>1, <1>5 DEF WorkersInv, WorkersTypes
<1>8. \A d \in Handles : Held(d)' = Held(d)
  <2> SUFFICES ASSUME NEW d \in Handles PROVE Held(d)' = Held(d)
    OBVIOUS
  <2>1. /\ AtTimer(d)' = AtTimer(d) /\ AtNaive(d)' = AtNaive(d)
        /\ Processed(d)' = Processed(d)
    BY <1>1 DEF AtTimer, AtNaive, InBacklog, InQueue, InKept, Processed
  <2>2. \A v \in EventWorkers : AtEvents(v, d)' = AtEvents(v, d)
    BY <1>1, <1>6 DEF AtEvents, InBacklog, InQueue, Registered, InPop
  <2> QED
    BY <1>7, <2>1, <2>2, HeldAgain DEF WorkersInv, EventWorkers
<1>9. HeldInOnePlace'
  BY <1>1, <1>8 DEF WorkersInv, HeldInOnePlace
<1>10. ArmedForItsEvent' /\ OneShot'
  BY <1>1, <1>5, <1>6 DEF WorkersInv, ArmedForItsEvent, OneShot
<1>11. ComeForTheirEvent'
  BY <1>1, <1>6 DEF WorkersInv, ComeForTheirEvent
<1> QED
  BY <1>7, <1>9, <1>10, <1>11 DEF WorkersInv


\* What a sequence holds occurs in it.
LEMMA RangeOccurs ==
  ASSUME NEW S, NEW s \in Seq(S), NEW d
  PROVE  d \in Range(s) <=> Occurrences(s, d) > 0
<1> DEFINE I == {i \in 1 .. Len(s) : s[i] = d}
<1>1. IsFiniteSet(I) /\ Occurrences(s, d) = Cardinality(I)
  BY OccurrencesNat
<1>2. Cardinality(I) \in Nat /\ (Cardinality(I) = 0 <=> I = {})
  BY <1>1, FS_CardinalityType, FS_EmptySet
<1>3. d \in Range(s) <=> I # {}
  <2>1. DOMAIN s = 1 .. Len(s)
    OBVIOUS
  <2> QED
    BY <2>1 DEF Range
<1> QED
  BY <1>1, <1>2, <1>3

\* The backlog is registered: none of it was registered before.
LEMMA EventConsumesKeeps ==
  ASSUME WorkersInv, NEW w \in EventWorkers, EventConsumes(w)
  PROVE  WorkersInv'
<1> DEFINE R == Range(m_backlog[w])
           e == epoll[w]
           r == [e EXCEPT !.added = @ \cup R, !.enabled = @ \cup R]
<1>1. /\ epoll' = [epoll EXCEPT ![w].added = @ \cup R, ![w].enabled = @ \cup R]
      /\ m_backlog' = [m_backlog EXCEPT ![w] = <<>>]
      /\ UNCHANGED <<ioWorkerType, m_queue, kept, scheduled, atProcessor>>
  BY DEF EventConsumes
<1>2. /\ e \in EpollRecords /\ epoll \in [EventWorkers -> EpollRecords]
      /\ m_backlog \in [Workers -> Seq(Handles)] /\ w \in Workers
  BY DEF WorkersInv, WorkersTypes, Workers, EventWorkers
<1>3. R \subseteq Handles /\ \A d : d \in R <=> InBacklog(w, d) > 0
  BY <1>2, RangeOccurs DEF InBacklog, Range
<1>4. epoll' = [epoll EXCEPT ![w] = r]
  BY <1>1, <1>2
<1> HIDE DEF R
<1>5. /\ r \in EpollRecords /\ r.added = e.added \cup R /\ r.enabled = e.enabled \cup R
      /\ r.events = e.events /\ r.pop = e.pop
  BY <1>2, <1>3 DEF EpollRecords
<1>6. /\ epoll' \in [EventWorkers -> EpollRecords]
      /\ epoll'[w] = r /\ \A v \in EventWorkers \ {w} : epoll'[v] = epoll[v]
  BY <1>4, <1>5, OneRecordChanges
<1>7. /\ m_backlog' \in [Workers -> Seq(Handles)] /\ m_backlog'[w] = <<>>
      /\ \A v \in Workers \ {w} : m_backlog'[v] = m_backlog[v]
  BY <1>1, <1>2
<1> HIDE DEF r
<1>8. WorkersTypes'
  BY <1>1, <1>6, <1>7 DEF WorkersInv, WorkersTypes
<1>9. PlacesAreCounted /\ PlacesAreCounted' /\ HeldIsSum
  BY <1>8, PlacesNowAndThen DEF WorkersInv
<1>10. \A d \in R : /\ InBacklog(w, d) = 1 /\ d \notin epoll[w].added
                    /\ IsIO(scheduled[d]) /\ scheduled[d].event = w
  BY <1>3, BackloggedIsAlone DEF WorkersInv, ComeForTheirEvent, InBacklog
<1>11. \A d \in Handles : Held(d)' = Held(d)
  <2> SUFFICES ASSUME NEW d \in Handles PROVE Held(d)' = Held(d)
    OBVIOUS
  <2>1. InBacklog(w, d)' = 0 /\ InBacklog(w, d) = Membership(R, d)
    <3>1. InBacklog(w, d)' = 0
      BY <1>7, OccurrencesEmpty DEF InBacklog
    <3>2. CASE d \in R
      BY <1>10, <3>1, <3>2 DEF Membership
    <3>3. CASE d \notin R
      BY <1>3, <3>1, <3>3, EventsCounted DEF Membership
    <3> QED
      BY <3>2, <3>3
  <2>2. Registered(w, d)' = Registered(w, d) + Membership(R, d)
    <3>1. epoll'[w].added = epoll[w].added \cup R
      BY <1>5, <1>6
    <3> QED
      BY <1>10, <3>1 DEF Registered, Membership
  <2>3. InQueue(w, d)' = InQueue(w, d) /\ InPop(w, d)' = InPop(w, d)
    BY <1>1, <1>5, <1>6 DEF InQueue, InPop
  <2>4. AtEvents(w, d)' = AtEvents(w, d)
    BY <2>1, <2>2, <2>3, EventsCounted DEF AtEvents, Membership
  <2>5. Peer(w) \in EventWorkers \ {w} /\ Peer(w) \in Workers \ {w}
    BY PeerIsTheOther DEF Workers, EventWorkers
  <2>6. AtEvents(Peer(w), d)' = AtEvents(Peer(w), d)
    BY <1>1, <1>6, <1>7, <2>5 DEF AtEvents, InBacklog, InQueue, InPop, Registered
  <2>7. Processed(d)' = Processed(d)
    BY <1>1 DEF Processed
  <2>8. \A v \in {"timer", "naive"} : m_backlog'[v] = m_backlog[v]
    BY <1>7 DEF Workers, EventWorkers
  <2> QED
    BY <1>1, <1>8, <2>4, <2>6, <2>7, <2>8, EventsOfBoth DEF WorkersInv
<1>12. HeldInOnePlace'
  BY <1>1, <1>11 DEF WorkersInv, HeldInOnePlace
<1>13. \A v \in EventWorkers : \/ v # w /\ epoll'[v] = epoll[v]
                               \/ /\ v = w /\ epoll'[v].events = epoll[v].events
                                  /\ epoll'[v].enabled = epoll[v].enabled \cup R
                                  /\ epoll'[v].added = epoll[v].added \cup R
                                  /\ epoll'[v].pop = epoll[v].pop
  BY <1>5, <1>6
<1>14. ArmedForItsEvent'
  <2> SUFFICES ASSUME NEW v \in EventWorkers, NEW d \in epoll'[v].enabled \cup epoll'[v].events
               PROVE  /\ d \in epoll'[v].added
                      /\ IsIO(scheduled[d]) /\ scheduled[d].event = v
    BY <1>1 DEF ArmedForItsEvent
  <2>1. CASE d \in epoll[v].enabled \cup epoll[v].events
    <3>1. /\ d \in epoll[v].added
          /\ IsIO(scheduled[d]) /\ scheduled[d].event = v
      BY <2>1 DEF WorkersInv, ArmedForItsEvent
    <3> QED
      BY <1>13, <3>1
  <2>2. CASE d \notin epoll[v].enabled \cup epoll[v].events
    <3>1. v = w /\ d \in R
      BY <1>13, <2>2
    <3> QED
      BY <1>10, <1>13, <3>1
  <2> QED
    BY <2>1, <2>2
<1>15. OneShot'
  BY <1>10, <1>13 DEF WorkersInv, OneShot, ArmedForItsEvent
<1>16. ComeForTheirEvent'
  <2>1. \A v \in EventWorkers : epoll'[v].pop = epoll[v].pop
    BY <1>13
  <2>2. \A v \in EventWorkers : m_backlog'[v] = m_backlog[v] \/ m_backlog'[v] = <<>>
    BY <1>7 DEF Workers, EventWorkers
  <2> QED
    <3>1. \A v \in EventWorkers, d \in Handles :
            /\ Occurrences(m_backlog'[v], d) > 0 => Occurrences(m_backlog[v], d) > 0
            /\ Occurrences(epoll'[v].pop, d) > 0 => Occurrences(epoll[v].pop, d) > 0
      BY <2>1, <2>2, OccurrencesEmpty
    <3> QED
      BY <1>1, <3>1 DEF WorkersInv, ComeForTheirEvent
<1> QED
  BY <1>8, <1>12, <1>14, <1>15, <1>16 DEF WorkersInv

\* A reported coroutine goes on waiting, changes workers, or leaves.
LEMMA EventIteratesKeeps ==
  ASSUME WorkersInv, NEW w \in EventWorkers, EventIterates(w)
  PROVE  WorkersInv'
<1>1. PICK c \in epoll[w].events : \E a \in Answers(c) :
        EventTakes(w, c, a) /\ SetScheduled(c, a)
  BY DEF EventIterates
<1>2. PICK a \in Answers(c) : EventTakes(w, c, a) /\ SetScheduled(c, a)
  BY <1>1
<1>3. UNCHANGED <<ioWorkerType, m_backlog, m_queue, kept>>
  BY DEF EventIterates
<1>4. a \in WorkerActions /\ a # Finished
  BY AnswersAreActions
<1>5. /\ c \in epoll[w].added /\ c \notin epoll[w].enabled
      /\ c \in Handles /\ scheduled[c] # Finished /\ c \notin atProcessor
      /\ \A v \in EventWorkers : InBacklog(v, c) = 0 /\ InPop(v, c) = 0
      /\ \A v \in EventWorkers \ {w} : c \notin epoll[v].added
  <2>1. c \in epoll[w].added /\ c \notin epoll[w].enabled
    BY DEF WorkersInv, ArmedForItsEvent, OneShot
  <2> QED
    BY <2>1, RegisteredIsAlone
<1> DEFINE e == epoll[w]
           handled == [e EXCEPT !.events = @ \ {c}]
           stays == [handled EXCEPT !.enabled = @ \cup {c}]
           changes == [handled EXCEPT !.added = @ \ {c}, !.pop = Append(@, c)]
           leaves == [handled EXCEPT !.added = @ \ {c}]
<1>6. e \in EpollRecords /\ epoll \in [EventWorkers -> EpollRecords]
      /\ atProcessor \subseteq Handles /\ scheduled \in [Handles -> WorkerActions]
  BY DEF WorkersInv, WorkersTypes
<1>7. \/ /\ IsIO(a) /\ a.event = w
         /\ epoll' = [epoll EXCEPT ![w] = stays] /\ atProcessor' = atProcessor
      \/ /\ IsIO(a) /\ a.event # w
         /\ epoll' = [epoll EXCEPT ![w] = changes] /\ atProcessor' = atProcessor
      \/ /\ ~IsIO(a)
         /\ epoll' = [epoll EXCEPT ![w] = leaves] /\ atProcessor' = atProcessor \cup {c}
  BY <1>2 DEF EventTakes, ToProcessor
<1>8. /\ stays \in EpollRecords /\ stays.events = e.events \ {c} /\ stays.added = e.added
      /\ stays.enabled = e.enabled \cup {c} /\ stays.pop = e.pop
  BY <1>5, <1>6 DEF EpollRecords
<1>9. /\ changes \in EpollRecords /\ changes.events = e.events \ {c}
      /\ changes.added = e.added \ {c} /\ changes.enabled = e.enabled
      /\ changes.pop = Append(e.pop, c)
  BY <1>5, <1>6, AppendProperties DEF EpollRecords
<1>10. /\ leaves \in EpollRecords /\ leaves.events = e.events \ {c}
       /\ leaves.added = e.added \ {c} /\ leaves.enabled = e.enabled /\ leaves.pop = e.pop
  BY <1>5, <1>6 DEF EpollRecords
<1> HIDE DEF stays, changes, leaves
<1>11. /\ epoll' \in [EventWorkers -> EpollRecords]
       /\ \A v \in EventWorkers \ {w} : epoll'[v] = epoll[v]
       /\ epoll'[w].events = e.events \ {c}
       /\ \/ /\ IsIO(a) /\ a.event = w /\ atProcessor' = atProcessor
             /\ epoll'[w].added = e.added /\ epoll'[w].enabled = e.enabled \cup {c}
             /\ epoll'[w].pop = e.pop
          \/ /\ IsIO(a) /\ a.event # w /\ atProcessor' = atProcessor
             /\ epoll'[w].added = e.added \ {c} /\ epoll'[w].enabled = e.enabled
             /\ epoll'[w].pop = Append(e.pop, c)
          \/ /\ ~IsIO(a) /\ atProcessor' = atProcessor \cup {c}
             /\ epoll'[w].added = e.added \ {c} /\ epoll'[w].enabled = e.enabled
             /\ epoll'[w].pop = e.pop
  <2>1. CASE epoll' = [epoll EXCEPT ![w] = stays] /\ IsIO(a) /\ a.event = w
             /\ atProcessor' = atProcessor
    BY <1>8, <2>1, OneRecordChanges
  <2>2. CASE epoll' = [epoll EXCEPT ![w] = changes] /\ IsIO(a) /\ a.event # w
             /\ atProcessor' = atProcessor
    BY <1>9, <2>2, OneRecordChanges
  <2>3. CASE epoll' = [epoll EXCEPT ![w] = leaves] /\ ~IsIO(a)
             /\ atProcessor' = atProcessor \cup {c}
    BY <1>10, <2>3, OneRecordChanges
  <2> QED
    BY <1>7, <2>1, <2>2, <2>3
<1>12. scheduled' = [scheduled EXCEPT ![c] = a]
  BY <1>2 DEF SetScheduled
<1>13. WorkersTypes'
  BY <1>3, <1>4, <1>5, <1>6, <1>11, <1>12 DEF WorkersInv, WorkersTypes
<1>14. \A v \in EventWorkers : InBacklog(v, c)' = 0
  BY <1>3, <1>5 DEF InBacklog
<1>15. \A d : InPop(w, d)' = InPop(w, d)
              \/ (d = c /\ IsIO(a) /\ a.event # w)
  <2> SUFFICES ASSUME NEW d PROVE InPop(w, d)' = InPop(w, d)
                                  \/ (d = c /\ IsIO(a) /\ a.event # w)
    OBVIOUS
  <2>1. e.pop \in Seq(Handles)
    BY <1>6 DEF EpollRecords
  <2>2. Occurrences(Append(e.pop, c), d) = Occurrences(e.pop, d) + IF d = c THEN 1 ELSE 0
    BY <1>5, <2>1, OccurrencesAppend
  <2>3. Occurrences(e.pop, d) \in Nat
    BY <2>1, OccurrencesNat
  <2> QED
    <3>1. CASE epoll'[w].pop = e.pop
      BY <3>1 DEF InPop
    <3>2. CASE epoll'[w].pop = Append(e.pop, c) /\ IsIO(a) /\ a.event # w
      <4>1. InPop(w, d)' = InPop(w, d) + IF d = c THEN 1 ELSE 0
        BY <2>2, <3>2 DEF InPop
      <4>2. InPop(w, d) \in Nat
        BY <2>3 DEF InPop
      <4> QED
        BY <3>2, <4>1, <4>2
    <3> QED
      BY <1>11, <3>1, <3>2
<1>16. \A d \in Handles : Held(d)' = Held(d)
  <2> SUFFICES ASSUME NEW d \in Handles PROVE Held(d)' = Held(d)
    OBVIOUS
  <2>1. Peer(w) \in EventWorkers \ {w}
    BY PeerIsTheOther
  <2>2. AtEvents(Peer(w), d)' = AtEvents(Peer(w), d)
    BY <1>3, <1>11, <2>1 DEF AtEvents, InBacklog, InQueue, InPop, Registered
  <2>3. InBacklog(w, d)' = InBacklog(w, d) /\ InQueue(w, d)' = InQueue(w, d)
    BY <1>3 DEF InBacklog, InQueue
  <2>4. Processed(d)' + Registered(w, d)' + InPop(w, d)'
          = Processed(d) + Registered(w, d) + InPop(w, d)
    <3>1. /\ InPop(w, d) \in Nat /\ Registered(w, d) \in Nat
          /\ Processed(d) \in Nat
      BY EventsCounted DEF Processed, Membership
    <3>2. CASE /\ atProcessor' = atProcessor /\ epoll'[w].added = e.added
               /\ epoll'[w].pop = e.pop
      BY <3>2 DEF Processed, Registered, InPop
    <3>3. CASE /\ atProcessor' = atProcessor /\ epoll'[w].added = e.added \ {c}
               /\ epoll'[w].pop = Append(e.pop, c)
      <4>1. e.pop \in Seq(Handles)
        BY <1>6 DEF EpollRecords
      <4>2. InPop(w, d)' = InPop(w, d) + IF d = c THEN 1 ELSE 0
        BY <1>5, <3>3, <4>1, OccurrencesAppend DEF InPop
      <4>3. Registered(w, d) = Registered(w, d)' + IF d = c THEN 1 ELSE 0
        BY <1>5, <3>3 DEF Registered, Membership
      <4>4. Processed(d)' = Processed(d) /\ Registered(w, d)' \in Nat
        BY <3>3 DEF Processed, Registered, Membership
      <4> QED
        BY <3>1, <4>2, <4>3, <4>4
    <3>4. CASE /\ atProcessor' = atProcessor \cup {c} /\ epoll'[w].added = e.added \ {c}
               /\ epoll'[w].pop = e.pop
      <4>1. Registered(w, d) = Registered(w, d)' + IF d = c THEN 1 ELSE 0
        BY <1>5, <3>4 DEF Registered, Membership
      <4>2. Processed(d)' = Processed(d) + IF d = c THEN 1 ELSE 0
        BY <1>5, <3>4 DEF Processed, Membership
      <4>3. InPop(w, d)' = InPop(w, d) /\ Registered(w, d)' \in Nat
        BY <3>4 DEF InPop, Registered, Membership
      <4> QED
        BY <3>1, <4>1, <4>2, <4>3
    <3> QED
      BY <1>11, <3>2, <3>3, <3>4
  <2>5. Processed(d)' + AtEvents(w, d)' = Processed(d) + AtEvents(w, d)
    <3>1. /\ InPop(w, d) \in Nat /\ Registered(w, d) \in Nat
          /\ InBacklog(w, d) \in Nat /\ InQueue(w, d) \in Nat
      BY EventsCounted
    <3>2. /\ InPop(w, d)' \in Nat /\ Registered(w, d)' \in Nat
          /\ Processed(d) \in Nat /\ Processed(d)' \in Nat
      <4>1. PlacesAreCounted'
        BY <1>13, PlacesNowAndThen DEF WorkersInv
      <4> QED
        BY <4>1 DEF PlacesAreCounted, Processed, Membership
    <3> QED
      BY <2>3, <2>4, <3>1, <3>2 DEF AtEvents
  <2>6. \A v \in {"timer", "naive"} : m_backlog'[v] = m_backlog[v]
    BY <1>3
  <2> QED
    BY <1>3, <1>13, <2>2, <2>5, <2>6, EventsOfBoth DEF WorkersInv
<1>17. HeldInOnePlace'
  BY <1>4, <1>5, <1>6, <1>12, <1>16 DEF WorkersInv, HeldInOnePlace
<1>18. \A d \in Handles : d # c => scheduled'[d] = scheduled[d]
  BY <1>6, <1>12
<1>19. ArmedForItsEvent'
  <2> SUFFICES ASSUME NEW v \in EventWorkers, NEW d \in epoll'[v].enabled \cup epoll'[v].events
               PROVE  /\ d \in epoll'[v].added
                      /\ IsIO(scheduled'[d]) /\ scheduled'[d].event = v
    BY DEF ArmedForItsEvent
  <2>1. CASE v # w
    <3>1. /\ d \in epoll[v].added
          /\ IsIO(scheduled[d]) /\ scheduled[d].event = v
      BY <1>11, <2>1 DEF WorkersInv, ArmedForItsEvent
    <3>2. d # c /\ d \in Handles
      BY <1>5, <2>1, <3>1, RegisteredIsAlone
    <3> QED
      BY <1>11, <1>18, <2>1, <3>1, <3>2
  <2>2. CASE v = w /\ d # c
    <3>1. d \in epoll[w].enabled \cup epoll[w].events
      BY <1>11, <2>2
    <3>2. /\ d \in epoll[w].added
          /\ IsIO(scheduled[d]) /\ scheduled[d].event = w
      BY <3>1 DEF WorkersInv, ArmedForItsEvent
    <3>3. d \in Handles
      BY <3>2, RegisteredIsAlone
    <3> QED
      BY <1>11, <1>18, <2>2, <3>2, <3>3
  <2>3. CASE v = w /\ d = c
    <3>1. scheduled'[c] = a
      BY <1>5, <1>6, <1>12
    <3> QED
      BY <1>5, <1>11, <2>3, <3>1
  <2> QED
    BY <2>1, <2>2, <2>3
<1>20. OneShot'
  BY <1>5, <1>11 DEF WorkersInv, OneShot
<1>21. ComeForTheirEvent'
  <2> SUFFICES ASSUME NEW v \in EventWorkers, NEW d \in Handles
               PROVE  /\ InBacklog(v, d)' > 0 =>
                           IsIO(scheduled'[d]) /\ scheduled'[d].event = v
                      /\ InPop(v, d)' > 0 =>
                           IsIO(scheduled'[d]) /\ scheduled'[d].event # v
    BY DEF ComeForTheirEvent, InBacklog, InPop
  <2>1. /\ InBacklog(v, d) > 0 => IsIO(scheduled[d]) /\ scheduled[d].event = v
        /\ InPop(v, d) > 0 => IsIO(scheduled[d]) /\ scheduled[d].event # v
    BY DEF WorkersInv, ComeForTheirEvent, InBacklog, InPop
  <2>2. InBacklog(v, d)' = InBacklog(v, d)
    BY <1>3 DEF InBacklog
  <2>3. \/ InPop(v, d)' = InPop(v, d)
        \/ v = w /\ d = c /\ IsIO(a) /\ a.event # w
    <3>1. CASE v = w
      BY <1>15, <3>1
    <3>2. CASE v # w
      BY <1>11, <3>2 DEF InPop
    <3> QED
      BY <3>1, <3>2
  <2>4. CASE d # c
    BY <1>18, <2>1, <2>2, <2>3, <2>4
  <2>5. CASE d = c
    <3>1. scheduled'[c] = a
      BY <1>5, <1>6, <1>12
    <3> QED
      BY <1>5, <2>2, <2>3, <2>5, <3>1
  <2> QED
    BY <2>4, <2>5
<1> QED
  BY <1>13, <1>17, <1>19, <1>20, <1>21 DEF WorkersInv

\* Those that change workers join the backlog of the other one.
LEMMA EventHandsOverKeeps ==
  ASSUME WorkersInv, NEW w \in EventWorkers, EventHandsOver(w)
  PROVE  WorkersInv'
<1>1. PICK u \in EventWorkers \ {w} : u = Peer(w)
  BY PeerIsTheOther
<1> DEFINE moved == epoll[w].pop
           r == [epoll[w] EXCEPT !.pop = <<>>]
           ep == [epoll EXCEPT ![w] = r]
<1>2. /\ PushTo(u, moved, ep)
      /\ UNCHANGED <<ioWorkerType, m_queue, kept, scheduled, atProcessor>>
  BY <1>1 DEF EventHandsOver
<1>3. /\ epoll \in [EventWorkers -> EpollRecords] /\ epoll[w] \in EpollRecords
      /\ moved \in Seq(Handles)
  BY DEF WorkersInv, WorkersTypes, EpollRecords
<1>4. /\ r \in EpollRecords /\ r.added = epoll[w].added /\ r.enabled = epoll[w].enabled
      /\ r.events = epoll[w].events /\ r.pop = <<>>
  <2>1. <<>> \in Seq(Handles)
    OBVIOUS
  <2> QED
    BY <1>3, <2>1 DEF EpollRecords
<1> HIDE DEF r
<1>5. /\ ep \in [EventWorkers -> EpollRecords]
      /\ ep[w] = r /\ \A v \in EventWorkers \ {w} : ep[v] = epoll[v]
  BY <1>3, <1>4
<1> HIDE DEF ep
<1>6. PICK t \in Seq(Handles) : t = moved
  BY <1>3
<1>7. u \in Workers
  BY DEF Workers, EventWorkers
<1>8. /\ m_backlog' \in [Workers -> Seq(Handles)]
      /\ epoll' \in [EventWorkers -> EpollRecords]
      /\ \A v \in Workers \ {u} : m_backlog'[v] = m_backlog[v]
      /\ \A d : InBacklog(u, d)' = InBacklog(u, d) + Occurrences(t, d)
      /\ \A v \in EventWorkers :
           /\ epoll'[v].added = ep[v].added /\ epoll'[v].enabled = ep[v].enabled
           /\ epoll'[v].events = ep[v].events /\ epoll'[v].pop = ep[v].pop
  BY <1>2, <1>5, <1>6, <1>7, Pushing
<1>9. /\ \A v \in EventWorkers :
           /\ epoll'[v].added = epoll[v].added /\ epoll'[v].enabled = epoll[v].enabled
           /\ epoll'[v].events = epoll[v].events
      /\ epoll'[w].pop = <<>> /\ \A v \in EventWorkers \ {w} : epoll'[v].pop = epoll[v].pop
  BY <1>4, <1>5, <1>8
<1>10. WorkersTypes'
  BY <1>2, <1>8 DEF WorkersInv, WorkersTypes
<1>11. \A d : /\ InPop(w, d) = Occurrences(t, d) /\ InPop(w, d)' = 0
              /\ InPop(u, d)' = InPop(u, d)
  BY <1>6, <1>9, OccurrencesEmpty DEF InPop
<1>12. \A d \in Handles : Held(d)' = Held(d)
  <2> SUFFICES ASSUME NEW d \in Handles PROVE Held(d)' = Held(d)
    OBVIOUS
  <2>1. InBacklog(u, d)' = InBacklog(u, d) + InPop(w, d)
    BY <1>8, <1>11
  <2>2. InBacklog(w, d)' = InBacklog(w, d)
    BY <1>8 DEF InBacklog, Workers, EventWorkers
  <2>3. \A v \in EventWorkers : /\ InQueue(v, d)' = InQueue(v, d)
                                /\ Registered(v, d)' = Registered(v, d)
    BY <1>2, <1>9 DEF InQueue, Registered
  <2>4. AtEvents(w, d) = AtEvents(w, d)' + InPop(w, d)
    BY <1>11, <2>2, <2>3, EventsCounted DEF AtEvents
  <2>5. AtEvents(u, d)' = AtEvents(u, d) + InPop(w, d)
    <3>1. /\ InBacklog(u, d) \in Nat /\ InQueue(u, d) \in Nat /\ Registered(u, d) \in Nat
          /\ InPop(u, d) \in Nat /\ InPop(w, d) \in Nat
      BY EventsCounted
    <3>2. AtEvents(u, d)' = InBacklog(u, d) + InPop(w, d) + InQueue(u, d)
                              + Registered(u, d) + InPop(u, d)
      BY <1>11, <2>1, <2>3 DEF AtEvents
    <3> QED
      BY <3>1, <3>2 DEF AtEvents
  <2>6. Processed(d)' = Processed(d)
    BY <1>2 DEF Processed
  <2>7. /\ AtEvents(w, d) \in Nat /\ AtEvents(u, d) \in Nat /\ InPop(w, d) \in Nat
        /\ AtEvents(w, d)' \in Nat /\ Processed(d) \in Nat
    <3>1. PlacesAreCounted'
      BY <1>10, PlacesNowAndThen DEF WorkersInv
    <3> QED
      BY <3>1, EventsCounted DEF PlacesAreCounted, Processed, Membership
  <2>8. Processed(d)' + AtEvents(w, d)' + AtEvents(u, d)'
          = Processed(d) + AtEvents(w, d) + AtEvents(u, d)
    BY <2>4, <2>5, <2>6, <2>7
  <2>9. Processed(d)' + AtEvents("reader", d)' + AtEvents("writer", d)'
          = Processed(d) + AtEvents("reader", d) + AtEvents("writer", d)
    <3>1. \/ w = "reader" /\ u = "writer"
          \/ w = "writer" /\ u = "reader"
      BY DEF EventWorkers
    <3>2. Processed(d)' + AtEvents(u, d)' + AtEvents(w, d)'
            = Processed(d) + AtEvents(u, d) + AtEvents(w, d)
      BY <2>4, <2>5, <2>6, <2>7
    <3> QED
      BY <2>8, <3>1, <3>2
  <2>10. AtTimer(d)' = AtTimer(d) /\ AtNaive(d)' = AtNaive(d)
    BY <1>2, <1>8 DEF AtTimer, AtNaive, InBacklog, InQueue, InKept, Workers, EventWorkers
  <2> QED
    BY <1>10, <2>9, <2>10, HeldAgain DEF WorkersInv
<1>13. HeldInOnePlace'
  BY <1>2, <1>12 DEF WorkersInv, HeldInOnePlace
<1>14. ArmedForItsEvent' /\ OneShot'
  BY <1>2, <1>9 DEF WorkersInv, ArmedForItsEvent, OneShot
<1>15. ComeForTheirEvent'
  <2> SUFFICES ASSUME NEW v \in EventWorkers, NEW d \in Handles
               PROVE  /\ InBacklog(v, d)' > 0 =>
                           IsIO(scheduled[d]) /\ scheduled[d].event = v
                      /\ InPop(v, d)' > 0 =>
                           IsIO(scheduled[d]) /\ scheduled[d].event # v
    BY <1>2 DEF ComeForTheirEvent, InBacklog, InPop
  <2>1. \A x \in EventWorkers :
          /\ InBacklog(x, d) > 0 => IsIO(scheduled[d]) /\ scheduled[d].event = x
          /\ InPop(x, d) > 0 => IsIO(scheduled[d]) /\ scheduled[d].event # x
    BY DEF WorkersInv, ComeForTheirEvent, InBacklog, InPop
  <2>2. CASE v = w
    <3>1. InBacklog(v, d)' = InBacklog(v, d) /\ InPop(v, d)' = 0
      BY <1>8, <1>11, <2>2 DEF InBacklog, Workers, EventWorkers
    <3> QED
      BY <2>1, <3>1
  <2>3. CASE v = u
    <3>1. InPop(v, d)' = InPop(v, d) /\ InBacklog(v, d)' = InBacklog(v, d) + InPop(w, d)
      BY <1>8, <1>11, <2>3
    <3>2. InBacklog(v, d) \in Nat /\ InPop(w, d) \in Nat
      BY EventsCounted
    <3>3. InBacklog(v, d)' > 0 => InBacklog(v, d) > 0 \/ InPop(w, d) > 0
      BY <3>1, <3>2
    <3>4. IsIO(scheduled[d]) => scheduled[d].event \in EventWorkers
      BY KindsOfActions DEF WorkersInv, WorkersTypes
    <3>5. \A x \in EventWorkers : x # w <=> x = u
      BY DEF EventWorkers
    <3> QED
      BY <2>1, <2>3, <3>1, <3>3, <3>4, <3>5
  <2> QED
    BY <2>2, <2>3 DEF EventWorkers
<1> QED
  BY <1>10, <1>13, <1>14, <1>15 DEF WorkersInv

-----------------------------------------------------------------------------
(* The invariant holds, and with it HeldOnce.                                  *)

\* Every coroutine is with the processor, or has not been started.
LEMMA WorkersStart == WorkersInit => WorkersInv
<1> SUFFICES ASSUME WorkersInit PROVE WorkersInv
  OBVIOUS
<1> DEFINE r == [added |-> {}, enabled |-> {}, trigger |-> FALSE, events |-> {}, pop |-> <<>>]
<1>1. /\ m_backlog = [w \in Workers |-> <<>>] /\ m_queue = [w \in Workers |-> <<>>]
      /\ kept = <<>> /\ epoll = [w \in EventWorkers |-> r] /\ atProcessor \subseteq Handles
      /\ scheduled = [c \in Handles |-> IF c \in atProcessor THEN Other ELSE Finished]
      /\ ioWorkerType \in {"naive", "event"}
  BY DEF WorkersInit
<1>2. r \in EpollRecords
  BY DEF EpollRecords
<1>3. /\ \A w \in EventWorkers : /\ epoll[w].added = {} /\ epoll[w].enabled = {}
                                 /\ epoll[w].events = {} /\ epoll[w].pop = <<>>
      /\ \A w \in Workers : m_backlog[w] = <<>> /\ m_queue[w] = <<>>
  BY <1>1
<1>4. WorkersTypes
  <2>1. scheduled \in [Handles -> WorkerActions]
    BY <1>1, KindsOfActions
  <2>2. /\ m_backlog \in [Workers -> Seq(Handles)] /\ m_queue \in [Workers -> Seq(Handles)]
        /\ kept \in Seq(Handles)
    BY <1>1
  <2>3. epoll \in [EventWorkers -> EpollRecords]
    <3> HIDE DEF r
    <3> QED
      BY <1>1, <1>2
  <2> QED
    BY <1>1, <2>1, <2>2, <2>3 DEF WorkersTypes
<1>5. HeldInOnePlace
  <2> SUFFICES ASSUME NEW c \in Handles
               PROVE  Held(c) = IF scheduled[c] = Finished THEN 0 ELSE 1
    BY DEF HeldInOnePlace
  <2>1. AtTimer(c) = 0 /\ AtNaive(c) = 0
    BY <1>1, <1>3, OccurrencesEmpty
    DEF AtTimer, AtNaive, InBacklog, InQueue, InKept, Workers
  <2>2. \A w \in EventWorkers : AtEvents(w, c) = 0
    <3>1. \A w \in EventWorkers : /\ InBacklog(w, c) = 0 /\ InQueue(w, c) = 0
                                  /\ InPop(w, c) = 0 /\ Registered(w, c) = 0
      BY <1>3, OccurrencesEmpty
      DEF InBacklog, InQueue, InPop, Registered, Membership, Workers, EventWorkers
    <3> QED
      BY <3>1 DEF AtEvents
  <2>3. Held(c) = Processed(c)
    <3>1. Held(c) = Processed(c) + AtTimer(c) + AtNaive(c)
                      + AtEvents("reader", c) + AtEvents("writer", c)
      BY <1>4, HeldSum, Zenon DEF HeldIsSum
    <3>2. AtEvents("reader", c) = 0 /\ AtEvents("writer", c) = 0 /\ Processed(c) \in Nat
      BY <2>2 DEF EventWorkers, Processed, Membership
    <3> QED
      BY <2>1, <3>1, <3>2
  <2> QED
    BY <1>1, <2>3, KindsOfActions DEF Processed, Membership
<1>6. ArmedForItsEvent /\ OneShot
  BY <1>3 DEF ArmedForItsEvent, OneShot
<1>7. ComeForTheirEvent
  BY <1>3, OccurrencesEmpty DEF ComeForTheirEvent, Workers, EventWorkers
<1> QED
  BY <1>4, <1>5, <1>6, <1>7 DEF WorkersInv

\* Every step keeps the invariant.
LEMMA WorkersKeep == WorkersInv /\ [WorkersNext]_workerVars => WorkersInv'
<1> SUFFICES ASSUME WorkersInv, [WorkersNext]_workerVars PROVE WorkersInv'
  OBVIOUS
<1>1. ASSUME NEW c \in Handles, ProcessorSteps(c) PROVE WorkersInv'
  BY <1>1, ProcessorIteratesKeeps, ProcessorHandsOverKeeps, ProcessorFinishesKeeps
  DEF ProcessorSteps
<1>2. ASSUME NEW c \in Handles, EventHappens(c) PROVE WorkersInv'
  BY <1>2, OthersKeep
<1>3. ASSUME NEW c \in Handles, TimePasses(c) PROVE WorkersInv'
  BY <1>3, TimePassesKeeps
<1>4. CASE TimerSteps
  BY <1>4, TimerConsumesKeeps, TimerVisitsKeeps, TimerSleepsKeeps, OthersKeep
  DEF TimerSteps, Workers
<1>5. CASE NaiveSteps
  BY <1>5, NaiveConsumesKeeps, NaivePollsKeeps, OthersKeep DEF NaiveSteps, Workers
<1>6. ASSUME NEW w \in EventWorkers, EventSteps(w) PROVE WorkersInv'
  BY <1>6, EventConsumesKeeps, EventArrivesKeeps, EventIteratesKeeps, EventHandsOverKeeps,
     OthersKeep
  DEF EventSteps, Workers, EventWorkers
<1>7. CASE ExecutorStopBegins \/ StopWorker \/ UNCHANGED workerVars
  BY <1>7, OthersKeep
<1> QED
  BY <1>1, <1>2, <1>3, <1>4, <1>5, <1>6, <1>7 DEF WorkersNext

\* The Executor's workers, for any number of coroutines and whatever actions they return:
\* every coroutine that has not finished is in exactly one place (with the processor, in a
\* backlog, in a queue, registered with epoll, or on its way to the other event worker), and
\* what epoll may report is registered and waits for that event.
THEOREM HeldByOne == WorkersSpec => []HeldOnce
<1>1. WorkersInv => HeldOnce
  BY DEF WorkersInv, HeldOnce
<1> QED
  BY <1>1, WorkersStart, WorkersKeep, PTL DEF WorkersSpec
=============================================================================
