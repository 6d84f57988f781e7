--------------------------- MODULE AsyncLockProofs ----------------------------
(***************************************************************************)
(* Proofs about AsyncLock, for any number of coroutines, processors,       *)
(* threads and rounds, and about FastQueue, the lists in which processors  *)
(* and workers keep coroutines, for any entries and any number of queues.  *)
(***************************************************************************)
EXTENDS AsyncLock, FastQueue, FiniteSetTheorems, SequenceTheorems,
        WellFoundedInduction, TLAPS

\* Where a processor is between taking the lock attempt up and giving the
\* coroutine to the wait list, and where it iterates a coroutine at all.
Attempting == {"try_lock", "waitAsync", "sleep", "add", "count"}
Releasing  == {"unlock", "uncount", "notifyUnlock"}
Iterating  == Attempting \cup Releasing

\* A processor iterates a coroutine of its own, and only then has one.
RunningOwn ==
  \A p \in Processors :
    IF pc[p] \in Iterating
      THEN running[p] \in Coroutines /\ ProcessorOf[running[p]] = p
      ELSE running[p] = NoOne

\* The guard of a coroutine that is being iterated owns the lock from the
\* return of lockAsyncInline until the return of unlock.
OwnsByPc ==
  \A p \in Processors :
    /\ pc[p] \in Attempting => ~ owns[running[p]]
    /\ pc[p] \in Releasing  => owns[running[p]]

\* Only a client that holds the mutex is between lock and unlock.
HolderInside ==
  /\ \A a \in Inside : mutex = a
  /\ \A p \in Processors : pc[p] = "count" => mutex = running[p]
  /\ \A t \in Threads : pc[t] = "count" => mutex = t

\* A coroutine is in one place: queued, iterated, or asleep.
OnePlace ==
  /\ ready \cap asleep = {}
  /\ \A p \in Processors :
       pc[p] \in Iterating =>
         /\ running[p] \notin ready \cup list
         /\ pc[p] # "add" => running[p] \notin asleep

\* Whoever is not through still has a round to do.
RoundsLeft ==
  /\ \A c \in ready \cup asleep : left[c] > 0
  /\ \A p \in Processors : pc[p] \in Iterating => left[running[p]] > 0
  /\ \A t \in Threads : pc[t] # "idle" => left[t] > 0

\* A coroutine that owns the lock is queued or iterated.
OwnersRun ==
  \A c \in Coroutines :
    owns[c] => c \in ready \/ running[ProcessorOf[c]] = c

IInv == /\ TypeOK
        /\ RunningOwn
        /\ OwnsByPc
        /\ HolderInside
        /\ SleepersListed
        /\ OnePlace
        /\ RoundsLeft
        /\ OwnersRun

-----------------------------------------------------------------------------
(* The invariant holds initially and is preserved by every step. *)

\* A new lock and clients that have not begun satisfy the inductive invariant.
LEMMA InitInv == Init => IInv
BY ConstantsAssumption
   DEF Init, IInv, TypeOK, RunningOwn, OwnsByPc, HolderInside, Inside,
       Unlocking, SleepersListed, OnePlace, RoundsLeft, OwnersRun, Executors,
       Agents, Labels, Iterating, Attempting, Releasing

\* Every step of a processor, a thread or a waking client preserves it.
LEMMA StepInv == IInv /\ [Next]_vars => IInv'
<1> SUFFICES ASSUME IInv, [Next]_vars PROVE IInv'
  OBVIOUS
<1> USE ConstantsAssumption
<1> USE DEF Executors, Agents, Labels, Iterating, Attempting, Releasing
<1>1. ASSUME NEW c \in Coroutines, Dispatch(c) PROVE IInv'
  <2>1. TypeOK'
    BY <1>1 DEF IInv, TypeOK, RunningOwn, RoundsLeft, Dispatch, Goto
  <2>2. RunningOwn'
    BY <1>1 DEF IInv, TypeOK, RunningOwn, Dispatch, Goto
  <2>3. OwnsByPc'
    BY <1>1 DEF IInv, TypeOK, RunningOwn, OwnsByPc, Dispatch, Goto
  <2>4. HolderInside'
    BY <1>1
       DEF IInv, TypeOK, RunningOwn, OwnsByPc, HolderInside, Inside, Unlocking,
           Dispatch, Goto
  <2>5. SleepersListed'
    BY <1>1
       DEF IInv, TypeOK, RunningOwn, SleepersListed, OnePlace, Dispatch, Goto
  <2>6. OnePlace'
    BY <1>1
       DEF IInv, TypeOK, RunningOwn, OnePlace, SleepersListed, Dispatch, Goto
  <2>7. RoundsLeft'
    BY <1>1
       DEF IInv, TypeOK, RunningOwn, OnePlace, RoundsLeft, SleepersListed,
           Dispatch, Goto
  <2>8. OwnersRun'
    BY <1>1 DEF IInv, TypeOK, RunningOwn, OwnsByPc, OwnersRun, Dispatch, Goto
  <2> QED BY <2>1, <2>2, <2>3, <2>4, <2>5, <2>6, <2>7, <2>8 DEF IInv
<1>2. ASSUME NEW p \in Processors, TryLock(p) PROVE IInv'
  <2>1. TypeOK'
    BY <1>2 DEF IInv, TypeOK, RunningOwn, RoundsLeft, TryLock, Goto
  <2>2. RunningOwn'
    BY <1>2 DEF IInv, TypeOK, RunningOwn, TryLock, Goto
  <2>3. OwnsByPc'
    BY <1>2 DEF IInv, TypeOK, RunningOwn, OwnsByPc, TryLock, Goto
  <2>4. HolderInside'
    BY <1>2
       DEF IInv, TypeOK, RunningOwn, OwnsByPc, HolderInside, Inside, Unlocking,
           TryLock, Goto
  <2>5. SleepersListed'
    BY <1>2
       DEF IInv, TypeOK, RunningOwn, SleepersListed, OnePlace, TryLock, Goto
  <2>6. OnePlace'
    BY <1>2
       DEF IInv, TypeOK, RunningOwn, OnePlace, SleepersListed, TryLock, Goto
  <2>7. RoundsLeft'
    BY <1>2
       DEF IInv, TypeOK, RunningOwn, OnePlace, RoundsLeft, SleepersListed,
           TryLock, Goto
  <2>8. OwnersRun'
    BY <1>2 DEF IInv, TypeOK, RunningOwn, OwnsByPc, OwnersRun, TryLock, Goto
  <2> QED BY <2>1, <2>2, <2>3, <2>4, <2>5, <2>6, <2>7, <2>8 DEF IInv
<1>3. ASSUME NEW p \in Processors, CountCoroutine(p) PROVE IInv'
  <2>1. TypeOK'
    BY <1>3
       DEF IInv, TypeOK, RunningOwn, RoundsLeft, CountCoroutine, Requeue, Goto
  <2>2. RunningOwn'
    BY <1>3 DEF IInv, TypeOK, RunningOwn, CountCoroutine, Requeue, Goto
  <2>3. OwnsByPc'
    BY <1>3
       DEF IInv, TypeOK, RunningOwn, OwnsByPc, CountCoroutine, Requeue, Goto
  <2>4. HolderInside'
    BY <1>3
       DEF IInv, TypeOK, RunningOwn, OwnsByPc, HolderInside, Inside, Unlocking,
           CountCoroutine, Requeue, Goto
  <2>5. SleepersListed'
    BY <1>3
       DEF IInv, TypeOK, RunningOwn, SleepersListed, OnePlace, CountCoroutine,
           Requeue, Goto
  <2>6. OnePlace'
    BY <1>3
       DEF IInv, TypeOK, RunningOwn, OnePlace, SleepersListed, CountCoroutine,
           Requeue, Goto
  <2>7. RoundsLeft'
    BY <1>3
       DEF IInv, TypeOK, RunningOwn, OnePlace, RoundsLeft, SleepersListed,
           CountCoroutine, Requeue, Goto
  <2>8. OwnersRun'
    BY <1>3
       DEF IInv, TypeOK, RunningOwn, OwnsByPc, OwnersRun, CountCoroutine,
           Requeue, Goto
  <2> QED BY <2>1, <2>2, <2>3, <2>4, <2>5, <2>6, <2>7, <2>8 DEF IInv
<1>4. ASSUME NEW p \in Processors, WaitAsync(p) PROVE IInv'
  <2>1. TypeOK'
    BY <1>4 DEF IInv, TypeOK, RunningOwn, RoundsLeft, WaitAsync, Requeue, Goto
  <2>2. RunningOwn'
    BY <1>4 DEF IInv, TypeOK, RunningOwn, WaitAsync, Requeue, Goto
  <2>3. OwnsByPc'
    BY <1>4 DEF IInv, TypeOK, RunningOwn, OwnsByPc, WaitAsync, Requeue, Goto
  <2>4. HolderInside'
    BY <1>4
       DEF IInv, TypeOK, RunningOwn, OwnsByPc, HolderInside, Inside, Unlocking,
           WaitAsync, Requeue, Goto
  <2>5. SleepersListed'
    BY <1>4
       DEF IInv, TypeOK, RunningOwn, SleepersListed, OnePlace, WaitAsync,
           Requeue, Goto
  <2>6. OnePlace'
    BY <1>4
       DEF IInv, TypeOK, RunningOwn, OnePlace, SleepersListed, WaitAsync,
           Requeue, Goto
  <2>7. RoundsLeft'
    BY <1>4
       DEF IInv, TypeOK, RunningOwn, OnePlace, RoundsLeft, SleepersListed,
           WaitAsync, Requeue, Goto
  <2>8. OwnersRun'
    BY <1>4
       DEF IInv, TypeOK, RunningOwn, OwnsByPc, OwnersRun, WaitAsync, Requeue,
           Goto
  <2> QED BY <2>1, <2>2, <2>3, <2>4, <2>5, <2>6, <2>7, <2>8 DEF IInv
<1>5. ASSUME NEW p \in Processors, Sleep(p) PROVE IInv'
  <2>1. TypeOK'
    BY <1>5 DEF IInv, TypeOK, RunningOwn, RoundsLeft, Sleep, Goto
  <2>2. RunningOwn'
    BY <1>5 DEF IInv, TypeOK, RunningOwn, Sleep, Goto
  <2>3. OwnsByPc'
    BY <1>5 DEF IInv, TypeOK, RunningOwn, OwnsByPc, Sleep, Goto
  <2>4. HolderInside'
    BY <1>5
       DEF IInv, TypeOK, RunningOwn, OwnsByPc, HolderInside, Inside, Unlocking,
           Sleep, Goto
  <2>5. SleepersListed'
    BY <1>5 DEF IInv, TypeOK, RunningOwn, SleepersListed, OnePlace, Sleep, Goto
  <2>6. OnePlace'
    BY <1>5 DEF IInv, TypeOK, RunningOwn, OnePlace, SleepersListed, Sleep, Goto
  <2>7. RoundsLeft'
    BY <1>5
       DEF IInv, TypeOK, RunningOwn, OnePlace, RoundsLeft, SleepersListed,
           Sleep, Goto
  <2>8. OwnersRun'
    BY <1>5 DEF IInv, TypeOK, RunningOwn, OwnsByPc, OwnersRun, Sleep, Goto
  <2> QED BY <2>1, <2>2, <2>3, <2>4, <2>5, <2>6, <2>7, <2>8 DEF IInv
<1>6. ASSUME NEW p \in Processors, Add(p) PROVE IInv'
  <2>1. TypeOK'
    BY <1>6 DEF IInv, TypeOK, RunningOwn, RoundsLeft, Add, Goto
  <2>2. RunningOwn'
    BY <1>6 DEF IInv, TypeOK, RunningOwn, Add, Goto
  <2>3. OwnsByPc'
    BY <1>6 DEF IInv, TypeOK, RunningOwn, OwnsByPc, Add, Goto
  <2>4. HolderInside'
    BY <1>6
       DEF IInv, TypeOK, RunningOwn, OwnsByPc, HolderInside, Inside, Unlocking,
           Add, Goto
  <2>5. SleepersListed'
    BY <1>6 DEF IInv, TypeOK, RunningOwn, SleepersListed, OnePlace, Add, Goto
  <2>6. OnePlace'
    BY <1>6 DEF IInv, TypeOK, RunningOwn, OnePlace, SleepersListed, Add, Goto
  <2>7. RoundsLeft'
    BY <1>6
       DEF IInv, TypeOK, RunningOwn, OnePlace, RoundsLeft, SleepersListed, Add,
           Goto
  <2>8. OwnersRun'
    BY <1>6 DEF IInv, TypeOK, RunningOwn, OwnsByPc, OwnersRun, Add, Goto
  <2> QED BY <2>1, <2>2, <2>3, <2>4, <2>5, <2>6, <2>7, <2>8 DEF IInv
<1>7. ASSUME NEW p \in Processors, OnNewItem(p) PROVE IInv'
  <2>1. TypeOK'
    BY <1>7 DEF IInv, TypeOK, RunningOwn, RoundsLeft, OnNewItem, Goto
  <2>2. RunningOwn'
    BY <1>7 DEF IInv, TypeOK, RunningOwn, OnNewItem, Goto
  <2>3. OwnsByPc'
    BY <1>7 DEF IInv, TypeOK, RunningOwn, OwnsByPc, OnNewItem, Goto
  <2>4. HolderInside'
    BY <1>7
       DEF IInv, TypeOK, RunningOwn, OwnsByPc, HolderInside, Inside, Unlocking,
           OnNewItem, Goto
  <2>5. SleepersListed'
    BY <1>7
       DEF IInv, TypeOK, RunningOwn, SleepersListed, OnePlace, OnNewItem, Goto
  <2>6. OnePlace'
    BY <1>7
       DEF IInv, TypeOK, RunningOwn, OnePlace, SleepersListed, OnNewItem, Goto
  <2>7. RoundsLeft'
    BY <1>7
       DEF IInv, TypeOK, RunningOwn, OnePlace, RoundsLeft, SleepersListed,
           OnNewItem, Goto
  <2>8. OwnersRun'
    BY <1>7 DEF IInv, TypeOK, RunningOwn, OwnsByPc, OwnersRun, OnNewItem, Goto
  <2> QED BY <2>1, <2>2, <2>3, <2>4, <2>5, <2>6, <2>7, <2>8 DEF IInv
<1>8. ASSUME NEW p \in Processors, NotifyNew(p) PROVE IInv'
  <2>1. TypeOK'
    BY <1>8
       DEF IInv, TypeOK, RunningOwn, RoundsLeft, NotifyNew, Notified, Wake,
           Goto
  <2>2. RunningOwn'
    BY <1>8 DEF IInv, TypeOK, RunningOwn, NotifyNew, Notified, Wake, Goto
  <2>3. OwnsByPc'
    BY <1>8
       DEF IInv, TypeOK, RunningOwn, OwnsByPc, NotifyNew, Notified, Wake, Goto
  <2>4. HolderInside'
    BY <1>8
       DEF IInv, TypeOK, RunningOwn, OwnsByPc, HolderInside, Inside, Unlocking,
           NotifyNew, Notified, Wake, Goto
  <2>5. SleepersListed'
    BY <1>8
       DEF IInv, TypeOK, RunningOwn, SleepersListed, OnePlace, NotifyNew,
           Notified, Wake, Goto
  <2>6. OnePlace'
    BY <1>8
       DEF IInv, TypeOK, RunningOwn, OnePlace, SleepersListed, NotifyNew,
           Notified, Wake, Goto
  <2>7. RoundsLeft'
    BY <1>8
       DEF IInv, TypeOK, RunningOwn, OnePlace, RoundsLeft, SleepersListed,
           NotifyNew, Notified, Wake, Goto
  <2>8. OwnersRun'
    BY <1>8
       DEF IInv, TypeOK, RunningOwn, OwnsByPc, OwnersRun, NotifyNew, Notified,
           Wake, Goto
  <2> QED BY <2>1, <2>2, <2>3, <2>4, <2>5, <2>6, <2>7, <2>8 DEF IInv
<1>9. ASSUME NEW p \in Processors, NotifyCoroutine(p) PROVE IInv'
  <2>1. TypeOK'
    BY <1>9
       DEF IInv, TypeOK, RunningOwn, RoundsLeft, NotifyCoroutine, Notified,
           Wake, Goto
  <2>2. RunningOwn'
    BY <1>9 DEF IInv, TypeOK, RunningOwn, NotifyCoroutine, Notified, Wake, Goto
  <2>3. OwnsByPc'
    BY <1>9
       DEF IInv, TypeOK, RunningOwn, OwnsByPc, NotifyCoroutine, Notified, Wake,
           Goto
  <2>4. HolderInside'
    BY <1>9
       DEF IInv, TypeOK, RunningOwn, OwnsByPc, HolderInside, Inside, Unlocking,
           NotifyCoroutine, Notified, Wake, Goto
  <2>5. SleepersListed'
    BY <1>9
       DEF IInv, TypeOK, RunningOwn, SleepersListed, OnePlace, NotifyCoroutine,
           Notified, Wake, Goto
  <2>6. OnePlace'
    BY <1>9
       DEF IInv, TypeOK, RunningOwn, OnePlace, SleepersListed, NotifyCoroutine,
           Notified, Wake, Goto
  <2>7. RoundsLeft'
    BY <1>9
       DEF IInv, TypeOK, RunningOwn, OnePlace, RoundsLeft, SleepersListed,
           NotifyCoroutine, Notified, Wake, Goto
  <2>8. OwnersRun'
    BY <1>9
       DEF IInv, TypeOK, RunningOwn, OwnsByPc, OwnersRun, NotifyCoroutine,
           Notified, Wake, Goto
  <2> QED BY <2>1, <2>2, <2>3, <2>4, <2>5, <2>6, <2>7, <2>8 DEF IInv
<1>10. ASSUME NEW t \in Threads, ThreadLock(t) PROVE IInv'
  <2>1. TypeOK'
    BY <1>10 DEF IInv, TypeOK, RunningOwn, RoundsLeft, ThreadLock, Goto
  <2>2. RunningOwn'
    BY <1>10 DEF IInv, TypeOK, RunningOwn, ThreadLock, Goto
  <2>3. OwnsByPc'
    BY <1>10 DEF IInv, TypeOK, RunningOwn, OwnsByPc, ThreadLock, Goto
  <2>4. HolderInside'
    BY <1>10
       DEF IInv, TypeOK, RunningOwn, OwnsByPc, HolderInside, Inside, Unlocking,
           ThreadLock, Goto
  <2>5. SleepersListed'
    BY <1>10
       DEF IInv, TypeOK, RunningOwn, SleepersListed, OnePlace, ThreadLock, Goto
  <2>6. OnePlace'
    BY <1>10
       DEF IInv, TypeOK, RunningOwn, OnePlace, SleepersListed, ThreadLock, Goto
  <2>7. RoundsLeft'
    BY <1>10
       DEF IInv, TypeOK, RunningOwn, OnePlace, RoundsLeft, SleepersListed,
           ThreadLock, Goto
  <2>8. OwnersRun'
    BY <1>10 DEF IInv, TypeOK, RunningOwn, OwnsByPc, OwnersRun, ThreadLock, Goto
  <2> QED BY <2>1, <2>2, <2>3, <2>4, <2>5, <2>6, <2>7, <2>8 DEF IInv
<1>11. ASSUME NEW t \in Threads, CountThread(t) PROVE IInv'
  <2>1. TypeOK'
    BY <1>11 DEF IInv, TypeOK, RunningOwn, RoundsLeft, CountThread, Goto
  <2>2. RunningOwn'
    BY <1>11 DEF IInv, TypeOK, RunningOwn, CountThread, Goto
  <2>3. OwnsByPc'
    BY <1>11 DEF IInv, TypeOK, RunningOwn, OwnsByPc, CountThread, Goto
  <2>4. HolderInside'
    BY <1>11
       DEF IInv, TypeOK, RunningOwn, OwnsByPc, HolderInside, Inside, Unlocking,
           CountThread, Goto
  <2>5. SleepersListed'
    BY <1>11
       DEF IInv, TypeOK, RunningOwn, SleepersListed, OnePlace, CountThread,
           Goto
  <2>6. OnePlace'
    BY <1>11
       DEF IInv, TypeOK, RunningOwn, OnePlace, SleepersListed, CountThread,
           Goto
  <2>7. RoundsLeft'
    BY <1>11
       DEF IInv, TypeOK, RunningOwn, OnePlace, RoundsLeft, SleepersListed,
           CountThread, Goto
  <2>8. OwnersRun'
    BY <1>11
       DEF IInv, TypeOK, RunningOwn, OwnsByPc, OwnersRun, CountThread, Goto
  <2> QED BY <2>1, <2>2, <2>3, <2>4, <2>5, <2>6, <2>7, <2>8 DEF IInv
<1>12. ASSUME NEW t \in Threads, NotifyThread(t) PROVE IInv'
  <2>1. TypeOK'
    BY <1>12
       DEF IInv, TypeOK, RunningOwn, RoundsLeft, NotifyThread, Notified, Wake,
           Goto
  <2>2. RunningOwn'
    BY <1>12 DEF IInv, TypeOK, RunningOwn, NotifyThread, Notified, Wake, Goto
  <2>3. OwnsByPc'
    BY <1>12
       DEF IInv, TypeOK, RunningOwn, OwnsByPc, NotifyThread, Notified, Wake,
           Goto
  <2>4. HolderInside'
    BY <1>12
       DEF IInv, TypeOK, RunningOwn, OwnsByPc, HolderInside, Inside, Unlocking,
           NotifyThread, Notified, Wake, Goto
  <2>5. SleepersListed'
    BY <1>12
       DEF IInv, TypeOK, RunningOwn, SleepersListed, OnePlace, NotifyThread,
           Notified, Wake, Goto
  <2>6. OnePlace'
    BY <1>12
       DEF IInv, TypeOK, RunningOwn, OnePlace, SleepersListed, NotifyThread,
           Notified, Wake, Goto
  <2>7. RoundsLeft'
    BY <1>12
       DEF IInv, TypeOK, RunningOwn, OnePlace, RoundsLeft, SleepersListed,
           NotifyThread, Notified, Wake, Goto
  <2>8. OwnersRun'
    BY <1>12
       DEF IInv, TypeOK, RunningOwn, OwnsByPc, OwnersRun, NotifyThread,
           Notified, Wake, Goto
  <2> QED BY <2>1, <2>2, <2>3, <2>4, <2>5, <2>6, <2>7, <2>8 DEF IInv
<1>13. ASSUME NEW e \in Executors, Unlock(e) PROVE IInv'
  <2>1. TypeOK'
    BY <1>13 DEF IInv, TypeOK, RunningOwn, RoundsLeft, Unlock, Goto
  <2>2. RunningOwn'
    BY <1>13 DEF IInv, TypeOK, RunningOwn, Unlock, Goto
  <2>3. OwnsByPc'
    BY <1>13 DEF IInv, TypeOK, RunningOwn, OwnsByPc, Unlock, Goto
  <2>4. HolderInside'
    BY <1>13
       DEF IInv, TypeOK, RunningOwn, OwnsByPc, HolderInside, Inside, Unlocking,
           Unlock, Goto
  <2>5. SleepersListed'
    BY <1>13
       DEF IInv, TypeOK, RunningOwn, SleepersListed, OnePlace, Unlock, Goto
  <2>6. OnePlace'
    BY <1>13
       DEF IInv, TypeOK, RunningOwn, OnePlace, SleepersListed, Unlock, Goto
  <2>7. RoundsLeft'
    BY <1>13
       DEF IInv, TypeOK, RunningOwn, OnePlace, RoundsLeft, SleepersListed,
           Unlock, Goto
  <2>8. OwnersRun'
    BY <1>13 DEF IInv, TypeOK, RunningOwn, OwnsByPc, OwnersRun, Unlock, Goto
  <2> QED BY <2>1, <2>2, <2>3, <2>4, <2>5, <2>6, <2>7, <2>8 DEF IInv
<1>14. ASSUME NEW e \in Executors, Uncount(e) PROVE IInv'
  <2>1. TypeOK'
    BY <1>14 DEF IInv, TypeOK, RunningOwn, RoundsLeft, Uncount, Goto
  <2>2. RunningOwn'
    BY <1>14 DEF IInv, TypeOK, RunningOwn, Uncount, Goto
  <2>3. OwnsByPc'
    BY <1>14 DEF IInv, TypeOK, RunningOwn, OwnsByPc, Uncount, Goto
  <2>4. HolderInside'
    BY <1>14
       DEF IInv, TypeOK, RunningOwn, OwnsByPc, HolderInside, Inside, Unlocking,
           Uncount, Goto
  <2>5. SleepersListed'
    BY <1>14
       DEF IInv, TypeOK, RunningOwn, SleepersListed, OnePlace, Uncount, Goto
  <2>6. OnePlace'
    BY <1>14
       DEF IInv, TypeOK, RunningOwn, OnePlace, SleepersListed, Uncount, Goto
  <2>7. RoundsLeft'
    BY <1>14
       DEF IInv, TypeOK, RunningOwn, OnePlace, RoundsLeft, SleepersListed,
           Uncount, Goto
  <2>8. OwnersRun'
    BY <1>14 DEF IInv, TypeOK, RunningOwn, OwnsByPc, OwnersRun, Uncount, Goto
  <2> QED BY <2>1, <2>2, <2>3, <2>4, <2>5, <2>6, <2>7, <2>8 DEF IInv
<1>15. ASSUME UNCHANGED vars PROVE IInv'
  BY <1>15
     DEF vars, IInv, TypeOK, RunningOwn, OwnsByPc, HolderInside, Inside,
         Unlocking, SleepersListed, OnePlace, RoundsLeft, OwnersRun
<1> QED BY <1>1, <1>2, <1>3, <1>4, <1>5, <1>6, <1>7, <1>8, <1>9, <1>10, <1>11,
           <1>12, <1>13, <1>14, <1>15
   DEF Next, ProcessorStep, ThreadStep, Finished

\* Every reachable state satisfies the inductive invariant.
THEOREM Invariance == Spec => []IInv
BY InitInv, StepInv, PTL DEF Spec

\* Type correctness of the lock, its wait list and its clients.
THEOREM TypeCorrect == Spec => []TypeOK
BY Invariance, PTL DEF IInv

\* A sleeping coroutine is on the wait list or about to be put there.
THEOREM SleepersAreListed == Spec => []SleepersListed
BY Invariance, PTL DEF IInv

\* Two clients are never between lock and unlock together.
THEOREM Exclusion == Spec => []MutualExclusion
<1>1. IInv => MutualExclusion
  BY DEF IInv, HolderInside, MutualExclusion
<1> QED BY <1>1, Invariance, PTL

-----------------------------------------------------------------------------
(* The counter and the wakeups *)

\* The clients between lock and unlock can be counted.
LEMMA CountedFinite == IsFiniteSet(Counted)
<1>1. Counted \subseteq Coroutines \cup Threads
  BY DEF Counted
<1> QED BY <1>1, FiniteAssumption, FS_Union, FS_Subset

\* Each step changes m_counter by what it changes that number.
LEMMA StepCounter == IInv /\ CounterExact /\ [Next]_vars => CounterExact'
<1> SUFFICES ASSUME IInv, CounterExact, [Next]_vars
             PROVE  CounterExact'
  OBVIOUS
<1> USE ConstantsAssumption
    DEF Executors, Agents, Labels, Iterating, Attempting, Releasing
<1>1. ASSUME NEW a, a \notin Counted, Counted' = Counted \cup {a},
             counter' = counter + 1
      PROVE  CounterExact'
  BY <1>1, CountedFinite, FS_AddElement, FS_CardinalityType DEF CounterExact
<1>2. ASSUME NEW a, a \in Counted, Counted' = Counted \ {a},
             counter' = counter - 1
      PROVE  CounterExact'
  BY <1>2, CountedFinite, FS_RemoveElement DEF CounterExact
<1>3. ASSUME UNCHANGED <<Counted, counter>> PROVE CounterExact'
  BY <1>3 DEF CounterExact
<1>4. ASSUME NEW c \in Coroutines, Dispatch(c) PROVE CounterExact'
  BY <1>3, <1>4 DEF Dispatch, Goto, IInv, TypeOK, RunningOwn, Counted
<1>5. ASSUME NEW p \in Processors,
             \/ TryLock(p) \/ WaitAsync(p) \/ Sleep(p) \/ Add(p)
             \/ OnNewItem(p) \/ NotifyNew(p)
      PROVE  CounterExact'
  BY <1>3, <1>5
     DEF TryLock, WaitAsync, Requeue, Sleep, Add, OnNewItem, NotifyNew, Goto,
         IInv, TypeOK, RunningOwn, Counted
<1>6. ASSUME NEW p \in Processors, CountCoroutine(p) PROVE CounterExact'
  <2>1. running[p] \notin Counted
    BY <1>6 DEF CountCoroutine, Goto, IInv, RunningOwn, OwnsByPc, Counted
  <2>2. Counted' = Counted \cup {running[p]}
    BY <1>6 DEF CountCoroutine, Requeue, Goto, IInv, TypeOK, RunningOwn,
                Counted
  <2> QED BY <1>1, <1>6, <2>1, <2>2 DEF CountCoroutine
<1>7. ASSUME NEW t \in Threads, CountThread(t) PROVE CounterExact'
  <2>1. t \notin Counted
    BY <1>7 DEF CountThread, Goto, Counted
  <2>2. Counted' = Counted \cup {t}
    BY <1>7 DEF CountThread, Goto, IInv, TypeOK, Counted
  <2> QED BY <1>1, <1>7, <2>1, <2>2 DEF CountThread
<1>8. ASSUME NEW e \in Executors, Unlock(e) PROVE CounterExact'
  BY <1>3, <1>8 DEF Unlock, Goto, IInv, TypeOK, RunningOwn, Counted
<1>9. ASSUME NEW p \in Processors, Uncount(p) PROVE CounterExact'
  <2>1. running[p] \in Counted
    BY <1>9 DEF Uncount, Goto, IInv, RunningOwn, OwnsByPc, Counted
  <2>2. Counted' = Counted \ {running[p]}
    BY <1>9 DEF Uncount, Goto, IInv, TypeOK, RunningOwn, Counted
  <2> QED BY <1>2, <1>9, <2>1, <2>2 DEF Uncount
<1>10. ASSUME NEW t \in Threads, Uncount(t) PROVE CounterExact'
  <2>1. t \in Counted
    BY <1>10 DEF Uncount, Goto, Counted
  <2>2. Counted' = Counted \ {t}
    BY <1>10 DEF Uncount, Goto, IInv, TypeOK, Counted
  <2> QED BY <1>2, <1>10, <2>1, <2>2 DEF Uncount
<1>11. ASSUME NEW p \in Processors, NotifyCoroutine(p) PROVE CounterExact'
  BY <1>3, <1>11
     DEF NotifyCoroutine, Goto, IInv, TypeOK, RunningOwn, Counted
<1>12. ASSUME NEW t \in Threads, ThreadLock(t) \/ NotifyThread(t)
       PROVE  CounterExact'
  BY <1>3, <1>12 DEF ThreadLock, NotifyThread, Goto, IInv, TypeOK, Counted
<1>13. ASSUME UNCHANGED vars PROVE CounterExact'
  BY <1>3, <1>13 DEF vars, Counted
<1> QED BY <1>4, <1>5, <1>6, <1>7, <1>8, <1>9, <1>10, <1>11, <1>12, <1>13
        DEF Next, ProcessorStep, ThreadStep, Finished

\* m_counter is exactly the number of clients between lock and unlock, so
\* that no load of it ever finds a negative value.
THEOREM CounterIsExact == Spec => []CounterExact
<1>1. Init => CounterExact
  <2> SUFFICES ASSUME Init PROVE CounterExact
    OBVIOUS
  <2>1. Counted = {}
    BY ConstantsAssumption DEF Init, Counted, Executors
  <2> QED BY <2>1, FS_EmptySet DEF Init, CounterExact
<1> QED BY <1>1, StepCounter, Invariance, PTL DEF Spec

\* When the counter keeps the listener from notifying, a client is counted
\* that will notify the list when it unlocks.
LEMMA StepWakeup ==
  IInv /\ CounterExact /\ NoLostWakeup /\ [Next]_vars => NoLostWakeup'
<1> SUFFICES ASSUME IInv, CounterExact, NoLostWakeup, [Next]_vars
             PROVE  NoLostWakeup'
  OBVIOUS
<1> USE ConstantsAssumption
    DEF Executors, Agents, Labels, Iterating, Attempting, Releasing
<1>1. ASSUME NEW c \in Coroutines, Dispatch(c) PROVE NoLostWakeup'
  BY <1>1 DEF Dispatch, Goto, IInv, TypeOK, NoLostWakeup
<1>2. ASSUME NEW p \in Processors,
             TryLock(p) \/ Sleep(p) \/ Add(p) \/ Unlock(p) \/ Uncount(p)
      PROVE  NoLostWakeup'
  BY <1>2 DEF TryLock, Sleep, Add, Unlock, Uncount, Goto, IInv, TypeOK,
              NoLostWakeup
<1>3. ASSUME NEW p \in Processors, CountCoroutine(p) \/ WaitAsync(p)
      PROVE  NoLostWakeup'
  BY <1>3 DEF CountCoroutine, WaitAsync, Requeue, Goto, IInv, TypeOK,
              NoLostWakeup
<1>4. ASSUME NEW p \in Processors, OnNewItem(p) PROVE NoLostWakeup'
  <2>1. CASE counter > 0
    <3>1. Counted # {}
      BY <2>1, FS_EmptySet DEF CounterExact
    <3>2. ready # {} \/ \E e \in Executors : pc[e] # "idle" /\ e # p
      BY <3>1, <1>4 DEF Counted, IInv, OwnersRun, RunningOwn, OnNewItem, Goto
    <3> QED BY <3>2, <1>4 DEF OnNewItem, Goto, IInv, TypeOK, NoLostWakeup
  <2>2. CASE counter = 0
    BY <2>2, <1>4 DEF OnNewItem, Goto, IInv, TypeOK, NoLostWakeup
  <2> QED BY <1>4, <2>1, <2>2 DEF OnNewItem
<1>5. ASSUME NEW p \in Processors, NotifyNew(p) \/ NotifyCoroutine(p)
      PROVE  NoLostWakeup'
  BY <1>5 DEF NotifyNew, NotifyCoroutine, Notified, Wake, NoLostWakeup
<1>6. ASSUME NEW t \in Threads,
             ThreadLock(t) \/ CountThread(t) \/ Unlock(t) \/ Uncount(t)
      PROVE  NoLostWakeup'
  BY <1>6 DEF ThreadLock, CountThread, Unlock, Uncount, Goto, IInv, TypeOK,
              NoLostWakeup
<1>7. ASSUME NEW t \in Threads, NotifyThread(t) PROVE NoLostWakeup'
  BY <1>7 DEF NotifyThread, Notified, Wake, NoLostWakeup
<1>8. ASSUME UNCHANGED vars PROVE NoLostWakeup'
  BY <1>8 DEF vars, NoLostWakeup
<1> QED BY <1>1, <1>2, <1>3, <1>4, <1>5, <1>6, <1>7, <1>8
        DEF Next, ProcessorStep, ThreadStep, Finished

\* While a coroutine waits on the list, someone is on the way to wake it.
THEOREM WakeupsNotLost == Spec => []NoLostWakeup
<1>1. Init => NoLostWakeup
  BY DEF Init, NoLostWakeup
<1> QED BY <1>1, StepWakeup, CounterIsExact, Invariance, PTL DEF Spec

-----------------------------------------------------------------------------
(* Refinement of CriticalSection *)

Pending == {a \in Agents : left[a] > 0}

\* A new lock is a free critical section.
LEMMA InitSection == Init => Section!Init
BY ConstantsAssumption
   DEF Init, Section!Init, Inside, Unlocking, Agents, Executors

\* Every step of the lock is a step of the critical section, or none.
LEMMA StepSection == IInv /\ [Next]_vars => [Section!Next]_Section!vars
<1> SUFFICES ASSUME IInv, [Next]_vars
             PROVE  [Section!Next]_Section!vars
  OBVIOUS
<1> USE ConstantsAssumption
    DEF Executors, Agents, Labels, Iterating, Attempting, Releasing
\* Steps outside the lock's own operations leave the section alone.
<1>1. ASSUME NEW c \in Coroutines, Dispatch(c)
      PROVE  UNCHANGED Section!vars
  BY <1>1 DEF Dispatch, Goto, IInv, TypeOK, RunningOwn, Inside, Unlocking,
              Section!vars
<1>2. ASSUME NEW p \in Processors,
             \/ TryLock(p) \/ WaitAsync(p) \/ Sleep(p) \/ Add(p)
             \/ OnNewItem(p) \/ NotifyNew(p)
      PROVE  UNCHANGED Section!vars
  BY <1>2 DEF TryLock, WaitAsync, Requeue, Sleep, Add, OnNewItem, NotifyNew,
              Goto, IInv, TypeOK, RunningOwn, Inside, Unlocking, Section!vars
<1>3. ASSUME NEW t \in Threads, ThreadLock(t)
      PROVE  UNCHANGED Section!vars
  BY <1>3 DEF ThreadLock, Goto, IInv, TypeOK, Inside, Unlocking, Section!vars
<1>4. ASSUME NEW p \in Processors, CountCoroutine(p)
      PROVE  Section!Enter(running[p])
  <2>1. running[p] \in Pending /\ mutex = running[p] /\ ~ owns[running[p]]
    BY <1>4 DEF CountCoroutine, Goto, IInv, RunningOwn, OwnsByPc,
                HolderInside, RoundsLeft, Pending
  <2>2. Inside = {}
    BY <1>4, <2>1 DEF CountCoroutine, Goto, IInv, RunningOwn, HolderInside,
                      Inside
  <2>3. Inside' = {running[p]}
    BY <1>4, <2>2 DEF CountCoroutine, Requeue, Goto, IInv, TypeOK, RunningOwn,
                      Inside, Unlocking
  <2>4. UNCHANGED Pending
    BY <1>4 DEF CountCoroutine, Pending
  <2> QED BY <2>1, <2>2, <2>3, <2>4 DEF Section!Enter, Pending
<1>5. ASSUME NEW t \in Threads, CountThread(t)
      PROVE  Section!Enter(t)
  <2>1. t \in Pending /\ mutex = t
    BY <1>5 DEF CountThread, Goto, IInv, HolderInside, RoundsLeft, Pending
  <2>2. Inside = {}
    BY <1>5, <2>1 DEF CountThread, Goto, IInv, HolderInside, Inside
  <2>3. Inside' = {t}
    BY <1>5, <2>2 DEF CountThread, Goto, IInv, TypeOK, Inside, Unlocking
  <2>4. UNCHANGED Pending
    BY <1>5 DEF CountThread, Pending
  <2> QED BY <2>1, <2>2, <2>3, <2>4 DEF Section!Enter, Pending
<1>6. ASSUME NEW p \in Processors, Unlock(p)
      PROVE  Section!Leave(running[p])
  <2>1. Inside = {running[p]}
    BY <1>6 DEF Unlock, Goto, IInv, RunningOwn, OwnsByPc, HolderInside,
                Inside, Unlocking
  <2>2. Inside' = {}
    BY <1>6, <2>1 DEF Unlock, Goto, IInv, TypeOK, RunningOwn, Inside, Unlocking
  <2> QED BY <1>6, <2>1, <2>2 DEF Section!Leave, Unlock
<1>7. ASSUME NEW t \in Threads, Unlock(t)
      PROVE  Section!Leave(t)
  <2>1. Inside = {t}
    BY <1>7 DEF Unlock, Goto, IInv, HolderInside, Inside
  <2>2. Inside' = {}
    BY <1>7, <2>1 DEF Unlock, Goto, IInv, TypeOK, Inside, Unlocking
  <2> QED BY <1>7, <2>1, <2>2 DEF Section!Leave, Unlock
<1>8. ASSUME NEW e \in Executors, Uncount(e)
      PROVE  UNCHANGED Section!vars
  BY <1>8 DEF Uncount, Goto, IInv, TypeOK, RunningOwn, Inside, Unlocking,
              Section!vars
<1>9. ASSUME NEW p \in Processors, NotifyCoroutine(p)
      PROVE  [Section!Next]_Section!vars
  <2> DEFINE c == running[p]
  <2>1. c \in Agents /\ c \in Pending \ Inside
    BY <1>9 DEF NotifyCoroutine, Goto, IInv, RunningOwn, RoundsLeft, Inside,
                Unlocking, Pending
  <2>2. UNCHANGED Inside
    BY <1>9 DEF NotifyCoroutine, Goto, IInv, TypeOK, RunningOwn, Inside,
                Unlocking
  <2>3. Pending' \in {Pending, Pending \ {c}}
    BY <1>9, <2>1 DEF NotifyCoroutine, IInv, TypeOK, RunningOwn, Pending
  <2> HIDE DEF c
  <2>4. \/ \E a \in Agents : Section!Withdraw(a)
        \/ UNCHANGED Section!vars
    BY <2>1, <2>2, <2>3 DEF Section!Withdraw, Section!vars, Pending
  <2> QED BY <2>4 DEF Section!Next
<1>10. ASSUME NEW t \in Threads, NotifyThread(t)
       PROVE  Section!Withdraw(t) \/ UNCHANGED Section!vars
  <2>1. t \in Pending \ Inside
    BY <1>10 DEF NotifyThread, Goto, IInv, RoundsLeft, Inside, Pending
  <2>2. UNCHANGED Inside
    BY <1>10 DEF NotifyThread, Goto, IInv, TypeOK, Inside, Unlocking
  <2>3. Pending' \in {Pending, Pending \ {t}}
    BY <1>10, <2>1 DEF NotifyThread, IInv, TypeOK, Pending
  <2> QED BY <2>1, <2>2, <2>3 DEF Section!Withdraw, Section!vars, Pending
<1>11. ASSUME UNCHANGED vars PROVE UNCHANGED Section!vars
  BY <1>11 DEF vars, Inside, Unlocking, Section!vars
<1>12. ASSUME NEW p \in Processors, ProcessorStep(p)
       PROVE  [Section!Next]_Section!vars
  <2>1. CASE CountCoroutine(p)
    BY <2>1, <1>4 DEF CountCoroutine, Goto, IInv, RunningOwn, Section!Next
  <2>2. CASE Unlock(p)
    BY <2>2, <1>6 DEF Unlock, Goto, IInv, RunningOwn, Section!Next
  <2>3. CASE NotifyCoroutine(p)
    BY <2>3, <1>9
  <2> QED BY <1>2, <1>8, <1>12, <2>1, <2>2, <2>3 DEF ProcessorStep
<1>13. ASSUME NEW t \in Threads, ThreadStep(t)
       PROVE  [Section!Next]_Section!vars
  BY <1>3, <1>5, <1>7, <1>8, <1>10, <1>13 DEF ThreadStep, Section!Next
<1> QED BY <1>1, <1>11, <1>12, <1>13 DEF Next, Finished

\* The lock implements the critical section.
THEOREM Refinement == Spec => ImplementsSection
BY InitSection, StepSection, Invariance, PTL
   DEF Spec, ImplementsSection, Section!Spec

-----------------------------------------------------------------------------
(* FastQueue, linked lists: what a walk meets *)

\* s is linked from start to end by ref, and ends there.
Chained(s, start, end, n, ref) ==
  /\ n = Len(s)
  /\ n = 0 => start = NoEntry /\ end = NoEntry
  /\ n > 0 => start = s[1] /\ end = s[n] /\ ref[end] = NoEntry
  /\ \A i \in 1 .. n - 1 : ref[s[i]] = s[i + 1]

\* Every queue q is linked as c[q] says.
Linked(c) == \A q \in Queues : Chained(c[q], first[q], last[q], count[q], _ref)

\* No entry is at two places.
Apart(c) ==
  \A p, q \in Queues : \A i \in 1 .. Len(c[p]), j \in 1 .. Len(c[q]) :
    c[p][i] = c[q][j] => p = q /\ i = j

QueueTypes ==
  /\ first \in [Queues -> Entries \cup {NoEntry}] /\ last \in [Queues -> Entries \cup {NoEntry}]
  /\ count \in [Queues -> Nat] /\ _ref \in [Entries -> Entries \cup {NoEntry}]

QueueInv ==
  /\ QueueTypes
  /\ QueueContents \in [Queues -> Seq(Entries)]
  /\ Linked(QueueContents) /\ Apart(QueueContents)

\* A set of numbers has a least element.
LEMMA SmallestNumber ==
  ASSUME NEW S \in SUBSET Nat, S # {}
  PROVE  \E n \in S : \A k \in S : n <= k
<1> DEFINE T == {0 .. n : n \in S}
<1>1. T \subseteq FiniteSubsetsOf(Nat) /\ T # {}
  <2>1. \A n \in Nat : 0 .. n \in FiniteSubsetsOf(Nat)
    BY FS_Interval DEF FiniteSubsetsOf
  <2> QED BY <2>1
<1>2. PICK t \in T : \A u \in T : ~(<<u, t>> \in StrictSubsetOrdering(Nat))
  BY <1>1, FS_StrictSubsetOrderingWellFounded, WFMin
<1>3. PICK x \in S : t = 0 .. x
  OBVIOUS
<1>4. ASSUME NEW y \in S, ~(x <= y) PROVE FALSE
  <2>1. 0 .. y \in SUBSET Nat /\ 0 .. x \in SUBSET Nat
    OBVIOUS
  <2>2. 0 .. y \subseteq 0 .. x /\ x \notin 0 .. y /\ x \in 0 .. x
    BY <1>4
  <2>3. <<0 .. y, 0 .. x>> \in StrictSubsetOrdering(Nat)
    BY <2>1, <2>2 DEF StrictSubsetOrdering
  <2> QED BY <1>2, <1>3, <2>3
<1> QED
  BY <1>4

\* A walk along the links of a sequence gives the sequence.
LEMMA WalkMeets ==
  ASSUME NEW s \in Seq(Entries), NEW start, NEW end, NEW n, NEW ref,
         Chained(s, start, end, n, ref)
  PROVE  WalkFrom(start, ref, n) = s
<1> DEFINE body(f, k) ==
             IF k = 0 THEN <<>>
             ELSE Append(f[k - 1], IF k = 1 THEN start ELSE ref[f[k - 1][k - 1]])
           g == [k \in 0 .. n |-> SubSeq(s, 1, k)]
           walk == CHOOSE f : f = [k \in 0 .. n |-> body(f, k)]
<1>1. n \in Nat /\ n = Len(s)
  BY DEF Chained
<1>2. ASSUME NEW k \in 1 .. n
      PROVE  /\ SubSeq(s, 1, k) = Append(SubSeq(s, 1, k - 1), s[k])
             /\ s[k] = IF k = 1 THEN start ELSE ref[SubSeq(s, 1, k - 1)[k - 1]]
  <2>1. SubSeq(s, 1, k) = Append(SubSeq(s, 1, k - 1), s[k])
    BY <1>1
  <2>2. k = 1 => s[k] = start
    BY <1>1 DEF Chained
  <2>3. k # 1 => /\ SubSeq(s, 1, k - 1)[k - 1] = s[k - 1]
                 /\ k - 1 \in 1 .. n - 1 /\ k - 1 + 1 = k
    BY <1>1
  <2>4. k # 1 => s[k] = ref[SubSeq(s, 1, k - 1)[k - 1]]
    BY <1>1, <2>3 DEF Chained
  <2> QED BY <2>1, <2>2, <2>4
<1>3. g = [k \in 0 .. n |-> body(g, k)]
  <2>1. ASSUME NEW k \in 0 .. n PROVE SubSeq(s, 1, k) = body(g, k)
    <3>1. CASE k = 0
      BY <1>1, <3>1
    <3>2. CASE k # 0
      <4>1. k \in 1 .. n /\ k - 1 \in 0 .. n /\ g[k - 1] = SubSeq(s, 1, k - 1)
        BY <1>1, <3>2
      <4> QED BY <1>2, <3>2, <4>1
    <3> QED BY <3>1, <3>2
  <2> QED BY <2>1
<1>4. walk = [k \in 0 .. n |-> body(walk, k)]
  <2> HIDE DEF g, body
  <2> QED BY <1>3, Zenon
<1>5. /\ walk[0] = <<>>
      /\ \A k \in 1 .. n :
           walk[k] = Append(walk[k - 1], IF k = 1 THEN start ELSE ref[walk[k - 1][k - 1]])
  <2>1. \A k \in 0 .. n : walk[k] = body(walk, k)
    <3> HIDE DEF walk, body
    <3> QED BY <1>4
  <2> HIDE DEF walk
  <2>2. 0 \in 0 .. n /\ walk[0] = body(walk, 0)
    BY <1>1, <2>1
  <2>3. walk[0] = <<>>
    BY <2>2
  <2>4. ASSUME NEW k \in 1 .. n
        PROVE  walk[k] = Append(walk[k - 1],
                                IF k = 1 THEN start ELSE ref[walk[k - 1][k - 1]])
    <3>1. k \in 0 .. n /\ k # 0
      BY <1>1
    <3>2. walk[k] = body(walk, k)
      <4> HIDE DEF body
      <4> QED BY <2>1, <3>1
    <3> QED BY <3>1, <3>2
  <2> QED BY <2>3, <2>4
<1> DEFINE wrong == {k \in 0 .. n : walk[k] # SubSeq(s, 1, k)}
<1> HIDE DEF walk
<1>6. ASSUME wrong # {} PROVE FALSE
  <2>1. PICK k \in wrong : \A j \in wrong : k <= j
    <3>1. wrong \in SUBSET Nat
      BY <1>1
    <3> HIDE DEF wrong
    <3> QED BY <1>6, <3>1, SmallestNumber
  <2>2. k \in 0 .. n /\ walk[k] # SubSeq(s, 1, k)
    OBVIOUS
  <2>3. k # 0
    <3>1. SubSeq(s, 1, 0) = <<>>
      BY <1>1
    <3> QED BY <1>5, <2>2, <3>1
  <2>4. k \in 1 .. n /\ k - 1 \in 0 .. n /\ k - 1 \notin wrong
    BY <1>1, <2>1, <2>2, <2>3
  <2>5. walk[k - 1] = SubSeq(s, 1, k - 1)
    BY <2>4
  <2>6. walk[k] = Append(SubSeq(s, 1, k - 1), s[k])
    <3>1. walk[k] = Append(walk[k - 1], IF k = 1 THEN start ELSE ref[walk[k - 1][k - 1]])
      BY <1>5, <2>4
    <3> QED BY <1>2, <2>4, <2>5, <3>1
  <2> QED BY <1>2, <2>2, <2>4, <2>6
<1>7. walk[n] = SubSeq(s, 1, n) /\ SubSeq(s, 1, n) = s
  BY <1>1, <1>6
<1> QED
  BY <1>7 DEF WalkFrom, walk

\* The walks are what the links say, also after a step.
LEMMA ContentsAre ==
  ASSUME NEW c \in [Queues -> Seq(Entries)]
  PROVE  /\ Linked(c) => QueueContents = c
         /\ Linked(c)' => QueueContents' = c
<1>1. ASSUME Linked(c) PROVE QueueContents = c
  <2>1. \A q \in Queues : WalkFrom(first[q], _ref, count[q]) = c[q]
    BY <1>1, WalkMeets DEF Linked
  <2> QED BY <2>1 DEF QueueContents, Walk
<1>2. ASSUME Linked(c)' PROVE QueueContents' = c
  <2>1. \A q \in Queues : WalkFrom(first'[q], _ref', count'[q]) = c[q]
    BY <1>2, WalkMeets DEF Linked
  <2> QED BY <2>1 DEF QueueContents, Walk
<1> QED
  BY <1>1, <1>2

\* After a step whose links are those of d the invariant holds with d as contents.
LEMMA Reached ==
  ASSUME NEW d \in [Queues -> Seq(Entries)], QueueTypes', Linked(d)', Apart(d)
  PROVE  QueueInv' /\ QueueContents' = d
<1>1. QueueContents' = d
  BY ContentsAre
<1> QED
  BY <1>1 DEF QueueInv

\* A step that links some queues anew and keeps away from the entries of the others.
LEMMA Relinked ==
  ASSUME NEW c \in [Queues -> Seq(Entries)], NEW d \in [Queues -> Seq(Entries)],
         NEW S \in SUBSET Queues, Linked(c),
         \A p \in Queues \ S :
           /\ d[p] = c[p]
           /\ first'[p] = first[p] /\ last'[p] = last[p] /\ count'[p] = count[p]
           /\ \A i \in 1 .. Len(c[p]) : _ref'[c[p][i]] = _ref[c[p][i]],
         \A p \in S : Chained(d[p], first'[p], last'[p], count'[p], _ref')
  PROVE  Linked(d)'
<1>1. ASSUME NEW p \in Queues \ S
      PROVE  Chained(d[p], first'[p], last'[p], count'[p], _ref')
  <2>1. c[p] \in Seq(Entries) /\ Len(c[p]) \in Nat
    BY LenProperties
  <2>2. Chained(c[p], first[p], last[p], count[p], _ref)
    BY DEF Linked
  <2>3. /\ Len(c[p]) > 0 => _ref'[c[p][Len(c[p])]] = _ref[c[p][Len(c[p])]]
        /\ \A i \in 1 .. Len(c[p]) - 1 : _ref'[c[p][i]] = _ref[c[p][i]]
    BY <2>1
  <2> QED BY <2>1, <2>2, <2>3 DEF Chained
<1> QED
  BY <1>1 DEF Linked

\* The invariant speaks of a c that is a constant.
LEMMA Contents ==
  ASSUME QueueInv
  PROVE  \E c \in [Queues -> Seq(Entries)] :
           c = QueueContents /\ QueueTypes /\ Linked(c) /\ Apart(c)
BY DEF QueueInv

\* What is known of one queue.
LEMMA OneQueue ==
  ASSUME NEW c \in [Queues -> Seq(Entries)], Linked(c), NEW q \in Queues
  PROVE  /\ c[q] \in Seq(Entries) /\ Len(c[q]) \in Nat /\ count[q] = Len(c[q])
         /\ \A i \in 1 .. Len(c[q]) : c[q][i] \in Entries
         /\ Len(c[q]) = 0 => first[q] = NoEntry /\ last[q] = NoEntry /\ c[q] = <<>>
         /\ Len(c[q]) > 0 => /\ first[q] = c[q][1] /\ last[q] = c[q][Len(c[q])]
                             /\ first[q] \in Entries /\ last[q] \in Entries
                             /\ first[q] # NoEntry /\ last[q] # NoEntry
                             /\ _ref[last[q]] = NoEntry
         /\ \A i \in 1 .. Len(c[q]) - 1 : _ref[c[q][i]] = c[q][i + 1]
<1>1. c[q] \in Seq(Entries) /\ Len(c[q]) \in Nat
  BY LenProperties
<1>2. \A i \in 1 .. Len(c[q]) : c[q][i] \in Entries
  BY <1>1
<1>3. Chained(c[q], first[q], last[q], count[q], _ref)
  BY DEF Linked
<1>4. Len(c[q]) = 0 => c[q] = <<>>
  BY <1>1
<1> QED
  BY <1>1, <1>2, <1>3, <1>4, QueueConstants DEF Chained

\* A detached entry is none of those of the queues.
LEMMA DetachedIsElsewhere ==
  ASSUME NEW c \in [Queues -> Seq(Entries)], Linked(c), c = QueueContents, NEW e,
         Detached(e)
  PROVE  \A q \in Queues : \A i \in 1 .. Len(c[q]) : c[q][i] # e
<1>1. \A q \in Queues : count[q] = Len(c[q]) /\ Walk(q) = c[q]
  BY OneQueue DEF QueueContents
<1> QED
  BY <1>1 DEF Detached, In

-----------------------------------------------------------------------------
(* What each operation does to the walks *)

LEMMA PushedBack ==
  ASSUME NEW c \in [Queues -> Seq(Entries)], QueueTypes, Linked(c), Apart(c),
         c = QueueContents, NEW q \in Queues, NEW e \in Entries, pushBack(q, e)
  PROVE  QueueInv' /\ QueueContents' = [c EXCEPT ![q] = Append(@, e)]
<1> DEFINE d == [c EXCEPT ![q] = Append(@, e)]
           s == c[q]
<1>1. \A p \in Queues : \A i \in 1 .. Len(c[p]) : c[p][i] # e
  BY DetachedIsElsewhere DEF pushBack
<1>2. /\ first' = [first EXCEPT ![q] = IF last[q] = NoEntry THEN e ELSE @]
      /\ last' = [last EXCEPT ![q] = e]
      /\ count' = [count EXCEPT ![q] = @ + 1]
      /\ _ref' = IF last[q] = NoEntry THEN [_ref EXCEPT ![e] = NoEntry]
                 ELSE [_ref EXCEPT ![e] = NoEntry, ![last[q]] = e]
  BY DEF pushBack
<1>3. QueueTypes'
  BY <1>2 DEF QueueTypes
<1>4. /\ s \in Seq(Entries) /\ Len(s) \in Nat /\ d \in [Queues -> Seq(Entries)]
      /\ d[q] = Append(s, e) /\ Len(d[q]) = Len(s) + 1 /\ d[q][Len(s) + 1] = e
      /\ \A i \in 1 .. Len(s) : d[q][i] = s[i]
      /\ \A p \in Queues \ {q} : d[p] = c[p]
  BY LenProperties, AppendProperties
<1>5. Apart(d)
  BY <1>1, <1>4 DEF Apart
<1>6. Chained(d[q], first'[q], last'[q], count'[q], _ref')
  <2>0. /\ count[q] = Len(s)
        /\ Len(s) = 0 => first[q] = NoEntry /\ last[q] = NoEntry
        /\ Len(s) > 0 => first[q] = s[1] /\ last[q] # NoEntry
    BY OneQueue
  <2>1. first'[q] = d[q][1] /\ last'[q] = e /\ count'[q] = Len(s) + 1
    <3>1. /\ first'[q] = IF last[q] = NoEntry THEN e ELSE first[q]
          /\ last'[q] = e /\ count'[q] = count[q] + 1
      BY <1>2 DEF QueueTypes
    <3>2. CASE Len(s) = 0
      BY <1>4, <2>0, <3>1, <3>2
    <3>3. CASE Len(s) > 0
      <4>1. d[q][1] = s[1]
        BY <1>4, <3>3
      <4> QED BY <2>0, <3>1, <3>3, <4>1
    <3> QED BY <1>4, <3>2, <3>3
  <2>2. _ref'[e] = NoEntry
    BY <1>1, <1>2, <1>4, OneQueue DEF QueueTypes
  <2>3. ASSUME NEW i \in 1 .. Len(s) PROVE _ref'[d[q][i]] = d[q][i + 1]
    <3>1. s[i] \in Entries /\ s[i] # e /\ last[q] = s[Len(s)] /\ last[q] # NoEntry
      BY <1>1, <1>4, OneQueue
    <3>2. CASE i = Len(s)
      BY <1>2, <1>4, <3>1, <3>2 DEF QueueTypes
    <3>3. CASE i # Len(s)
      <4>1. i \in 1 .. Len(s) - 1 /\ s[i] # s[Len(s)] /\ Len(s) \in 1 .. Len(s)
        BY <1>4, <3>3 DEF Apart
      <4>2. _ref[s[i]] = s[i + 1]
        BY <4>1, OneQueue
      <4>3. _ref'[s[i]] = _ref[s[i]]
        BY <1>2, <3>1, <4>1 DEF QueueTypes
      <4> QED BY <1>4, <4>1, <4>2, <4>3
    <3> QED BY <3>2, <3>3
  <2> QED BY <1>4, <2>1, <2>2, <2>3 DEF Chained
<1>7. \A p \in Queues \ {q} :
        /\ d[p] = c[p]
        /\ first'[p] = first[p] /\ last'[p] = last[p] /\ count'[p] = count[p]
        /\ \A i \in 1 .. Len(c[p]) : _ref'[c[p][i]] = _ref[c[p][i]]
  <2>1. ASSUME NEW p \in Queues \ {q}, NEW i \in 1 .. Len(c[p])
        PROVE  c[p][i] \in Entries /\ c[p][i] # e /\ (Len(s) > 0 => c[p][i] # s[Len(s)])
    <3>1. c[p][i] \in Entries /\ c[p][i] # e
      BY <1>1, OneQueue
    <3>2. Len(s) > 0 => c[p][i] # s[Len(s)]
      BY <1>4 DEF Apart
    <3> QED BY <3>1, <3>2
  <2>2. last[q] # NoEntry => Len(s) > 0 /\ last[q] = s[Len(s)]
    BY <1>4, OneQueue
  <2> QED BY <1>2, <1>4, <2>1, <2>2 DEF QueueTypes
<1>8. Linked(d)'
  <2> HIDE DEF d, s
  <2>1. {q} \in SUBSET Queues /\ d \in [Queues -> Seq(Entries)]
    BY <1>4
  <2>2. \A p \in {q} : Chained(d[p], first'[p], last'[p], count'[p], _ref')
    BY <1>6
  <2> QED BY <1>7, <2>1, <2>2, Relinked
<1> QED
  BY <1>3, <1>4, <1>5, <1>8, Reached

LEMMA PushedFront ==
  ASSUME NEW c \in [Queues -> Seq(Entries)], QueueTypes, Linked(c), Apart(c),
         c = QueueContents, NEW q \in Queues, NEW e \in Entries, pushFront(q, e)
  PROVE  QueueInv' /\ QueueContents' = [c EXCEPT ![q] = <<e>> \o @]
<1> DEFINE d == [c EXCEPT ![q] = <<e>> \o @]
           s == c[q]
<1>1. \A p \in Queues : \A i \in 1 .. Len(c[p]) : c[p][i] # e
  BY DetachedIsElsewhere DEF pushFront
<1>2. /\ _ref' = [_ref EXCEPT ![e] = first[q]]
      /\ first' = [first EXCEPT ![q] = e]
      /\ last' = [last EXCEPT ![q] = IF @ = NoEntry THEN e ELSE @]
      /\ count' = [count EXCEPT ![q] = @ + 1]
  BY DEF pushFront
<1>3. QueueTypes'
  BY <1>2 DEF QueueTypes
<1>4. /\ s \in Seq(Entries) /\ Len(s) \in Nat /\ d \in [Queues -> Seq(Entries)]
      /\ d[q] = <<e>> \o s /\ Len(d[q]) = Len(s) + 1 /\ d[q][1] = e
      /\ \A i \in 2 .. Len(s) + 1 : d[q][i] = s[i - 1]
      /\ \A p \in Queues \ {q} : d[p] = c[p]
  <2>1. s \in Seq(Entries) /\ Len(s) \in Nat /\ <<e>> \in Seq(Entries)
    BY LenProperties
  <2>2. d \in [Queues -> Seq(Entries)] /\ d[q] = <<e>> \o s
    BY <2>1
  <2> QED BY <2>1, <2>2
<1>5. Apart(d)
  <2>1. ASSUME NEW p \in Queues, NEW r \in Queues, NEW i \in 1 .. Len(d[p]),
               NEW j \in 1 .. Len(d[r]), d[p][i] = d[r][j]
        PROVE  p = r /\ i = j
    <3>1. \A t \in Queues : \A k \in 1 .. Len(d[t]) :
            \/ t = q /\ k = 1 /\ d[t][k] = e
            \/ t = q /\ k - 1 \in 1 .. Len(c[t]) /\ d[t][k] = c[t][k - 1]
            \/ t # q /\ k \in 1 .. Len(c[t]) /\ d[t][k] = c[t][k]
      BY <1>4
    <3> HIDE DEF d, s
    <3>2. CASE (p = q /\ i = 1 /\ d[p][i] = e) \/ (r = q /\ j = 1 /\ d[r][j] = e)
      <4>1. \A t \in Queues : \A k \in 1 .. Len(d[t]) : d[t][k] = e => t = q /\ k = 1
        <5> SUFFICES ASSUME NEW t \in Queues, NEW k \in 1 .. Len(d[t]), d[t][k] = e
                     PROVE  t = q /\ k = 1
          OBVIOUS
        <5>1. ~(t = q /\ k - 1 \in 1 .. Len(c[t]) /\ d[t][k] = c[t][k - 1])
          BY <1>1
        <5>2. ~(t # q /\ k \in 1 .. Len(c[t]) /\ d[t][k] = c[t][k])
          BY <1>1
        <5> QED BY <3>1, <5>1, <5>2
      <4>2. d[p][i] = e /\ d[r][j] = e
        BY <2>1, <3>2
      <4>3. p = q /\ i = 1
        BY <4>1, <4>2
      <4>4. r = q /\ j = 1
        BY <4>1, <4>2
      <4> QED BY <4>3, <4>4
    <3>3. CASE ~((p = q /\ i = 1 /\ d[p][i] = e) \/ (r = q /\ j = 1 /\ d[r][j] = e))
      <4>1. \/ p = q /\ i - 1 \in 1 .. Len(c[p]) /\ d[p][i] = c[p][i - 1]
            \/ p # q /\ i \in 1 .. Len(c[p]) /\ d[p][i] = c[p][i]
        BY <3>1, <3>3
      <4>2. \/ r = q /\ j - 1 \in 1 .. Len(c[r]) /\ d[r][j] = c[r][j - 1]
            \/ r # q /\ j \in 1 .. Len(c[r]) /\ d[r][j] = c[r][j]
        BY <3>1, <3>3
      <4> QED BY <2>1, <4>1, <4>2 DEF Apart
    <3> QED BY <3>2, <3>3
  <2> QED BY <2>1 DEF Apart
<1>6. Chained(d[q], first'[q], last'[q], count'[q], _ref')
  <2>0. /\ count[q] = Len(s)
        /\ Len(s) = 0 => first[q] = NoEntry /\ last[q] = NoEntry
        /\ Len(s) > 0 => /\ first[q] = s[1] /\ last[q] # NoEntry /\ last[q] = s[Len(s)]
                         /\ _ref[last[q]] = NoEntry
        /\ \A i \in 1 .. Len(s) : s[i] \in Entries
        /\ \A i \in 1 .. Len(s) - 1 : _ref[s[i]] = s[i + 1]
    BY OneQueue
  <2>1. /\ first'[q] = e /\ count'[q] = count[q] + 1
        /\ last'[q] = IF last[q] = NoEntry THEN e ELSE last[q]
        /\ _ref'[e] = first[q]
        /\ \A i \in 1 .. Len(s) : _ref'[s[i]] = _ref[s[i]]
    BY <1>1, <1>2, <2>0 DEF QueueTypes
  <2>2. CASE Len(s) = 0
    BY <1>4, <2>0, <2>1, <2>2 DEF Chained
  <2>3. CASE Len(s) > 0
    <3>1. d[q][Len(s) + 1] = s[Len(s)] /\ _ref'[s[Len(s)]] = NoEntry
      BY <1>4, <2>0, <2>1, <2>3
    <3>2. ASSUME NEW i \in 1 .. Len(s) PROVE _ref'[d[q][i]] = d[q][i + 1]
      <4>1. d[q][i + 1] = s[i]
        BY <1>4
      <4>2. CASE i = 1
        BY <1>4, <2>0, <2>1, <2>3, <4>1, <4>2
      <4>3. CASE i # 1
        <5>1. i - 1 \in 1 .. Len(s) - 1 /\ d[q][i] = s[i - 1] /\ i - 1 \in 1 .. Len(s)
          BY <1>4, <4>3
        <5> QED BY <2>0, <2>1, <4>1, <5>1
      <4> QED BY <4>2, <4>3
    <3> QED BY <1>4, <2>0, <2>1, <2>3, <3>1, <3>2 DEF Chained
  <2> QED BY <1>4, <2>2, <2>3
<1>7. \A p \in Queues \ {q} :
        /\ d[p] = c[p]
        /\ first'[p] = first[p] /\ last'[p] = last[p] /\ count'[p] = count[p]
        /\ \A i \in 1 .. Len(c[p]) : _ref'[c[p][i]] = _ref[c[p][i]]
  <2>1. ASSUME NEW p \in Queues, NEW i \in 1 .. Len(c[p])
        PROVE  c[p][i] \in Entries /\ c[p][i] # e
    BY <1>1, OneQueue
  <2> QED BY <1>2, <1>4, <2>1 DEF QueueTypes
<1>8. Linked(d)'
  <2> HIDE DEF d, s
  <2>1. {q} \in SUBSET Queues /\ d \in [Queues -> Seq(Entries)]
    BY <1>4
  <2>2. \A p \in {q} : Chained(d[p], first'[p], last'[p], count'[p], _ref')
    BY <1>6
  <2> QED BY <1>7, <2>1, <2>2, Relinked
<1> QED
  BY <1>3, <1>4, <1>5, <1>8, Reached

LEMMA PoppedFront ==
  ASSUME NEW c \in [Queues -> Seq(Entries)], QueueTypes, Linked(c), Apart(c),
         NEW q \in Queues, popFront(q)
  PROVE  QueueInv' /\ QueueContents' = [c EXCEPT ![q] = Tail(@)] /\ c[q] # <<>>
<1> DEFINE d == [c EXCEPT ![q] = Tail(@)]
           s == c[q]
<1>1. /\ count[q] > 0
      /\ first' = [first EXCEPT ![q] = _ref[@]]
      /\ last' = [last EXCEPT ![q] = IF _ref[first[q]] = NoEntry THEN NoEntry ELSE @]
      /\ count' = [count EXCEPT ![q] = @ - 1]
      /\ _ref' = _ref
  BY DEF popFront
<1>2. /\ s \in Seq(Entries) /\ Len(s) \in Nat /\ Len(s) > 0 /\ count[q] = Len(s)
      /\ first[q] = s[1] /\ last[q] = s[Len(s)]
      /\ first[q] \in Entries /\ _ref[last[q]] = NoEntry
      /\ \A i \in 1 .. Len(s) - 1 : _ref[s[i]] = s[i + 1]
      /\ \A i \in 1 .. Len(s) : s[i] \in Entries
  BY <1>1, OneQueue
<1>3. QueueTypes'
  BY <1>1, <1>2 DEF QueueTypes
<1>4. /\ d \in [Queues -> Seq(Entries)]
      /\ d[q] = Tail(s) /\ Len(d[q]) = Len(s) - 1
      /\ \A i \in 1 .. Len(s) - 1 : d[q][i] = s[i + 1]
      /\ \A p \in Queues \ {q} : d[p] = c[p]
  BY <1>2
<1>5. Apart(d)
  <2>1. ASSUME NEW p \in Queues, NEW r \in Queues, NEW i \in 1 .. Len(d[p]),
               NEW j \in 1 .. Len(d[r]), d[p][i] = d[r][j]
        PROVE  p = r /\ i = j
    <3>1. \A t \in Queues : \A k \in 1 .. Len(d[t]) :
            \/ t = q /\ k + 1 \in 1 .. Len(c[t]) /\ d[t][k] = c[t][k + 1]
            \/ t # q /\ k \in 1 .. Len(c[t]) /\ d[t][k] = c[t][k]
      BY <1>2, <1>4
    <3> HIDE DEF d, s
    <3> QED BY <2>1, <3>1 DEF Apart
  <2> QED BY <2>1 DEF Apart
<1>6. Chained(d[q], first'[q], last'[q], count'[q], _ref')
  <2>1. /\ first'[q] = _ref[s[1]] /\ count'[q] = Len(s) - 1
        /\ last'[q] = IF _ref[s[1]] = NoEntry THEN NoEntry ELSE last[q]
    BY <1>1, <1>2 DEF QueueTypes
  <2>2. CASE Len(s) = 1
    <3>1. _ref[s[1]] = NoEntry /\ Len(d[q]) = 0 /\ count'[q] = 0
      BY <1>2, <1>4, <2>1, <2>2
    <3>2. first'[q] = NoEntry /\ last'[q] = NoEntry
      BY <2>1, <3>1
    <3>3. ~(count'[q] > 0) /\ \A i \in 1 .. count'[q] - 1 : FALSE
      BY <3>1
    <3> HIDE DEF d, s
    <3> QED BY <3>1, <3>2, <3>3 DEF Chained
  <2>3. CASE Len(s) > 1
    <3>1. /\ _ref[s[1]] = s[2] /\ s[2] # NoEntry /\ d[q][1] = s[2]
          /\ d[q][Len(s) - 1] = s[Len(s)]
      BY <1>2, <1>4, <2>3, QueueConstants
    <3>2. ASSUME NEW i \in 1 .. Len(s) - 2 PROVE _ref'[d[q][i]] = d[q][i + 1]
      <4>1. d[q][i] = s[i + 1] /\ d[q][i + 1] = s[i + 2] /\ _ref[s[i + 1]] = s[i + 2]
        BY <1>2, <1>4
      <4> QED BY <1>1, <4>1
    <3> QED BY <1>1, <1>2, <1>4, <2>1, <2>3, <3>1, <3>2 DEF Chained
  <2>4. Len(s) = 1 \/ Len(s) > 1
    <3>1. Len(s) \in Nat /\ Len(s) > 0
      BY <1>2
    <3>2. \A n \in Nat : n > 0 => n = 1 \/ n > 1
      OBVIOUS
    <3> HIDE DEF s
    <3> QED BY <3>1, <3>2, Zenon
  <2> QED BY <2>2, <2>3, <2>4
<1>7. \A p \in Queues \ {q} :
        /\ d[p] = c[p]
        /\ first'[p] = first[p] /\ last'[p] = last[p] /\ count'[p] = count[p]
        /\ \A i \in 1 .. Len(c[p]) : _ref'[c[p][i]] = _ref[c[p][i]]
  BY <1>1, <1>4 DEF QueueTypes
<1>8. Linked(d)'
  <2> HIDE DEF d, s
  <2>1. {q} \in SUBSET Queues /\ d \in [Queues -> Seq(Entries)]
    BY <1>4
  <2>2. \A p \in {q} : Chained(d[p], first'[p], last'[p], count'[p], _ref')
    BY <1>6
  <2> QED BY <1>7, <2>1, <2>2, Relinked
<1>9. c[q] # <<>>
  <2> HIDE DEF d
  <2>1. Len(c[q]) # 0
    BY <1>2
  <2> QED BY <2>1
<1> QED
  BY <1>3, <1>4, <1>5, <1>8, <1>9, Reached

LEMMA Dropped ==
  ASSUME NEW c \in [Queues -> Seq(Entries)], QueueTypes, Linked(c), Apart(c),
         NEW q \in Queues, drop(q)
  PROVE  QueueInv' /\ QueueContents' = [c EXCEPT ![q] = <<>>]
<1> DEFINE d == [c EXCEPT ![q] = <<>>]
<1>1. /\ first' = [first EXCEPT ![q] = NoEntry] /\ last' = [last EXCEPT ![q] = NoEntry]
      /\ count' = [count EXCEPT ![q] = 0] /\ _ref' = _ref
  BY DEF drop
<1>2. QueueTypes'
  BY <1>1 DEF QueueTypes
<1>3. /\ d \in [Queues -> Seq(Entries)] /\ d[q] = <<>> /\ Len(d[q]) = 0
      /\ \A p \in Queues \ {q} : d[p] = c[p]
  OBVIOUS
<1>4. Apart(d)
  <2>1. \A p \in Queues : \A i \in 1 .. Len(d[p]) : p # q
    BY <1>3
  <2> QED BY <1>3, <2>1 DEF Apart
<1>5. Chained(d[q], first'[q], last'[q], count'[q], _ref')
  BY <1>1, <1>3 DEF Chained, QueueTypes
<1>6. \A p \in Queues \ {q} :
        /\ d[p] = c[p]
        /\ first'[p] = first[p] /\ last'[p] = last[p] /\ count'[p] = count[p]
        /\ \A i \in 1 .. Len(c[p]) : _ref'[c[p][i]] = _ref[c[p][i]]
  BY <1>1, <1>3 DEF QueueTypes
<1>7. Linked(d)'
  <2> HIDE DEF d
  <2>1. {q} \in SUBSET Queues /\ d \in [Queues -> Seq(Entries)]
    BY <1>3
  <2>2. \A p \in {q} : Chained(d[p], first'[p], last'[p], count'[p], _ref')
    BY <1>5
  <2> QED BY <1>6, <2>1, <2>2, Relinked
<1> QED
  BY <1>2, <1>3, <1>4, <1>7, Reached

LEMMA Rounded ==
  ASSUME NEW c \in [Queues -> Seq(Entries)], QueueTypes, Linked(c), Apart(c),
         NEW q \in Queues, round(q)
  PROVE  /\ QueueInv' /\ QueueContents' = [c EXCEPT ![q] = Append(Tail(@), Head(@))]
         /\ c[q] # <<>>
<1> DEFINE d == [c EXCEPT ![q] = Append(Tail(@), Head(@))]
           s == c[q]
<1>1. /\ s \in Seq(Entries) /\ Len(s) \in Nat /\ Len(s) > 1 /\ count[q] = Len(s)
      /\ first[q] = s[1] /\ last[q] = s[Len(s)]
      /\ first[q] \in Entries /\ last[q] \in Entries
      /\ \A i \in 1 .. Len(s) - 1 : _ref[s[i]] = s[i + 1]
      /\ \A i \in 1 .. Len(s) : s[i] \in Entries
  BY OneQueue DEF round
<1>2. \A i, j \in 1 .. Len(s) : s[i] = s[j] => i = j
  BY DEF Apart
<1>3. s[1] # s[Len(s)] /\ 1 \in 1 .. Len(s) - 1 /\ s[2] \in Entries
  <2>1. 1 \in 1 .. Len(s) /\ Len(s) \in 1 .. Len(s) /\ 1 # Len(s) /\ 2 \in 1 .. Len(s)
    BY <1>1
  <2> QED BY <1>1, <1>2, <2>1
<1>4. /\ count' = count
      /\ last' = [last EXCEPT ![q] = s[1]]
      /\ first' = [first EXCEPT ![q] = s[2]]
      /\ _ref' = [_ref EXCEPT ![s[Len(s)]] = s[1], ![s[1]] = NoEntry]
  <2>1. /\ first' = [first EXCEPT ![q] = [_ref EXCEPT ![last[q]] = first[q]][@]]
        /\ _ref' = [[_ref EXCEPT ![last[q]] = first[q]] EXCEPT ![first[q]] = NoEntry]
        /\ last' = [last EXCEPT ![q] = first[q]] /\ count' = count
    BY DEF round
  <2>2. [_ref EXCEPT ![last[q]] = first[q]][first[q]] = s[2]
    BY <1>1, <1>3 DEF QueueTypes
  <2> QED BY <1>1, <2>1, <2>2
<1>5. QueueTypes'
  BY <1>1, <1>3, <1>4 DEF QueueTypes
<1>6. /\ d \in [Queues -> Seq(Entries)]
      /\ Len(d[q]) = Len(s) /\ d[q][Len(s)] = s[1]
      /\ \A i \in 1 .. Len(s) - 1 : d[q][i] = s[i + 1]
      /\ \A p \in Queues \ {q} : d[p] = c[p]
  <2>1. Tail(s) \in Seq(Entries) /\ Head(s) \in Entries /\ Head(s) = s[1]
        /\ Len(Tail(s)) = Len(s) - 1 /\ \A i \in 1 .. Len(s) - 1 : Tail(s)[i] = s[i + 1]
    BY <1>1
  <2>2. d[q] = Append(Tail(s), Head(s))
    OBVIOUS
  <2>3. /\ Append(Tail(s), Head(s)) \in Seq(Entries)
        /\ Len(Append(Tail(s), Head(s))) = Len(s)
        /\ Append(Tail(s), Head(s))[Len(s)] = s[1]
        /\ \A i \in 1 .. Len(s) - 1 : Append(Tail(s), Head(s))[i] = s[i + 1]
    BY <1>1, <2>1, AppendProperties
  <2> QED BY <2>2, <2>3
<1>7. Apart(d)
  <2>1. ASSUME NEW p \in Queues, NEW r \in Queues, NEW i \in 1 .. Len(d[p]),
               NEW j \in 1 .. Len(d[r]), d[p][i] = d[r][j]
        PROVE  p = r /\ i = j
    <3>1. ASSUME NEW t \in Queues, NEW k \in 1 .. Len(d[t])
          PROVE  \E m \in 1 .. Len(c[t]) :
                   /\ d[t][k] = c[t][m]
                   /\ m = IF t = q THEN (IF k = Len(s) THEN 1 ELSE k + 1) ELSE k
      <4>1. CASE t # q
        BY <1>6, <4>1
      <4>2. CASE t = q /\ k = Len(s)
        BY <1>1, <1>6, <4>2
      <4>3. CASE t = q /\ k # Len(s)
        <5>1. k \in 1 .. Len(s) - 1 /\ k + 1 \in 1 .. Len(s)
          BY <1>1, <1>6, <4>3
        <5> QED BY <1>6, <4>3, <5>1
      <4> QED BY <4>1, <4>2, <4>3
    <3>2. PICK m \in 1 .. Len(c[p]) :
            /\ d[p][i] = c[p][m]
            /\ m = IF p = q THEN (IF i = Len(s) THEN 1 ELSE i + 1) ELSE i
      BY <3>1
    <3>3. PICK n \in 1 .. Len(c[r]) :
            /\ d[r][j] = c[r][n]
            /\ n = IF r = q THEN (IF j = Len(s) THEN 1 ELSE j + 1) ELSE j
      BY <3>1
    <3>4. p = r /\ m = n
      BY <2>1, <3>2, <3>3 DEF Apart
    <3>5. CASE p # q
      BY <3>2, <3>3, <3>4, <3>5
    <3>6. CASE p = q
      <4>1. \A n1 \in Nat : \A x, y \in 1 .. n1 :
              (IF x = n1 THEN 1 ELSE x + 1) = (IF y = n1 THEN 1 ELSE y + 1) => x = y
        OBVIOUS
      <4>2. i \in 1 .. Len(s) /\ j \in 1 .. Len(s)
        BY <1>6, <3>4, <3>6
      <4>3. (IF i = Len(s) THEN 1 ELSE i + 1) = (IF j = Len(s) THEN 1 ELSE j + 1)
        BY <3>2, <3>3, <3>4, <3>6
      <4> HIDE DEF d, s
      <4> QED BY <1>1, <3>4, <4>1, <4>2, <4>3
    <3> QED BY <3>4, <3>5, <3>6
  <2> QED BY <2>1 DEF Apart
<1>8. Chained(d[q], first'[q], last'[q], count'[q], _ref')
  <2>1. first'[q] = s[2] /\ last'[q] = s[1] /\ count'[q] = Len(s)
    BY <1>1, <1>4 DEF QueueTypes
  <2>2. d[q][1] = s[2] /\ d[q][Len(s)] = s[1] /\ _ref'[s[1]] = NoEntry
    BY <1>1, <1>3, <1>4, <1>6 DEF QueueTypes
  <2>3. ASSUME NEW i \in 1 .. Len(s) - 1 PROVE _ref'[d[q][i]] = d[q][i + 1]
    <3>1. d[q][i] = s[i + 1] /\ i + 1 \in 1 .. Len(s) /\ s[i + 1] \in Entries
      BY <1>1, <1>6
    <3>2. CASE i = Len(s) - 1
      <4>1. i + 1 = Len(s)
        BY <1>1, <3>2
      <4>2. _ref'[s[Len(s)]] = s[1]
        BY <1>1, <1>3, <1>4 DEF QueueTypes
      <4> QED BY <1>6, <3>1, <4>1, <4>2
    <3>3. CASE i # Len(s) - 1
      <4>1. /\ i + 1 \in 1 .. Len(s) - 1 /\ d[q][i + 1] = s[i + 2] /\ i + 1 # Len(s)
            /\ i + 1 # 1 /\ 1 \in 1 .. Len(s) /\ Len(s) \in 1 .. Len(s)
            /\ _ref[s[i + 1]] = s[i + 2]
        <5>1. \A n \in Nat : \A k \in 1 .. n - 1 :
                k # n - 1 => /\ k + 1 \in 1 .. n - 1 /\ k + 1 # n /\ k + 1 # 1
                             /\ 1 \in 1 .. n /\ n \in 1 .. n /\ k + 2 = (k + 1) + 1
          OBVIOUS
        <5>2. /\ i + 1 \in 1 .. Len(s) - 1 /\ i + 1 # Len(s) /\ i + 1 # 1
              /\ 1 \in 1 .. Len(s) /\ Len(s) \in 1 .. Len(s) /\ i + 2 = (i + 1) + 1
          <6> HIDE DEF d, s
          <6> QED BY <1>1, <3>3, <5>1
        <5> HIDE DEF d, s
        <5> QED BY <1>1, <1>6, <5>2
      <4>2. s[i + 1] # s[1] /\ s[i + 1] # s[Len(s)]
        BY <1>2, <3>1, <4>1
      <4>3. _ref'[s[i + 1]] = _ref[s[i + 1]]
        BY <1>4, <3>1, <4>2 DEF QueueTypes
      <4> QED BY <3>1, <4>1, <4>3
    <3> QED BY <3>2, <3>3
  <2>4. /\ count'[q] = Len(d[q]) /\ count'[q] > 0
        /\ first'[q] = d[q][1] /\ last'[q] = d[q][count'[q]]
        /\ _ref'[last'[q]] = NoEntry
        /\ \A i \in 1 .. count'[q] - 1 : _ref'[d[q][i]] = d[q][i + 1]
    <3> HIDE DEF d, s
    <3> QED BY <1>1, <1>6, <2>1, <2>2, <2>3
  <2> HIDE DEF d, s
  <2> QED BY <2>4 DEF Chained
<1>9. \A p \in Queues \ {q} :
        /\ d[p] = c[p]
        /\ first'[p] = first[p] /\ last'[p] = last[p] /\ count'[p] = count[p]
        /\ \A i \in 1 .. Len(c[p]) : _ref'[c[p][i]] = _ref[c[p][i]]
  <2>1. ASSUME NEW p \in Queues \ {q}, NEW i \in 1 .. Len(c[p])
        PROVE  c[p][i] \in Entries /\ c[p][i] # s[1] /\ c[p][i] # s[Len(s)]
    <3>1. 1 \in 1 .. Len(s) /\ Len(s) \in 1 .. Len(s) /\ c[p][i] \in Entries
      BY <1>1, OneQueue
    <3> QED BY <3>1 DEF Apart
  <2> QED BY <1>4, <1>6, <2>1 DEF QueueTypes
<1>10. Linked(d)'
  <2> HIDE DEF d, s
  <2>1. {q} \in SUBSET Queues /\ d \in [Queues -> Seq(Entries)]
    BY <1>6
  <2>2. \A p \in {q} : Chained(d[p], first'[p], last'[p], count'[p], _ref')
    BY <1>8
  <2> QED BY <1>9, <2>1, <2>2, Relinked
<1>11. c[q] # <<>>
  <2> HIDE DEF d
  <2>1. Len(c[q]) # 0
    BY <1>1
  <2> QED BY <2>1
<1> QED
  BY <1>5, <1>6, <1>7, <1>10, <1>11, Reached

LEMMA MovedAll ==
  ASSUME NEW c \in [Queues -> Seq(Entries)], QueueTypes, Linked(c), Apart(c),
         NEW p \in Queues, NEW q \in Queues, moveAll(p, q)
  PROVE  QueueInv' /\ QueueContents' = [c EXCEPT ![p] = <<>>, ![q] = @ \o c[p]]
<1> DEFINE d == [c EXCEPT ![p] = <<>>, ![q] = @ \o c[p]]
           s == c[q]
           t == c[p]
<1>1. /\ p # q /\ s \in Seq(Entries) /\ Len(s) \in Nat
      /\ t \in Seq(Entries) /\ Len(t) \in Nat /\ Len(t) > 0
      /\ count[p] = Len(t) /\ count[q] = Len(s)
      /\ first[p] = t[1] /\ last[p] = t[Len(t)] /\ _ref[t[Len(t)]] = NoEntry
      /\ first[p] \in Entries /\ last[p] \in Entries
      /\ \A i \in 1 .. Len(t) : t[i] \in Entries
      /\ \A i \in 1 .. Len(t) - 1 : _ref[t[i]] = t[i + 1]
  BY OneQueue DEF moveAll
<1>2. /\ Len(s) = 0 => first[q] = NoEntry /\ last[q] = NoEntry
      /\ Len(s) > 0 => first[q] = s[1] /\ last[q] = s[Len(s)] /\ last[q] # NoEntry
      /\ \A i \in 1 .. Len(s) : s[i] \in Entries
      /\ \A i \in 1 .. Len(s) - 1 : _ref[s[i]] = s[i + 1]
  BY OneQueue
<1>3. /\ first' = [r \in Queues |-> IF r = p THEN NoEntry
                                    ELSE IF r = q /\ Len(s) = 0 THEN t[1] ELSE first[r]]
      /\ last' = [r \in Queues |-> IF r = p THEN NoEntry
                                   ELSE IF r = q THEN t[Len(t)] ELSE last[r]]
      /\ count' = [r \in Queues |-> IF r = p THEN 0
                                    ELSE IF r = q THEN Len(s) + Len(t) ELSE count[r]]
      /\ _ref' = IF Len(s) = 0 THEN _ref ELSE [_ref EXCEPT ![s[Len(s)]] = t[1]]
  <2>1. /\ last' = [last EXCEPT ![q] = last[p], ![p] = NoEntry]
        /\ count' = [count EXCEPT ![q] = @ + count[p], ![p] = 0]
        /\ IF last[q] = NoEntry
           THEN first' = [first EXCEPT ![q] = first[p], ![p] = NoEntry] /\ _ref' = _ref
           ELSE /\ _ref' = [_ref EXCEPT ![last[q]] = first[p]]
                /\ first' = [first EXCEPT ![p] = NoEntry]
    BY DEF moveAll
  <2>2. last' = [r \in Queues |-> IF r = p THEN NoEntry
                                  ELSE IF r = q THEN t[Len(t)] ELSE last[r]]
    BY <1>1, <2>1 DEF QueueTypes
  <2>3. count' = [r \in Queues |-> IF r = p THEN 0
                                   ELSE IF r = q THEN Len(s) + Len(t) ELSE count[r]]
    BY <1>1, <2>1 DEF QueueTypes
  <2>4. CASE Len(s) = 0
    <3>1. /\ first' = [first EXCEPT ![q] = first[p], ![p] = NoEntry] /\ _ref' = _ref
          /\ first[p] = t[1]
      BY <1>1, <1>2, <2>1, <2>4
    <3>2. first' = [r \in Queues |-> IF r = p THEN NoEntry
                                     ELSE IF r = q THEN t[1] ELSE first[r]]
      <4> HIDE DEF t
      <4> QED BY <1>1, <3>1 DEF QueueTypes
    <3> QED BY <2>2, <2>3, <2>4, <3>1, <3>2
  <2>5. CASE Len(s) > 0
    BY <1>1, <1>2, <2>1, <2>2, <2>3, <2>5 DEF QueueTypes
  <2>6. Len(s) = 0 \/ Len(s) > 0
    BY <1>1
  <2> QED BY <2>4, <2>5, <2>6
<1>4. QueueTypes'
  <2>1. Len(s) # 0 => s[Len(s)] \in Entries
    BY <1>1, <1>2
  <2>2. t[1] \in Entries /\ t[Len(t)] \in Entries
    BY <1>1
  <2> QED BY <1>1, <1>3, <2>1, <2>2 DEF QueueTypes
<1>5. /\ d \in [Queues -> Seq(Entries)]
      /\ d[q] = s \o t /\ Len(d[q]) = Len(s) + Len(t) /\ d[p] = <<>> /\ Len(d[p]) = 0
      /\ \A i \in 1 .. Len(s) : d[q][i] = s[i]
      /\ \A i \in 1 .. Len(t) : d[q][Len(s) + i] = t[i]
      /\ \A r \in Queues \ {p, q} : d[r] = c[r]
  <2>1. /\ s \o t \in Seq(Entries) /\ Len(s \o t) = Len(s) + Len(t)
        /\ \A i \in 1 .. Len(s) : (s \o t)[i] = s[i]
        /\ \A i \in 1 .. Len(t) : (s \o t)[Len(s) + i] = t[i]
    BY <1>1
  <2>2. d[q] = s \o t /\ d[p] = <<>> /\ \A r \in Queues \ {p, q} : d[r] = c[r]
    BY <1>1
  <2>3. d \in [Queues -> Seq(Entries)]
    <3>1. d = [r \in Queues |-> IF r = q THEN s \o t ELSE IF r = p THEN <<>> ELSE c[r]]
      BY <1>1
    <3>2. \A r \in Queues : c[r] \in Seq(Entries)
      OBVIOUS
    <3>3. <<>> \in Seq(Entries)
      OBVIOUS
    <3> HIDE DEF d, s, t
    <3> QED BY <2>1, <3>1, <3>2, <3>3
  <2>4. Len(<<>>) = 0
    OBVIOUS
  <2> HIDE DEF d, s, t
  <2> QED BY <2>1, <2>2, <2>3, <2>4
<1>6. Apart(d)
  <2>1. ASSUME NEW r \in Queues, NEW k \in 1 .. Len(d[r])
        PROVE  /\ r # p
               /\ r = q => \/ k \in 1 .. Len(s) /\ d[r][k] = c[q][k]
                           \/ k - Len(s) \in 1 .. Len(t) /\ d[r][k] = c[p][k - Len(s)]
               /\ r # q => k \in 1 .. Len(c[r]) /\ d[r][k] = c[r][k]
    <3>1. r # p
      BY <1>5
    <3>2. CASE r # q
      BY <1>5, <3>1, <3>2
    <3>3. CASE r = q /\ k <= Len(s)
      <4>1. k \in 1 .. Len(s)
        BY <1>1, <3>3
      <4> QED BY <1>5, <3>1, <3>3, <4>1
    <3>4. CASE r = q /\ ~(k <= Len(s))
      <4>1. k - Len(s) \in 1 .. Len(t) /\ Len(s) + (k - Len(s)) = k
        BY <1>1, <1>5, <3>4
      <4>2. d[q][Len(s) + (k - Len(s))] = t[k - Len(s)]
        BY <1>5, <4>1
      <4> QED BY <3>1, <3>4, <4>1, <4>2
    <3> QED BY <3>2, <3>3, <3>4
  <2>2. ASSUME NEW r1 \in Queues, NEW r2 \in Queues, NEW i \in 1 .. Len(d[r1]),
               NEW j \in 1 .. Len(d[r2]), d[r1][i] = d[r2][j]
        PROVE  r1 = r2 /\ i = j
    <3> DEFINE home(r, k) == IF r = q /\ ~(k <= Len(s)) THEN p ELSE r
               place(r, k) == IF r = q /\ ~(k <= Len(s)) THEN k - Len(s) ELSE k
    <3>1. ASSUME NEW r \in Queues, NEW k \in 1 .. Len(d[r])
          PROVE  /\ r # p /\ home(r, k) \in Queues
                 /\ place(r, k) \in 1 .. Len(c[home(r, k)])
                 /\ d[r][k] = c[home(r, k)][place(r, k)]
      BY <1>1, <2>1
    <3>2. home(r1, i) = home(r2, j) /\ place(r1, i) = place(r2, j)
      <4> HIDE DEF d, s, t, home, place
      <4>1. /\ home(r1, i) \in Queues /\ place(r1, i) \in 1 .. Len(c[home(r1, i)])
            /\ d[r1][i] = c[home(r1, i)][place(r1, i)]
        BY <3>1, Zenon
      <4>2. /\ home(r2, j) \in Queues /\ place(r2, j) \in 1 .. Len(c[home(r2, j)])
            /\ d[r2][j] = c[home(r2, j)][place(r2, j)]
        BY <3>1, Zenon
      <4>3. c[home(r1, i)][place(r1, i)] = c[home(r2, j)][place(r2, j)]
        BY <2>2, <4>1, <4>2, Zenon
      <4>4. ASSUME NEW h1 \in Queues, NEW h2 \in Queues, NEW m1 \in 1 .. Len(c[h1]),
                   NEW m2 \in 1 .. Len(c[h2]), c[h1][m1] = c[h2][m2]
            PROVE  h1 = h2 /\ m1 = m2
        BY <4>4 DEF Apart
      <4>5. \A h1, h2 \in Queues : \A m1 \in 1 .. Len(c[h1]) : \A m2 \in 1 .. Len(c[h2]) :
              c[h1][m1] = c[h2][m2] => h1 = h2 /\ m1 = m2
        BY <4>4
      <4>6. \A m1 \in 1 .. Len(c[home(r1, i)]) : \A m2 \in 1 .. Len(c[home(r2, j)]) :
              c[home(r1, i)][m1] = c[home(r2, j)][m2]
                => home(r1, i) = home(r2, j) /\ m1 = m2
        BY <4>1, <4>2, <4>5, Zenon
      <4> QED BY <4>1, <4>2, <4>3, <4>6, Zenon
    <3>3. r1 # p /\ r2 # p
      BY <3>1
    <3>4. r1 = r2
      BY <3>2, <3>3
    <3>5. \A n, x, y \in Int : x - n = y - n => x = y
      OBVIOUS
    <3>6. Len(s) \in Int /\ i \in Int /\ j \in Int
      BY <1>1
    <3> QED BY <3>2, <3>3, <3>4, <3>5, <3>6
  <2> QED BY <2>2 DEF Apart
<1>7. Chained(d[p], first'[p], last'[p], count'[p], _ref')
  <2>1. first'[p] = NoEntry /\ last'[p] = NoEntry /\ count'[p] = 0
    BY <1>3
  <2> HIDE DEF d
  <2> QED BY <1>5, <2>1 DEF Chained
<1>8. Chained(d[q], first'[q], last'[q], count'[q], _ref')
  <2>1. /\ first'[q] = IF Len(s) = 0 THEN t[1] ELSE first[q]
        /\ last'[q] = t[Len(t)] /\ count'[q] = Len(s) + Len(t)
    BY <1>1, <1>3
  <2>2. ASSUME NEW i \in 1 .. Len(t)
        PROVE  t[i] \in Entries /\ _ref'[t[i]] = _ref[t[i]]
    <3>1. Len(s) # 0 => t[i] # s[Len(s)]
      <4>1. Len(s) # 0 => Len(s) \in 1 .. Len(s)
        BY <1>1
      <4> QED BY <1>1, <4>1 DEF Apart
    <3> QED BY <1>1, <1>3, <3>1 DEF QueueTypes
  <2>3. ASSUME NEW i \in 1 .. Len(s) - 1
        PROVE  _ref'[s[i]] = s[i + 1]
    <3>1. i \in 1 .. Len(s) /\ Len(s) \in 1 .. Len(s) /\ i # Len(s)
      BY <1>1
    <3>2. s[i] # s[Len(s)] /\ s[i] \in Entries /\ _ref[s[i]] = s[i + 1]
      BY <1>2, <3>1 DEF Apart
    <3> QED BY <1>3, <3>2 DEF QueueTypes
  <2>4. Len(s) # 0 => _ref'[s[Len(s)]] = t[1]
    <3>1. Len(s) # 0 => s[Len(s)] \in Entries
      BY <1>1, <1>2
    <3> QED BY <1>3, <3>1 DEF QueueTypes
  <2>5. first'[q] = d[q][1]
    <3>1. CASE Len(s) = 0
      <4>1. 1 \in 1 .. Len(t) /\ Len(s) + 1 = 1
        BY <1>1, <3>1
      <4>2. d[q][Len(s) + 1] = t[1]
        BY <1>5, <4>1
      <4> QED BY <2>1, <3>1, <4>1, <4>2
    <3>2. CASE Len(s) # 0
      <4>1. 1 \in 1 .. Len(s) /\ first[q] = s[1]
        BY <1>1, <1>2, <3>2
      <4> QED BY <1>5, <2>1, <3>2, <4>1
    <3> QED BY <3>1, <3>2
  <2>6. last'[q] = d[q][count'[q]] /\ _ref'[last'[q]] = NoEntry
    <3>1. Len(t) \in 1 .. Len(t)
      BY <1>1
    <3>2. d[q][Len(s) + Len(t)] = t[Len(t)]
      BY <1>5, <3>1
    <3> QED BY <1>1, <2>1, <2>2, <3>1, <3>2
  <2>7. ASSUME NEW i \in 1 .. Len(s) + Len(t) - 1
        PROVE  _ref'[d[q][i]] = d[q][i + 1]
    <3>1. CASE i < Len(s)
      <4>1. i \in 1 .. Len(s) - 1 /\ i \in 1 .. Len(s) /\ i + 1 \in 1 .. Len(s)
        BY <1>1, <3>1
      <4> QED BY <1>5, <2>3, <4>1
    <3>2. CASE i = Len(s)
      <4>1. i \in 1 .. Len(s) /\ 1 \in 1 .. Len(t) /\ Len(s) # 0
        BY <1>1, <3>2
      <4> QED BY <1>5, <2>4, <3>2, <4>1
    <3>3. CASE i > Len(s)
      <4>1. /\ i - Len(s) \in 1 .. Len(t) - 1 /\ i - Len(s) \in 1 .. Len(t)
            /\ i - Len(s) + 1 \in 1 .. Len(t)
            /\ Len(s) + (i - Len(s)) = i /\ Len(s) + (i - Len(s) + 1) = i + 1
        BY <1>1, <3>3
      <4>2. d[q][i] = t[i - Len(s)]
        BY <1>5, <4>1
      <4>3. d[q][i + 1] = t[i - Len(s) + 1]
        BY <1>5, <4>1
      <4>4. _ref[t[i - Len(s)]] = t[i - Len(s) + 1]
        BY <1>1, <4>1
      <4>5. _ref'[t[i - Len(s)]] = _ref[t[i - Len(s)]]
        BY <2>2, <4>1
      <4> QED BY <4>2, <4>3, <4>4, <4>5
    <3>4. i < Len(s) \/ i = Len(s) \/ i > Len(s)
      BY <1>1
    <3> QED BY <3>1, <3>2, <3>3, <3>4
  <2>8. count'[q] = Len(d[q]) /\ count'[q] > 0
    <3> HIDE DEF d, s, t
    <3> QED BY <1>1, <1>5, <2>1
  <2>9. \A i \in 1 .. count'[q] - 1 : _ref'[d[q][i]] = d[q][i + 1]
    BY <2>1, <2>7
  <2>10. /\ count'[q] = Len(d[q]) /\ count'[q] > 0 /\ count'[q] # 0
         /\ first'[q] = d[q][1] /\ last'[q] = d[q][count'[q]]
         /\ _ref'[last'[q]] = NoEntry
         /\ \A i \in 1 .. count'[q] - 1 : _ref'[d[q][i]] = d[q][i + 1]
    <3> HIDE DEF d, s, t
    <3> QED BY <2>5, <2>6, <2>8, <2>9
  <2> HIDE DEF d, s, t
  <2> QED BY <2>10, Zenon DEF Chained
<1>9. \A r \in Queues \ {p, q} :
        /\ d[r] = c[r]
        /\ first'[r] = first[r] /\ last'[r] = last[r] /\ count'[r] = count[r]
        /\ \A i \in 1 .. Len(c[r]) : _ref'[c[r][i]] = _ref[c[r][i]]
  <2>1. ASSUME NEW r \in Queues \ {p, q}, NEW i \in 1 .. Len(c[r])
        PROVE  c[r][i] \in Entries /\ (Len(s) # 0 => c[r][i] # s[Len(s)])
    <3>1. c[r][i] \in Entries
      BY OneQueue
    <3>2. Len(s) # 0 => Len(s) \in 1 .. Len(s)
      BY <1>1
    <3> QED BY <3>1, <3>2 DEF Apart
  <2> QED BY <1>3, <1>5, <2>1 DEF QueueTypes
<1>10. Linked(d)'
  <2> HIDE DEF d, s, t
  <2>1. {p, q} \in SUBSET Queues /\ d \in [Queues -> Seq(Entries)]
    BY <1>5
  <2>2. \A r \in {p, q} : Chained(d[r], first'[r], last'[r], count'[r], _ref')
    BY <1>7, <1>8
  <2> QED BY <1>9, <2>1, <2>2, Relinked
<1> QED
  BY <1>4, <1>5, <1>6, <1>10, Reached

\* A sequence without its element at i.
LEMMA Without ==
  ASSUME NEW s \in Seq(Entries), NEW i \in 2 .. Len(s)
  PROVE  LET w == SubSeq(s, 1, i - 1) \o SubSeq(s, i + 1, Len(s)) IN
         /\ w \in Seq(Entries) /\ Len(w) = Len(s) - 1
         /\ \A k \in 1 .. i - 1 : w[k] = s[k]
         /\ \A k \in i .. Len(s) - 1 : w[k] = s[k + 1]
<1> DEFINE a == SubSeq(s, 1, i - 1)
           b == SubSeq(s, i + 1, Len(s))
           w == a \o b
<1>1. /\ a \in Seq(Entries) /\ Len(a) = i - 1 /\ \A k \in 1 .. i - 1 : a[k] = s[k]
      /\ b \in Seq(Entries) /\ Len(b) = Len(s) - i
      /\ \A k \in 1 .. Len(s) - i : b[k] = s[i + k]
  OBVIOUS
<1> HIDE DEF a, b
<1>2. w \in Seq(Entries) /\ Len(w) = Len(s) - 1
  BY <1>1
<1>3. \A k \in 1 .. i - 1 : w[k] = s[k]
  BY <1>1
<1>4. ASSUME NEW k \in i .. Len(s) - 1 PROVE w[k] = s[k + 1]
  <2>0. /\ k \in 1 .. Len(a) + Len(b) /\ ~(k <= Len(a))
        /\ k - (i - 1) \in 1 .. Len(s) - i /\ i + (k - (i - 1)) = k + 1
    <3>1. \A n \in Nat : \A j \in 2 .. n : \A m \in j .. n - 1 :
            /\ m \in 1 .. (j - 1) + (n - j) /\ ~(m <= j - 1)
            /\ m - (j - 1) \in 1 .. n - j /\ j + (m - (j - 1)) = m + 1
      OBVIOUS
    <3>2. Len(s) \in Nat
      BY LenProperties
    <3> QED BY <1>1, <3>1, <3>2
  <2>1. w[k] = b[k - (i - 1)]
    BY <1>1, <2>0, ConcatProperties
  <2> QED BY <1>1, <2>0, <2>1
<1> QED
  BY <1>2, <1>3, <1>4 DEF a, b

LEMMA CutOut ==
  ASSUME NEW c \in [Queues -> Seq(Entries)], QueueTypes, Linked(c), Apart(c),
         c = QueueContents, NEW q \in Queues, NEW i \in 1 .. count[q], i # 1, cutEntry(q, i)
  PROVE  /\ QueueInv' /\ i \in DOMAIN c[q]
         /\ QueueContents' =
              [c EXCEPT ![q] = SubSeq(@, 1, i - 1) \o SubSeq(@, i + 1, Len(@))]
<1> DEFINE d == [c EXCEPT ![q] = SubSeq(@, 1, i - 1) \o SubSeq(@, i + 1, Len(@))]
           s == c[q]
<1>1. /\ s \in Seq(Entries) /\ Len(s) \in Nat /\ count[q] = Len(s) /\ Walk(q) = s
      /\ \A k \in 1 .. Len(s) - 1 : _ref[s[k]] = s[k + 1]
      /\ \A k \in 1 .. Len(s) : s[k] \in Entries
  BY OneQueue DEF QueueContents
<1>2. i \in 2 .. Len(s) /\ i - 1 \in 1 .. Len(s) - 1 /\ i - 1 \in 1 .. Len(s)
      /\ i \in 1 .. Len(s) /\ (i - 1) + 1 = i /\ 1 \in 1 .. Len(s) /\ Len(s) > 0
  BY <1>1
<1>3. /\ first[q] = s[1] /\ last[q] = s[Len(s)] /\ _ref[s[Len(s)]] = NoEntry
      /\ last[q] \in Entries
  <2>1. Len(c[q]) > 0 => /\ first[q] = c[q][1] /\ last[q] = c[q][Len(c[q])]
                         /\ last[q] \in Entries /\ _ref[last[q]] = NoEntry
    BY OneQueue
  <2> QED BY <1>2, <2>1
<1>4. /\ _ref' = [_ref EXCEPT ![s[i - 1]] = _ref[s[i]]]
      /\ last' = [last EXCEPT ![q] = IF _ref[s[i]] = NoEntry THEN s[i - 1] ELSE @]
      /\ count' = [count EXCEPT ![q] = @ - 1]
      /\ first' = first
  BY <1>1 DEF cutEntry
<1>5. QueueTypes'
  <2>1. s[i] \in Entries /\ s[i - 1] \in Entries
    BY <1>1, <1>2
  <2>2. _ref[s[i]] \in Entries \cup {NoEntry}
    BY <2>1 DEF QueueTypes
  <2>3. count[q] - 1 \in Nat
    BY <1>1, <1>2
  <2> QED BY <1>4, <2>1, <2>2, <2>3 DEF QueueTypes
<1>6. /\ d \in [Queues -> Seq(Entries)]
      /\ Len(d[q]) = Len(s) - 1
      /\ \A k \in 1 .. i - 1 : d[q][k] = s[k]
      /\ \A k \in i .. Len(s) - 1 : d[q][k] = s[k + 1]
      /\ \A p \in Queues \ {q} : d[p] = c[p]
  <2> DEFINE w == SubSeq(s, 1, i - 1) \o SubSeq(s, i + 1, Len(s))
  <2>1. d = [c EXCEPT ![q] = w]
    OBVIOUS
  <2>2. /\ w \in Seq(Entries) /\ Len(w) = Len(s) - 1
        /\ \A k \in 1 .. i - 1 : w[k] = s[k]
        /\ \A k \in i .. Len(s) - 1 : w[k] = s[k + 1]
    <3> HIDE DEF s
    <3> QED BY <1>1, <1>2, Without
  <2> HIDE DEF w, d
  <2> QED BY <2>1, <2>2
<1>7. Apart(d)
  <2>1. ASSUME NEW p \in Queues, NEW r \in Queues, NEW j \in 1 .. Len(d[p]),
               NEW k \in 1 .. Len(d[r]), d[p][j] = d[r][k]
        PROVE  p = r /\ j = k
    <3> DEFINE place(t, m) == IF t = q /\ ~(m < i) THEN m + 1 ELSE m
    <3>1. ASSUME NEW t \in Queues, NEW m \in 1 .. Len(d[t])
          PROVE  place(t, m) \in 1 .. Len(c[t]) /\ d[t][m] = c[t][place(t, m)]
      <4>1. CASE t # q
        BY <1>6, <4>1
      <4>2. CASE t = q /\ m < i
        <5>1. m \in 1 .. i - 1 /\ m \in 1 .. Len(s)
          BY <1>1, <1>6, <4>2
        <5> QED BY <1>6, <4>2, <5>1
      <4>3. CASE t = q /\ ~(m < i)
        <5>1. m \in i .. Len(s) - 1 /\ m + 1 \in 1 .. Len(s)
          <6>1. \A n, a \in Nat : \A b \in 2 .. n : a \in 1 .. n - 1 /\ ~(a < b) =>
                  a \in b .. n - 1 /\ a + 1 \in 1 .. n
            OBVIOUS
          <6> HIDE DEF d, s
          <6>2. Len(d[t]) = Len(s) - 1
            BY <1>6, <4>3
          <6>3. m \in 1 .. Len(s) - 1 /\ m \in Nat
            BY <1>1, <6>2
          <6> QED BY <1>1, <1>2, <4>3, <6>1, <6>3
        <5> QED BY <1>6, <4>3, <5>1
      <4> QED BY <4>1, <4>2, <4>3
    <3>2. p = r /\ place(p, j) = place(r, k)
      <4> HIDE DEF d, s, place
      <4>1. place(p, j) \in 1 .. Len(c[p]) /\ place(r, k) \in 1 .. Len(c[r])
        BY <3>1, Zenon
      <4>2. c[p][place(p, j)] = c[r][place(r, k)]
        BY <2>1, <3>1, Zenon
      <4> QED BY <4>1, <4>2 DEF Apart
    <3>3. \A x, y, z \in Int : (IF ~(x < z) THEN x + 1 ELSE x) = (IF ~(y < z) THEN y + 1 ELSE y)
                               => x = y
      OBVIOUS
    <3>4. CASE p # q
      BY <3>2, <3>4
    <3>5. CASE p = q
      BY <3>2, <3>3, <3>5
    <3> QED BY <3>2, <3>4, <3>5
  <2> QED BY <2>1 DEF Apart
<1>8. Chained(d[q], first'[q], last'[q], count'[q], _ref')
  <2>1. /\ first'[q] = s[1] /\ count'[q] = Len(s) - 1
        /\ last'[q] = IF _ref[s[i]] = NoEntry THEN s[i - 1] ELSE last[q]
    BY <1>1, <1>3, <1>4 DEF QueueTypes
  <2>2. /\ _ref'[s[i - 1]] = _ref[s[i]]
        /\ \A k \in 1 .. Len(s) : k # i - 1 => _ref'[s[k]] = _ref[s[k]]
    <3>1. ASSUME NEW k \in 1 .. Len(s), k # i - 1 PROVE s[k] # s[i - 1]
      BY <1>2, <3>1 DEF Apart
    <3>2. s[i - 1] \in Entries
      BY <1>1, <1>2
    <3> QED BY <1>1, <1>4, <3>1, <3>2 DEF QueueTypes
  <2>3. i # Len(s) => _ref[s[i]] = s[i + 1] /\ s[i + 1] # NoEntry
    <3>1. i # Len(s) => i \in 1 .. Len(s) - 1 /\ i + 1 \in 1 .. Len(s)
      BY <1>1, <1>2
    <3> QED BY <1>1, <3>1, QueueConstants
  <2>4. first'[q] = d[q][1]
    <3>1. 1 \in 1 .. i - 1
      BY <1>2
    <3> QED BY <1>6, <2>1, <3>1
  <2>5. last'[q] = d[q][Len(s) - 1] /\ _ref'[last'[q]] = NoEntry
    <3>1. CASE i = Len(s)
      <4>1. i - 1 \in 1 .. i - 1
        BY <1>2
      <4> QED BY <1>3, <1>6, <2>1, <2>2, <3>1, <4>1
    <3>2. CASE i # Len(s)
      <4>1. /\ Len(s) - 1 \in i .. Len(s) - 1 /\ (Len(s) - 1) + 1 = Len(s)
            /\ Len(s) \in 1 .. Len(s) /\ Len(s) # i - 1
        BY <1>1, <1>2, <3>2
      <4>2. d[q][Len(s) - 1] = s[Len(s)]
        BY <1>6, <4>1
      <4> QED BY <1>3, <2>1, <2>2, <2>3, <3>2, <4>1, <4>2
    <3> QED BY <3>1, <3>2
  <2>6. ASSUME NEW k \in 1 .. Len(s) - 2
        PROVE  _ref'[d[q][k]] = d[q][k + 1]
    <3>1. CASE k < i - 1
      <4>1. /\ k \in 1 .. i - 1 /\ k + 1 \in 1 .. i - 1 /\ k \in 1 .. Len(s) - 1
            /\ k \in 1 .. Len(s) /\ k # i - 1
        BY <1>1, <1>2, <3>1
      <4>2. d[q][k] = s[k] /\ d[q][k + 1] = s[k + 1]
        BY <1>6, <4>1
      <4> QED BY <1>1, <2>2, <4>1, <4>2
    <3>2. CASE k = i - 1
      <4>1. /\ k \in 1 .. i - 1 /\ k + 1 \in i .. Len(s) - 1 /\ k + 1 = i /\ i # Len(s)
        BY <1>1, <1>2, <3>2
      <4>2. d[q][k] = s[i - 1] /\ d[q][k + 1] = s[i + 1]
        BY <1>6, <3>2, <4>1
      <4> QED BY <2>2, <2>3, <4>1, <4>2
    <3>3. CASE k > i - 1
      <4>1. /\ k \in i .. Len(s) - 1 /\ k + 1 \in i .. Len(s) - 1
            /\ k + 1 \in 1 .. Len(s) - 1 /\ k + 1 \in 1 .. Len(s) /\ k + 1 # i - 1
        BY <1>1, <1>2, <3>3
      <4>2. d[q][k] = s[k + 1] /\ d[q][k + 1] = s[(k + 1) + 1]
        BY <1>6, <4>1
      <4>3. _ref'[s[k + 1]] = _ref[s[k + 1]] /\ _ref[s[k + 1]] = s[(k + 1) + 1]
        BY <1>1, <2>2, <4>1
      <4> QED BY <4>2, <4>3
    <3>4. k < i - 1 \/ k = i - 1 \/ k > i - 1
      BY <1>2
    <3> QED BY <3>1, <3>2, <3>3, <3>4
  <2>7. /\ count'[q] = Len(d[q]) /\ count'[q] > 0
        /\ first'[q] = d[q][1] /\ last'[q] = d[q][count'[q]]
        /\ _ref'[last'[q]] = NoEntry
        /\ \A k \in 1 .. count'[q] - 1 : _ref'[d[q][k]] = d[q][k + 1]
    <3>1. count'[q] - 1 = Len(s) - 2 /\ count'[q] > 0
      BY <1>1, <1>2, <2>1
    <3> HIDE DEF d, s
    <3> QED BY <1>6, <2>1, <2>4, <2>5, <2>6, <3>1
  <2> HIDE DEF d, s
  <2> QED BY <2>7 DEF Chained
<1>9. \A p \in Queues \ {q} :
        /\ d[p] = c[p]
        /\ first'[p] = first[p] /\ last'[p] = last[p] /\ count'[p] = count[p]
        /\ \A k \in 1 .. Len(c[p]) : _ref'[c[p][k]] = _ref[c[p][k]]
  <2>1. ASSUME NEW p \in Queues \ {q}, NEW k \in 1 .. Len(c[p])
        PROVE  c[p][k] \in Entries /\ c[p][k] # s[i - 1]
    <3>1. c[p][k] \in Entries
      BY OneQueue
    <3> QED BY <1>2, <3>1 DEF Apart
  <2>2. s[i - 1] \in Entries
    BY <1>1, <1>2
  <2>3. \A e \in Entries : e # s[i - 1] => _ref'[e] = _ref[e]
    BY <1>4, <2>2 DEF QueueTypes
  <2>4. \A p \in Queues \ {q} :
          first'[p] = first[p] /\ last'[p] = last[p] /\ count'[p] = count[p]
    BY <1>4 DEF QueueTypes
  <2>5. \A p \in Queues \ {q} : \A k \in 1 .. Len(c[p]) : _ref'[c[p][k]] = _ref[c[p][k]]
    BY <2>1, <2>3
  <2> HIDE DEF d, s
  <2> QED BY <1>6, <2>4, <2>5
<1>10. Linked(d)'
  <2> HIDE DEF d, s
  <2>1. {q} \in SUBSET Queues /\ d \in [Queues -> Seq(Entries)]
    BY <1>6
  <2>2. \A p \in {q} : Chained(d[p], first'[p], last'[p], count'[p], _ref')
    BY <1>8
  <2> QED BY <1>9, <2>1, <2>2, Relinked
<1>11. i \in DOMAIN c[q]
  BY <1>1, <1>2
<1>12. QueueInv' /\ QueueContents' = d
  <2> HIDE DEF d, s
  <2> QED BY <1>5, <1>6, <1>7, <1>10, Reached
<1> QED
  BY <1>11, <1>12

-----------------------------------------------------------------------------
(* FastQueue implements EntryQueues *)

\* The links make the ends and the count agree with the walk.
LEMMA EndsMeet ==
  ASSUME QueueInv
  PROVE  EndsAgree
<1>1. PICK c \in [Queues -> Seq(Entries)] : c = QueueContents /\ QueueTypes /\ Linked(c)
  BY Contents
<1>2. ASSUME NEW q \in Queues
      PROVE  /\ (count[q] = 0) <=> (first[q] = NoEntry)
             /\ last[q] = IF count[q] = 0 THEN NoEntry ELSE Walk(q)[count[q]]
             /\ count[q] > 0 => _ref[last[q]] = NoEntry
  <2>1. Walk(q) = c[q]
    BY <1>1 DEF QueueContents
  <2>2. /\ Len(c[q]) \in Nat /\ count[q] = Len(c[q])
        /\ Len(c[q]) = 0 => first[q] = NoEntry /\ last[q] = NoEntry
        /\ Len(c[q]) > 0 => /\ first[q] # NoEntry /\ last[q] = c[q][Len(c[q])]
                            /\ _ref[last[q]] = NoEntry
    BY <1>1, OneQueue
  <2> QED BY <2>1, <2>2
<1> QED
  BY <1>2 DEF EndsAgree

LEMMA EmptyAtFirst ==
  ASSUME QueueInit
  PROVE  QueueInv /\ QueueContents = [q \in Queues |-> <<>>]
<1> DEFINE c == [q \in Queues |-> <<>>]
<1>1. c \in [Queues -> Seq(Entries)] /\ \A q \in Queues : c[q] = <<>> /\ Len(c[q]) = 0
  OBVIOUS
<1>2. QueueTypes
  BY DEF QueueInit, QueueTypes
<1>3. \A q \in Queues : first[q] = NoEntry /\ last[q] = NoEntry /\ count[q] = 0
  BY DEF QueueInit
<1> HIDE DEF c
<1>4. Linked(c)
  BY <1>1, <1>3 DEF Linked, Chained
<1>5. Apart(c)
  BY <1>1 DEF Apart
<1>6. QueueContents = c
  BY <1>1, <1>4, ContentsAre
<1> QED
  BY <1>1, <1>2, <1>4, <1>5, <1>6 DEF QueueInv, c

\* A detached entry is queued nowhere.
LEMMA NotQueued ==
  ASSUME NEW c \in [Queues -> Seq(Entries)], Linked(c), c = QueueContents, NEW e,
         Detached(e)
  PROVE  e \notin Abstract!Queued
<1>1. \A q \in Queues : \A i \in 1 .. Len(c[q]) : c[q][i] # e
  BY DetachedIsElsewhere
<1>2. \A q \in Queues : DOMAIN c[q] = 1 .. Len(c[q])
  BY LenProperties
<1> QED
  BY <1>1, <1>2 DEF Abstract!Queued, Abstract!Range

\* Every operation keeps the invariant and is the operation of its name on the walks.
LEMMA Operated ==
  ASSUME QueueInv, QueueNext
  PROVE  QueueInv' /\ Abstract!Next
<1>1. PICK c \in [Queues -> Seq(Entries)] :
        c = QueueContents /\ QueueTypes /\ Linked(c) /\ Apart(c)
  BY Contents
<1>2. PICK q \in Queues :
        \/ \E e \in Entries : pushFront(q, e) \/ pushBack(q, e)
        \/ round(q) \/ popFront(q) \/ drop(q)
        \/ \E i \in 1 .. count[q] : cutEntry(q, i)
        \/ \E p \in Queues : moveAll(p, q)
  BY DEF QueueNext
<1>3. /\ Len(c[q]) \in Nat /\ count[q] = Len(c[q])
      /\ Len(c[q]) = 0 <=> c[q] = <<>>
  BY <1>1, OneQueue
<1>4. ASSUME NEW e \in Entries, pushFront(q, e) PROVE QueueInv' /\ Abstract!Next
  <2>1. QueueInv' /\ QueueContents' = [c EXCEPT ![q] = <<e>> \o @]
    BY <1>1, <1>4, PushedFront
  <2>2. e \notin Abstract!Queued
    BY <1>1, <1>4, NotQueued DEF pushFront
  <2>3. Abstract!PushFront(q, e)
    BY <1>1, <2>1, <2>2 DEF Abstract!PushFront
  <2> QED BY <2>1, <2>3 DEF Abstract!Next
<1>5. ASSUME NEW e \in Entries, pushBack(q, e) PROVE QueueInv' /\ Abstract!Next
  <2>1. QueueInv' /\ QueueContents' = [c EXCEPT ![q] = Append(@, e)]
    BY <1>1, <1>5, PushedBack
  <2>2. e \notin Abstract!Queued
    BY <1>1, <1>5, NotQueued DEF pushBack
  <2>3. Abstract!PushBack(q, e)
    BY <1>1, <2>1, <2>2 DEF Abstract!PushBack
  <2> QED BY <2>1, <2>3 DEF Abstract!Next
<1>6. ASSUME popFront(q) PROVE QueueInv' /\ Abstract!Next
  <2>1. c[q] # <<>>
    BY <1>3, <1>6 DEF popFront
  <2>2. QueueInv' /\ QueueContents' = [c EXCEPT ![q] = Tail(@)]
    BY <1>1, <1>6, <2>1, PoppedFront
  <2>3. Abstract!PopFront(q)
    BY <1>1, <2>1, <2>2 DEF Abstract!PopFront
  <2> QED BY <2>2, <2>3 DEF Abstract!Next
<1>7. CASE round(q)
  <2>1. c[q] # <<>>
    BY <1>3, <1>7 DEF round
  <2>2. QueueInv' /\ QueueContents' = [c EXCEPT ![q] = Append(Tail(@), Head(@))]
    BY <1>1, <1>7, <2>1, Rounded
  <2>3. Abstract!Round(q)
    BY <1>1, <2>1, <2>2 DEF Abstract!Round
  <2> QED BY <2>2, <2>3 DEF Abstract!Next
<1>8. CASE drop(q)
  <2>1. QueueInv' /\ QueueContents' = [c EXCEPT ![q] = <<>>]
    BY <1>1, <1>8, Dropped
  <2>2. Abstract!Clear(q)
    BY <1>1, <2>1 DEF Abstract!Clear
  <2> QED BY <2>1, <2>2 DEF Abstract!Next
<1>9. ASSUME NEW i \in 1 .. count[q], cutEntry(q, i) PROVE QueueInv' /\ Abstract!Next
  <2>1. CASE i = 1 /\ popFront(q)
    BY <1>6, <2>1
  <2>2. CASE i # 1
    <3>1. /\ QueueInv' /\ i \in DOMAIN c[q]
          /\ QueueContents' =
               [c EXCEPT ![q] = SubSeq(@, 1, i - 1) \o SubSeq(@, i + 1, Len(@))]
      BY <1>1, <1>9, <2>2, CutOut
    <3>2. Abstract!Cut(q, i)
      BY <1>1, <3>1 DEF Abstract!Cut, Abstract!RemoveAt
    <3>3. i \in 1 .. Len(QueueContents[q])
      BY <1>1, <1>3
    <3> QED BY <3>1, <3>2, <3>3 DEF Abstract!Next
  <2> QED BY <1>3, <1>9, <2>1, <2>2 DEF cutEntry
<1>10. ASSUME NEW p \in Queues, moveAll(p, q) PROVE QueueInv' /\ Abstract!Next
  <2>1. QueueInv' /\ QueueContents' = [c EXCEPT ![p] = <<>>, ![q] = @ \o c[p]]
    BY <1>1, <1>10, MovedAll
  <2>2. Abstract!MoveAll(p, q)
    BY <1>1, <1>10, <2>1 DEF Abstract!MoveAll, moveAll
  <2> QED BY <2>1, <2>2 DEF Abstract!Next
<1> QED
  BY <1>2, <1>4, <1>5, <1>6, <1>7, <1>8, <1>9, <1>10

\* Whatever is pushed, popped, cut, rounded, moved and dropped, for any entries and any
\* queues, the linked lists are the queues of their names and their ends and counts agree
\* with the walk (oatpp/async/utils/FastQueue.hpp).
THEOREM QueuesKept == QueueSpec => ListsAreQueues
<1>1. QueueInit => QueueInv /\ Abstract!Init
  BY EmptyAtFirst DEF Abstract!Init
<1>2. QueueInv => EndsAgree
  BY EndsMeet
<1>3. QueueInv /\ [QueueNext]_queueVars
        => /\ QueueInv'
           /\ [queueVars' # queueVars =>
                EndsAgree' /\ [Abstract!Next]_QueueContents]_queueVars
  <2>1. ASSUME QueueInv, QueueNext
        PROVE  QueueInv' /\ EndsAgree' /\ Abstract!Next
    <3>1. QueueInv' /\ Abstract!Next
      BY <2>1, Operated
    <3>2. QueueInv' => EndsAgree'
      BY <1>2, PTL
    <3> QED BY <3>1, <3>2
  <2>2. ASSUME QueueInv, UNCHANGED queueVars PROVE QueueInv'
    BY <2>2 DEF queueVars, QueueInv, QueueTypes, QueueContents, Walk, Linked
  <2> QED BY <2>1, <2>2
<1> QED
  BY <1>1, <1>2, <1>3, PTL DEF QueueSpec, ListsAreQueues
=============================================================================
