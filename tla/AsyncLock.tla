------------------------------ MODULE AsyncLock ------------------------------
(***************************************************************************)
(* oatpp::async::Lock and LockGuard: a lock that plain threads take with   *)
(* lock() and coroutines with LockGuard::lockAsyncInline().  A coroutine   *)
(* that finds the lock taken is put to sleep on the lock's wait list;      *)
(* unlock() wakes one element of the list, and the list's onNewItem        *)
(* listener closes the window between the failed try_lock and the          *)
(* insertion.                                                              *)
(*                                                                         *)
(* The threads are interleaved between any two accesses to shared state:   *)
(* m_mutex, m_counter and the wait list are each read and written in       *)
(* actions of their own.  A processor is reduced to what matters here: it  *)
(* runs one coroutine at a time and sleeping coroutines come back through  *)
(* wakeCoroutine.  AsyncProcessor models it in full.                       *)
(***************************************************************************)
EXTENDS Integers, FiniteSets

CONSTANTS
  Coroutines,
  Processors,    \* processor worker threads
  Threads,       \* plain threads that call lock() and unlock()
  ProcessorOf,   \* [Coroutines -> Processors], CoroutineHandle::_PP
  Rounds,        \* bound: how often a client locks before it is through
  NoOne

Executors == Processors \cup Threads
Agents    == Coroutines \cup Threads

ASSUME ConstantsAssumption ==
  /\ ProcessorOf \in [Coroutines -> Processors]
  /\ Rounds \in Nat \ {0}
  /\ Processors \cap Threads = {}
  /\ Coroutines \cap Threads = {}
  /\ NoOne \notin Agents

ASSUME FiniteAssumption == IsFiniteSet(Coroutines) /\ IsFiniteSet(Threads)

VARIABLES
  mutex,     \* Lock::m_mutex: the client that holds it, or NoOne
  counter,   \* Lock::m_counter
  list,      \* CoroutineWaitList::m_coroutines of Lock::m_list
  asleep,    \* Processor::m_sleepNoTimeSet, of all processors together
  ready,     \* coroutines queued at their processor (m_queue or m_pushList)
  running,   \* the coroutine each processor is iterating, or NoOne
  pc,        \* what each thread executes next
  owns,      \* LockGuard::m_ownsLock of each coroutine
  left       \* lock/unlock rounds each client still has to do

vars == <<mutex, counter, list, asleep, ready, running, pc, owns, left>>

Labels == {"idle", "try_lock", "count", "waitAsync", "sleep", "add",
           "onNewItem", "notifyNew", "unlock", "uncount", "notifyUnlock"}

TypeOK ==
  /\ mutex \in Agents \cup {NoOne}
  /\ counter \in Int
  /\ list \subseteq Coroutines
  /\ asleep \subseteq Coroutines
  /\ ready \subseteq Coroutines
  /\ running \in [Processors -> Coroutines \cup {NoOne}]
  /\ pc \in [Executors -> Labels]
  /\ owns \in [Coroutines -> BOOLEAN]
  /\ left \in [Agents -> 0 .. Rounds]

Init ==
  /\ mutex = NoOne
  /\ counter = 0
  /\ list = {}
  /\ asleep = {}
  /\ ready = Coroutines
  /\ running = [p \in Processors |-> NoOne]
  /\ pc = [e \in Executors |-> "idle"]
  /\ owns = [c \in Coroutines |-> FALSE]
  /\ left = [a \in Agents |-> Rounds]

Goto(e, from, to) == pc[e] = from /\ pc' = [pc EXCEPT ![e] = to]

-----------------------------------------------------------------------------
(* Locking from a coroutine *)

\* Processor::iterate picks the coroutine: one that owns the lock is at the
\* end of its section, any other one is about to call lockAsyncInline.
Dispatch(c) ==
  LET p == ProcessorOf[c] IN
  /\ c \in ready
  /\ running[p] = NoOne
  /\ Goto(p, "idle", IF owns[c] THEN "unlock" ELSE "try_lock")
  /\ ready' = ready \ {c}
  /\ running' = [running EXCEPT ![p] = c]
  /\ UNCHANGED <<mutex, counter, list, asleep, owns, left>>

TryLock(p) ==
  /\ \/ /\ mutex = NoOne
        /\ mutex' = running[p]
        /\ Goto(p, "try_lock", "count")
     \/ /\ mutex # NoOne
        /\ Goto(p, "try_lock", "waitAsync")
        /\ UNCHANGED mutex
  /\ UNCHANGED <<counter, list, asleep, ready, running, owns, left>>

\* The coroutine goes back to the tail of the processor's queue.
Requeue(p) ==
  /\ ready' = ready \cup {running[p]}
  /\ running' = [running EXCEPT ![p] = NoOne]

\* try_lock succeeded: the coroutine owns the lock and yields to the action
\* it passed to lockAsyncInline.
CountCoroutine(p) ==
  /\ Goto(p, "count", "idle")
  /\ counter' = counter + 1
  /\ owns' = [owns EXCEPT ![running[p]] = TRUE]
  /\ Requeue(p)
  /\ UNCHANGED <<mutex, list, asleep, left>>

\* try_lock failed: repeat when the counter says that the lock is free,
\* otherwise ask the processor to put the coroutine on the wait list.
WaitAsync(p) ==
  /\ \/ /\ counter = 0
        /\ Goto(p, "waitAsync", "idle")
        /\ Requeue(p)
     \/ /\ counter > 0
        /\ Goto(p, "waitAsync", "sleep")
        /\ UNCHANGED <<ready, running>>
  /\ UNCHANGED <<mutex, counter, list, asleep, owns, left>>

Sleep(p) ==
  /\ Goto(p, "sleep", "add")
  /\ asleep' = asleep \cup {running[p]}
  /\ UNCHANGED <<mutex, counter, list, ready, running, owns, left>>

\* From here on the coroutine may be notified, while its processor's thread
\* is still to call the listener.
Add(p) ==
  /\ Goto(p, "add", "onNewItem")
  /\ list' = list \cup {running[p]}
  /\ running' = [running EXCEPT ![p] = NoOne]
  /\ UNCHANGED <<mutex, counter, asleep, ready, owns, left>>

\* Mutant of OnNewItem: no listener, the list is not looked at again.
MutOnNewItem(p) ==
  /\ Goto(p, "onNewItem", "idle")
  /\ UNCHANGED <<mutex, counter, list, asleep, ready, running, owns, left>>

OnNewItem(p) ==
  /\ \/ counter = 0 /\ Goto(p, "onNewItem", "notifyNew")
     \/ counter > 0 /\ Goto(p, "onNewItem", "idle")
  /\ UNCHANGED <<mutex, counter, list, asleep, ready, running, owns, left>>

-----------------------------------------------------------------------------
(* Waking: the list is an unordered_set, any element may be its begin().   *)

Notified == IF list = {} THEN {{}} ELSE {{c} : c \in list}

Wake(woken) ==
  /\ list' = list \ woken
  /\ asleep' = asleep \ woken

NotifyNew(p) ==
  /\ Goto(p, "notifyNew", "idle")
  /\ \E woken \in Notified : Wake(woken) /\ ready' = ready \cup woken
  /\ UNCHANGED <<mutex, counter, running, owns, left>>

-----------------------------------------------------------------------------
(* Locking from a plain thread, and unlocking from either *)

\* Mutant of ThreadLock: the thread does not block on the mutex.
MutThreadLock(t) ==
  /\ left[t] > 0
  /\ mutex' = t
  /\ Goto(t, "idle", "count")
  /\ UNCHANGED <<counter, list, asleep, ready, running, owns, left>>

ThreadLock(t) ==
  /\ left[t] > 0
  /\ mutex = NoOne
  /\ mutex' = t
  /\ Goto(t, "idle", "count")
  /\ UNCHANGED <<counter, list, asleep, ready, running, owns, left>>

\* Mutant of CountThread: lock() does not count, unlock() discounts.
MutCountThread(t) ==
  /\ Goto(t, "count", "unlock")
  /\ UNCHANGED <<mutex, counter, list, asleep, ready, running, owns, left>>

CountThread(t) ==
  /\ Goto(t, "count", "unlock")
  /\ counter' = counter + 1
  /\ UNCHANGED <<mutex, list, asleep, ready, running, owns, left>>

Unlock(e) ==
  /\ Goto(e, "unlock", "uncount")
  /\ mutex' = NoOne
  /\ UNCHANGED <<counter, list, asleep, ready, running, owns, left>>

Uncount(e) ==
  /\ Goto(e, "uncount", "notifyUnlock")
  /\ counter' = counter - 1
  /\ UNCHANGED <<mutex, list, asleep, ready, running, owns, left>>

\* LockGuard::unlock leaves the coroutine running, to lock again or to
\* finish; ~LockGuard unlocks when the coroutine is destroyed instead.
NotifyCoroutine(p) ==
  LET c == running[p] IN
  /\ Goto(p, "notifyUnlock", "idle")
  /\ owns' = [owns EXCEPT ![c] = FALSE]
  /\ \E l \in {left[c] - 1, 0} : left' = [left EXCEPT ![c] = l]
  /\ \E woken \in Notified :
       /\ Wake(woken)
       /\ ready' = ready \cup woken \cup {d \in {c} : left'[d] > 0}
  /\ running' = [running EXCEPT ![p] = NoOne]
  /\ UNCHANGED <<mutex, counter>>

\* Mutant of NotifyThread: unlock() from a thread wakes no coroutine.
MutNotifyThread(t) ==
  /\ Goto(t, "notifyUnlock", "idle")
  /\ left' = [left EXCEPT ![t] = @ - 1]
  /\ UNCHANGED <<mutex, counter, list, asleep, ready, running, owns>>

NotifyThread(t) ==
  /\ Goto(t, "notifyUnlock", "idle")
  /\ left' = [left EXCEPT ![t] = @ - 1]
  /\ \E woken \in Notified : Wake(woken) /\ ready' = ready \cup woken
  /\ UNCHANGED <<mutex, counter, running, owns>>

-----------------------------------------------------------------------------

ProcessorStep(p) ==
  \/ TryLock(p) \/ CountCoroutine(p) \/ WaitAsync(p) \/ Sleep(p) \/ Add(p)
  \/ OnNewItem(p) \/ NotifyNew(p)
  \/ Unlock(p) \/ Uncount(p) \/ NotifyCoroutine(p)

ThreadStep(t) ==
  \/ ThreadLock(t) \/ CountThread(t) \/ Unlock(t) \/ Uncount(t)
  \/ NotifyThread(t)

\* Every client is through and every thread has returned.
Finished ==
  /\ \A a \in Agents : left[a] = 0
  /\ \A e \in Executors : pc[e] = "idle"
  /\ UNCHANGED vars

Next ==
  \/ \E c \in Coroutines : Dispatch(c)
  \/ \E p \in Processors : ProcessorStep(p)
  \/ \E t \in Threads : ThreadStep(t)
  \/ Finished

\* The operating system runs every thread.  A processor's queue is FIFO and
\* round() moves what it ran to the tail, so that each queued coroutine is
\* picked again and again although others are queued: strong fairness.
Fairness ==
  /\ \A c \in Coroutines : SF_vars(Dispatch(c))
  /\ \A p \in Processors : WF_vars(ProcessorStep(p))
  /\ \A t \in Threads : WF_vars(ThreadStep(t))

Spec == Init /\ [][Next]_vars
FairSpec == Spec /\ Fairness

-----------------------------------------------------------------------------
(* Properties *)

\* A processor has begun to unlock on behalf of c.
Unlocking(c) ==
  /\ running[ProcessorOf[c]] = c
  /\ pc[ProcessorOf[c]] \in {"uncount", "notifyUnlock"}

\* The clients between a successful lock and the unlock of the mutex.
Inside ==
  {c \in Coroutines : owns[c] /\ ~ Unlocking(c)}
    \cup {t \in Threads : pc[t] = "unlock"}

\* Mutual exclusion between coroutines of any processors and plain threads:
\* two clients are never between lock and unlock together.
MutualExclusion == \A a, b \in Inside : a = b

\* The clients m_counter stands for: counted by lock() or try_lock() and not
\* yet discounted by unlock().
Counted ==
  {c \in Coroutines :
     owns[c] /\ ~ (running[ProcessorOf[c]] = c
                     /\ pc[ProcessorOf[c]] = "notifyUnlock")}
    \cup {t \in Threads : pc[t] \in {"unlock", "uncount"}}

\* m_counter is exact although unlock() releases the mutex before it
\* decrements, so that it can exceed one and a free mutex may still be
\* counted; it is never negative, which waitAsync, onNewItem and unlock
\* would answer with "Invalid state".
CounterExact == counter = Cardinality(Counted)

\* A sleeping coroutine can be reached by a notification: it is on the wait
\* list, or its processor is about to put it there; and nothing that is not
\* asleep is on the list, so that no coroutine is woken twice.
SleepersListed ==
  asleep = list \cup {c \in Coroutines : running[ProcessorOf[c]] = c
                                           /\ pc[ProcessorOf[c]] = "add"}

\* No wakeup is lost: while a coroutine waits on the list, the lock is taken
\* or counted, a thread is about to notify, or another client is on its way
\* to the lock.
NoLostWakeup ==
  list # {} =>
    \/ mutex # NoOne
    \/ \E e \in Executors : pc[e] # "idle"
    \/ ready # {}

\* Every client gets the lock as often as it asks for it.
AllServed == <>[](\A a \in Agents : left[a] = 0)

Section == INSTANCE CriticalSection WITH
             inside  <- Inside,
             pending <- {a \in Agents : left[a] > 0}

\* The lock implements the critical section its clients rely on.
ImplementsSection == Section!Spec
=============================================================================
