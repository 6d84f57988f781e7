--------------------------- MODULE ConditionVariable ---------------------------
(***************************************************************************)
(* oatpp::async::ConditionVariable: coroutines wait() or waitUntil() some  *)
(* data guarded by an async::Lock satisfies their condition, threads       *)
(* change the data under the lock and then notifyFirst() or notifyAll().   *)
(*                                                                         *)
(* The data is a number of items, the condition is that there is one, and  *)
(* whoever finds it satisfied takes an item before it unlocks.  The lock   *)
(* is the critical section its clients see (CriticalSection); the          *)
(* processor returns a sleeping coroutine to act() when it is woken or its *)
(* time point has passed.                                                  *)
(***************************************************************************)
EXTENDS Integers, FiniteSets

CONSTANTS
  Waiters,    \* coroutines that wait
  Timed,      \* those of them that use waitUntil
  Notifiers,  \* threads that add items, other clients than the waiters
  MaxItems,   \* bound: how many items are ever added
  NoOne

Users == Waiters \cup Notifiers

\* A coroutine waits, a thread notifies.
ASSUME ConditionConstants ==
  /\ IsFiniteSet(Waiters) /\ IsFiniteSet(Notifiers) /\ Waiters \cap Notifiers = {}
  /\ Timed \subseteq Waiters /\ NoOne \notin Users /\ MaxItems \in Nat

VARIABLES
  items,         \* the guarded data
  added,         \* items added so far
  owner,         \* which client is inside the lock
  notified,      \* m_notified
  waitList,      \* m_list
  waiter,        \* what each client does next
  waitListener,  \* of each waiter: the onNewItem call its insertion caused
  lateWaiters    \* the waiters whose time point has passed

conditionVars == <<items, added, owner, notified, waitList, waiter, waitListener,
                   lateWaiters>>

\* A waiter is in act() waiting for the lock, in onLocked() with the lock,
\* about to be listed, listed, or back at its caller: "ready" with the lock,
\* "returned" without.
ConditionTypeOK ==
  /\ items \in 0 .. MaxItems /\ added \in 0 .. MaxItems
  /\ owner \in Users \cup {NoOne}
  /\ notified \in BOOLEAN
  /\ waitList \subseteq Waiters
  /\ waiter \in [Users -> {"idle", "act", "onLocked", "add", "listed", "ready",
                           "returned", "lock", "change", "set", "notify"}]
  /\ waitListener \in [Waiters -> {"none", "new", "first"}]
  /\ lateWaiters \subseteq Timed

ConditionInit ==
  /\ items = 0 /\ added = 0 /\ owner = NoOne /\ notified = FALSE /\ waitList = {}
  /\ waiter = [c \in Users |-> "idle"]
  /\ waitListener = [w \in Waiters |-> "none"]
  /\ lateWaiters = {}

WaiterGoto(c, from, to) == waiter[c] = from /\ waiter' = [waiter EXCEPT ![c] = to]

-----------------------------------------------------------------------------
(* Waiting *)

ConditionWait(w) ==
  /\ WaiterGoto(w, "idle", "act") \/ WaiterGoto(w, "returned", "act")
  /\ lateWaiters' = lateWaiters \ {w}
  /\ UNCHANGED <<items, added, owner, notified, waitList, waitListener>>

\* act(): the coroutine sleeps on the lock until it gets it, for as long as
\* that takes.
Lock(w) ==
  /\ owner = NoOne
  /\ waitListener[w] = "none"
  /\ WaiterGoto(w, "act", "onLocked")
  /\ owner' = w
  /\ UNCHANGED <<items, added, notified, waitList, waitListener, lateWaiters>>

Satisfied(w) ==
  /\ items > 0
  /\ WaiterGoto(w, "onLocked", "ready")
  /\ UNCHANGED <<items, added, owner, notified, waitList, waitListener, lateWaiters>>

\* m_notified is reset before the lock is released.
Unsatisfied(w) ==
  /\ items = 0
  /\ \/ w \notin lateWaiters /\ WaiterGoto(w, "onLocked", "add")
     \/ w \in lateWaiters /\ WaiterGoto(w, "onLocked", "returned")
  /\ notified' = FALSE
  /\ owner' = NoOne
  /\ UNCHANGED <<items, added, waitList, waitListener, lateWaiters>>

AddWaiter(w) ==
  /\ WaiterGoto(w, "add", "listed")
  /\ waitList' = waitList \cup {w}
  /\ waitListener' = [waitListener EXCEPT ![w] = "new"]
  /\ UNCHANGED <<items, added, owner, notified, lateWaiters>>

ConditionOnNewItem(w) ==
  /\ waitListener[w] = "new"
  /\ waitListener' = [waitListener EXCEPT ![w] = IF notified THEN "first" ELSE "none"]
  /\ UNCHANGED <<items, added, owner, notified, waitList, waiter, lateWaiters>>

NotifiedWaiters(S) == IF S = {} THEN {{}} ELSE {{w} : w \in S}

WaitersWoken(S) == [c \in Users |-> IF c \in S THEN "act" ELSE waiter[c]]

NotifyNewWaiter(w) ==
  /\ waitListener[w] = "first"
  /\ waitListener' = [waitListener EXCEPT ![w] = "none"]
  /\ \E S \in NotifiedWaiters(waitList) : waitList' = waitList \ S /\ waiter' = WaitersWoken(S)
  /\ UNCHANGED <<items, added, owner, notified, lateWaiters>>

\* The caller, still inside the lock, uses what it waited for and unlocks.
Use(w) ==
  /\ WaiterGoto(w, "ready", "returned")
  /\ items' = items - 1
  /\ owner' = NoOne
  /\ UNCHANGED <<added, notified, waitList, waitListener, lateWaiters>>

-----------------------------------------------------------------------------
(* Time *)

Elapse(w) ==
  /\ w \in Timed \ lateWaiters
  /\ waiter[w] \in {"act", "onLocked", "add", "listed"}
  /\ lateWaiters' = lateWaiters \cup {w}
  /\ UNCHANGED <<items, added, owner, notified, waitList, waiter, waitListener>>

\* The sleep checker of the waiter's processor.
TimeOut(w) ==
  /\ w \in lateWaiters \cap waitList
  /\ WaiterGoto(w, "listed", "act")
  /\ waitList' = waitList \ {w}
  /\ UNCHANGED <<items, added, owner, notified, waitListener, lateWaiters>>

-----------------------------------------------------------------------------
(* Notifying *)

BeginChange(n) ==
  /\ added < MaxItems
  /\ WaiterGoto(n, "idle", "lock")
  /\ added' = added + 1
  /\ UNCHANGED <<items, owner, notified, waitList, waitListener, lateWaiters>>

LockThread(n) ==
  /\ owner = NoOne
  /\ WaiterGoto(n, "lock", "change")
  /\ owner' = n
  /\ UNCHANGED <<items, added, notified, waitList, waitListener, lateWaiters>>

Change(n) ==
  /\ WaiterGoto(n, "change", "set")
  /\ items' = items + 1
  /\ owner' = NoOne
  /\ UNCHANGED <<added, notified, waitList, waitListener, lateWaiters>>

\* Mutant of SetNotified: the notification leaves no trace for later waiters.
MutSetNotified(n) ==
  /\ WaiterGoto(n, "set", "notify")
  /\ UNCHANGED <<items, added, owner, notified, waitList, waitListener, lateWaiters>>

SetNotified(n) ==
  /\ WaiterGoto(n, "set", "notify")
  /\ notified' = TRUE
  /\ UNCHANGED <<items, added, owner, waitList, waitListener, lateWaiters>>

\* notifyFirst, which picks any listed coroutine, or notifyAll.
Notify(n) ==
  /\ waiter[n] = "notify"
  /\ \E S \in NotifiedWaiters(waitList) \cup {waitList} :
       waitList' = waitList \ S /\ waiter' = [WaitersWoken(S) EXCEPT ![n] = "idle"]
  /\ UNCHANGED <<items, added, owner, notified, waitListener, lateWaiters>>

-----------------------------------------------------------------------------

WaiterStep(w) ==
  Satisfied(w) \/ Unsatisfied(w) \/ AddWaiter(w) \/ ConditionOnNewItem(w)
    \/ NotifyNewWaiter(w) \/ Use(w)

NotifierStep(n) == Change(n) \/ SetNotified(n) \/ Notify(n)

ConditionNext ==
  \/ \E w \in Waiters :
       ConditionWait(w) \/ Lock(w) \/ WaiterStep(w) \/ Elapse(w) \/ TimeOut(w)
  \/ \E n \in Notifiers : BeginChange(n) \/ LockThread(n) \/ NotifierStep(n)

ConditionSpec == ConditionInit /\ [][ConditionNext]_conditionVars

\* The lock serves whoever asks for it (AllServed of AsyncLock), threads and
\* processors run, the clock advances.  Nobody has to wait or to notify.
ConditionFairness ==
  /\ \A w \in Waiters : SF_conditionVars(Lock(w)) /\ WF_conditionVars(WaiterStep(w))
                          /\ WF_conditionVars(Elapse(w)) /\ WF_conditionVars(TimeOut(w))
  /\ \A n \in Notifiers : SF_conditionVars(LockThread(n)) /\ WF_conditionVars(NotifierStep(n))

-----------------------------------------------------------------------------
(* Properties *)

\* How many of the listed waiters an item is there for.
ItemsOwed == IF items < Cardinality(waitList) THEN items ELSE Cardinality(waitList)

\* No notification is lost, not even one that comes after a waiter released
\* the lock and before it is listed: while waiters are listed and there are
\* items, as many clients are on their way to look or to wake one.
NotificationKept ==
  ItemsOwed <= Cardinality({w \in Waiters : waiter[w] \in {"act", "onLocked", "ready"}})
              + Cardinality({n \in Notifiers : waiter[n] \in {"set", "notify"}})
              + Cardinality({w \in Waiters : \/ waitListener[w] = "first"
                                             \/ waitListener[w] = "new" /\ notified})

\* Whoever comes back with the lock finds its condition satisfied and is the
\* only one inside: the wait returns "ready" only as the owner.
ReadyOwns == \A w \in Waiters : waiter[w] = "ready" => owner = w /\ items > 0

\* Whoever waits has something to wait for or somebody on the way to wake it, and comes
\* back with what it waited for (async/ConditionVariable.cpp:41-77, 107 and 135-143).
WakeupsKept == ReadyOwns /\ NotificationKept

\* A wait with a time point ends, whether or not anybody notifies.
TimedWaitEnds ==
  \A w \in Timed : waiter[w] = "act" ~> waiter[w] \in {"ready", "returned"}

\* Items and waiters do not stay together for ever.
ItemsTaken == items > 0 /\ waitList # {} ~> items = 0 \/ waitList = {}
=============================================================================
