----------------------------- MODULE ResourcePool -----------------------------
(***************************************************************************)
(* oatpp::provider::PoolTemplate: threads get() and coroutines getAsync()  *)
(* resources, at most Max of which exist.  A resource that is given back   *)
(* goes to the bench, where a cleanup thread invalidates it after its time *)
(* to live.  A blocked thread waits on m_condition, a blocked coroutine on *)
(* m_waitList.                                                             *)
(*                                                                         *)
(* m_lock is never held while another lock is taken, so a critical section *)
(* is one action; the notifications that follow it are actions of their    *)
(* own.  A client releases a resource it got sooner or later.              *)
(***************************************************************************)
EXTENDS Integers, Sequences, FiniteSets

CONSTANTS
  PoolThreads,     \* clients that call get()
  PoolCoroutines,  \* clients that call getAsync()
  MaxResources,    \* m_maxResources
  Gets,            \* bound: how often a client asks for a resource
  MayFail,         \* whether the provider's get may throw or report an error
  HasTimeout       \* whether m_timeout is not zero

Clients == PoolThreads \cup PoolCoroutines

VARIABLES
  counter,       \* m_counter
  bench,         \* m_bench: for each record whether it outlived m_maxResourceTTL
  running,       \* m_running
  finished,      \* m_finished
  blocked,       \* the threads inside m_condition.wait
  poolList,      \* m_waitList
  client,        \* what each client does next
  poolListener,  \* of each coroutine: the onNewItem call its insertion caused
  lateClients,   \* clients whose m_timeout has passed since they asked
  gets,          \* how often each client may still ask
  cleaner,       \* what the cleanup thread does next
  poolStopper,   \* what the thread in stop() does next
  unannounced    \* whether a slot became free and nobody was notified

poolVars == <<counter, bench, running, finished, blocked, poolList, client,
              poolListener, lateClients, gets, cleaner, poolStopper, unannounced>>

PoolTypeOK ==
  /\ counter \in 0 .. MaxResources
  /\ bench \in Seq(BOOLEAN) /\ Len(bench) <= MaxResources
  /\ running \in BOOLEAN /\ finished \in BOOLEAN
  /\ blocked \subseteq PoolThreads \cup {"stopper"}
  /\ poolList \subseteq PoolCoroutines
  /\ client \in [Clients -> {"idle", "try", "blocked", "add", "listed", "create",
                             "use", "notify", "notifyList"}]
  /\ poolListener \in [PoolCoroutines -> {"none", "new", "first", "all"}]
  /\ lateClients \subseteq Clients
  /\ gets \in [Clients -> 0 .. Gets]
  /\ cleaner \in {"loop", "scan", "clear", "notify", "exit"}
  /\ poolStopper \in {"idle", "notify", "notifyList", "wait", "blocked", "done"}
  /\ unannounced \in BOOLEAN

PoolInit ==
  /\ counter = 0 /\ bench = <<>> /\ running = TRUE /\ finished = FALSE
  /\ blocked = {} /\ poolList = {}
  /\ client = [c \in Clients |-> "idle"]
  /\ poolListener = [c \in PoolCoroutines |-> "none"]
  /\ lateClients = {}
  /\ gets = [c \in Clients |-> Gets]
  /\ cleaner = "loop" /\ poolStopper = "idle" /\ unannounced = FALSE

shared == <<counter, bench, running, finished, unannounced>>
others == <<cleaner, poolStopper>>

PoolGoto(c, from, to) == client[c] = from /\ client' = [client EXCEPT ![c] = to]

Ready == ~ running \/ bench # <<>> \/ counter < MaxResources

-----------------------------------------------------------------------------
(* Getting a resource *)

Ask(c) ==
  /\ gets[c] > 0
  /\ PoolGoto(c, "idle", "try")
  /\ gets' = [gets EXCEPT ![c] = @ - 1]
  /\ lateClients' = lateClients \ {c}
  /\ UNCHANGED <<shared, blocked, poolList, poolListener, others>>

\* The pool is stopped, or the time is up: the client gets nullptr.
GiveUp(c) ==
  /\ PoolGoto(c, "try", "idle")
  /\ unannounced' = (unannounced \/ (running /\ Ready))
  /\ UNCHANGED <<counter, bench, running, finished, blocked, poolList, poolListener,
                 lateClients, gets, others>>

\* The predicate holds: take a record off the bench, or a slot to create one.
TakeResource(c) ==
  /\ \/ /\ bench # <<>>
        /\ bench' = Tail(bench)
        /\ PoolGoto(c, "try", "use")
        /\ UNCHANGED counter
     \/ /\ bench = <<>>
        /\ counter' = counter + 1
        /\ PoolGoto(c, "try", "create")
        /\ UNCHANGED bench
  /\ UNCHANGED <<running, finished, unannounced, blocked, poolList, poolListener,
                 lateClients, gets, others>>

\* get(): the thread blocks until the predicate holds or the time is up.
GetThread(c) ==
  \/ Ready /\ running /\ TakeResource(c)
  \/ (~ running \/ (c \in lateClients /\ ~ Ready)) /\ GiveUp(c)
  \/ /\ ~ Ready /\ c \notin lateClients
     /\ PoolGoto(c, "try", "blocked")
     /\ blocked' = blocked \cup {c}
     /\ UNCHANGED <<shared, poolList, poolListener, lateClients, gets, others>>

\* GetCoroutine::act: the time is looked at before the pool.
GetCoroutine(c) ==
  \/ c \notin lateClients /\ Ready /\ running /\ TakeResource(c)
  \/ (~ running \/ c \in lateClients) /\ GiveUp(c)
  \/ /\ ~ Ready /\ c \notin lateClients
     /\ PoolGoto(c, "try", "add")
     /\ UNCHANGED <<shared, blocked, poolList, poolListener, lateClients, gets, others>>

\* The processor inserts the coroutine and calls onNewItem.
PoolAddToList(c) ==
  /\ poolListener[c] = "none"
  /\ PoolGoto(c, "add", "listed")
  /\ poolList' = poolList \cup {c}
  /\ poolListener' = [poolListener EXCEPT ![c] = "new"]
  /\ UNCHANGED <<shared, blocked, lateClients, gets, others>>

PoolOnNewItem(c) ==
  /\ poolListener[c] = "new"
  /\ poolListener' = [poolListener EXCEPT ![c] = IF ~ running THEN "all"
                                                 ELSE IF Ready THEN "first"
                                                 ELSE "none"]
  /\ UNCHANGED <<shared, blocked, poolList, client, lateClients, gets, others>>

-----------------------------------------------------------------------------
(* Waking *)

PoolNotified(S) == IF S = {} THEN {{}} ELSE {{w} : w \in S}

\* Listed coroutines go back to their processor and run act() again.
WakeCoroutines(woken) ==
  /\ poolList' = poolList \ woken
  /\ client' = [c \in Clients |-> IF c \in woken THEN "try" ELSE client[c]]

PoolNotifyNew(c) ==
  /\ poolListener[c] \in {"first", "all"}
  /\ poolListener' = [poolListener EXCEPT ![c] = "none"]
  /\ \E woken \in IF poolListener[c] = "all" THEN {poolList} ELSE PoolNotified(poolList) :
       WakeCoroutines(woken)
  /\ UNCHANGED <<shared, blocked, lateClients, gets, others>>

\* Threads leave m_condition.wait and evaluate their predicate again.
Resume(p, woken) == [c \in Clients |-> IF c \in woken THEN "try" ELSE p[c]]
ResumeStopper(woken) ==
  IF "stopper" \in woken THEN "wait" ELSE poolStopper

-----------------------------------------------------------------------------
(* Creating, releasing *)

Created(c) ==
  /\ PoolGoto(c, "create", "use")
  /\ UNCHANGED <<shared, blocked, poolList, poolListener, lateClients, gets, others>>

\* Mutant: a failed creation keeps its slot.
MutCreateFailed(c) ==
  /\ MayFail
  /\ PoolGoto(c, "create", "idle")
  /\ UNCHANGED <<shared, blocked, poolList, poolListener, lateClients, gets, others>>

\* The provider failed: the slot is given back.
CreateFailed(c) ==
  /\ MayFail
  /\ PoolGoto(c, "create", "idle")
  /\ counter' = counter - 1
  /\ unannounced' = TRUE
  /\ UNCHANGED <<bench, running, finished, blocked, poolList, poolListener, lateClients,
                 gets, others>>

\* release(), called when the last reference to the proxy goes: canReuse is
\* FALSE when the client invalidated the resource.
Release(c) ==
  /\ \/ /\ ~ running
        /\ PoolGoto(c, "use", "idle")
        /\ counter' = counter - 1
        /\ UNCHANGED bench
     \/ /\ running
        /\ PoolGoto(c, "use", "notify")
        /\ \/ bench' = Append(bench, FALSE) /\ UNCHANGED counter
           \/ counter' = counter - 1 /\ UNCHANGED bench
  /\ UNCHANGED <<running, finished, unannounced, blocked, poolList, poolListener,
                 lateClients, gets, others>>

\* m_condition.notify_one()
NotifyOne(c) ==
  /\ client[c] = "notify"
  /\ \E woken \in PoolNotified(blocked) :
       /\ blocked' = blocked \ woken
       /\ client' = [Resume(client, woken) EXCEPT ![c] = "notifyList"]
       /\ poolStopper' = ResumeStopper(woken)
  /\ UNCHANGED <<shared, poolList, poolListener, lateClients, gets, cleaner>>

\* Mutant: the wait list is forgotten.
MutNotifyFirst(c) ==
  /\ PoolGoto(c, "notifyList", "idle")
  /\ UNCHANGED <<shared, blocked, poolList, poolListener, lateClients, gets, others>>

\* m_waitList.notifyFirst()
NotifyFirst(c) ==
  /\ client[c] = "notifyList"
  /\ \E woken \in PoolNotified(poolList) :
       /\ poolList' = poolList \ woken
       /\ client' = [Resume(client, woken) EXCEPT ![c] = "idle"]
  /\ UNCHANGED <<shared, blocked, poolListener, lateClients, gets, others>>

-----------------------------------------------------------------------------
(* Time *)

\* m_timeout passes for a client that asked: a blocked thread leaves
\* wait_for, a listed coroutine is taken off the list by its processor.
TimeUp(c) ==
  /\ HasTimeout
  /\ c \notin lateClients /\ client[c] \in {"try", "blocked", "add", "listed"}
  /\ lateClients' = lateClients \cup {c}
  /\ blocked' = blocked \ {c}
  /\ poolList' = poolList \ {c}
  /\ client' = [client EXCEPT ![c] = IF @ \in {"blocked", "listed"} THEN "try" ELSE @]
  /\ UNCHANGED <<shared, poolListener, gets, others>>

\* A coroutine that is late before it is listed is timed out right after.
TimeUpListed(c) ==
  /\ c \in lateClients \cap poolList
  /\ poolList' = poolList \ {c}
  /\ PoolGoto(c, "listed", "try")
  /\ UNCHANGED <<shared, blocked, poolListener, lateClients, gets, others>>

Expire(i) ==
  /\ ~ bench[i]
  /\ bench' = [bench EXCEPT ![i] = TRUE]
  /\ UNCHANGED <<counter, running, finished, unannounced, blocked, poolList, client,
                 poolListener, lateClients, gets, others>>

-----------------------------------------------------------------------------
(* cleanupTask *)

CleanerLoop ==
  /\ cleaner = "loop"
  /\ cleaner' = IF running THEN "scan" ELSE "clear"
  /\ UNCHANGED <<shared, blocked, poolList, client, poolListener, lateClients, gets,
                 poolStopper>>

\* Expired records are invalidated and leave the bench; as many remain as had
\* not expired.
CleanerScan ==
  /\ cleaner = "scan"
  /\ bench' = [i \in 1 .. Cardinality({k \in DOMAIN bench : ~ bench[k]}) |-> FALSE]
  /\ counter' = counter - (Len(bench) - Len(bench'))
  /\ cleaner' = "loop"
  /\ UNCHANGED <<running, finished, unannounced, blocked, poolList, client, poolListener,
                 lateClients, gets, poolStopper>>

\* "invalidate all pooled resources"
CleanerClear ==
  /\ cleaner = "clear"
  /\ counter' = counter - Len(bench)
  /\ bench' = <<>>
  /\ finished' = TRUE
  /\ cleaner' = "notify"
  /\ UNCHANGED <<running, unannounced, blocked, poolList, client, poolListener,
                 lateClients, gets, poolStopper>>

CleanerNotify ==
  /\ cleaner = "notify"
  /\ cleaner' = "exit"
  /\ blocked' = {}
  /\ client' = Resume(client, blocked)
  /\ poolStopper' = ResumeStopper(blocked)
  /\ UNCHANGED <<shared, poolList, poolListener, lateClients, gets>>

-----------------------------------------------------------------------------
(* stop(); a second call returns at once and changes nothing. *)

PoolStop ==
  /\ poolStopper = "idle"
  /\ poolStopper' = "notify"
  /\ running' = FALSE
  /\ counter' = counter - Len(bench)
  /\ bench' = <<>>
  /\ UNCHANGED <<finished, unannounced, blocked, poolList, client, poolListener,
                 lateClients, gets, cleaner>>

StopNotify ==
  /\ poolStopper = "notify"
  /\ poolStopper' = "notifyList"
  /\ blocked' = {}
  /\ client' = Resume(client, blocked)
  /\ UNCHANGED <<shared, poolList, poolListener, lateClients, gets, cleaner>>

StopNotifyList ==
  /\ poolStopper = "notifyList"
  /\ poolStopper' = "wait"
  /\ WakeCoroutines(poolList)
  /\ UNCHANGED <<shared, blocked, poolListener, lateClients, gets, cleaner>>

StopWait ==
  /\ poolStopper = "wait"
  /\ poolStopper' = IF finished THEN "done" ELSE "blocked"
  /\ blocked' = IF finished THEN blocked ELSE blocked \cup {"stopper"}
  /\ UNCHANGED <<shared, poolList, client, poolListener, lateClients, gets, cleaner>>

-----------------------------------------------------------------------------

Client(c) ==
  \/ c \in PoolThreads /\ GetThread(c)
  \/ c \in PoolCoroutines /\ (GetCoroutine(c) \/ PoolAddToList(c))
  \/ Created(c) \/ CreateFailed(c) \/ Release(c) \/ NotifyOne(c) \/ NotifyFirst(c)

Listener(c) == PoolOnNewItem(c) \/ PoolNotifyNew(c)
Cleaner == CleanerLoop \/ CleanerScan \/ CleanerClear \/ CleanerNotify
Stopper == StopNotify \/ StopNotifyList \/ StopWait

PoolNext ==
  \/ \E c \in Clients : Ask(c) \/ Client(c) \/ TimeUp(c) \/ TimeUpListed(c)
  \/ \E c \in PoolCoroutines : Listener(c)
  \/ \E i \in DOMAIN bench : Expire(i)
  \/ Cleaner \/ PoolStop \/ Stopper

PoolSpec == PoolInit /\ [][PoolNext]_poolVars

\* Every thread runs and every client releases what it got.  Nobody has to
\* ask, to stop the pool, or to be late.
PoolFairness ==
  /\ \A c \in Clients : WF_poolVars(Client(c)) /\ WF_poolVars(TimeUpListed(c))
  /\ \A c \in PoolCoroutines : WF_poolVars(Listener(c))
  /\ WF_poolVars(Cleaner) /\ WF_poolVars(Stopper)

-----------------------------------------------------------------------------
(* Properties *)

Holding == {c \in Clients : client[c] \in {"create", "use"}}

\* getCounter() counts the resources "both acquired and available", through
\* failures, expiry and stop.
CounterExact == counter = Cardinality(Holding) + Len(bench)

\* Free slots and pooled resources that nobody has taken yet.
FreeSlots == MaxResources - Cardinality(Holding)

\* What could be handed out while S waits: one slot for each, if so many are
\* free.
SlotsOwed(S) == IF FreeSlots < Cardinality(S) THEN FreeSlots ELSE Cardinality(S)

\* While threads are blocked in get(), every slot they could have is on its
\* way to one: a notification is pending or a woken thread is about to take it.
FreeSlotOffered ==
  running /\ ~ unannounced =>
     SlotsOwed(blocked \cap PoolThreads)
       <= Cardinality({c \in PoolThreads : client[c] = "try"})
            + Cardinality({c \in Clients : client[c] = "notify"})

\* The same for coroutines on the wait list, whose insertion may come after
\* the release that should have woken them.
FreeSlotOfferedAsync ==
  running /\ ~ unannounced =>
     SlotsOwed(poolList)
       <= Cardinality({c \in PoolCoroutines : client[c] = "try"})
            + Cardinality({c \in Clients : client[c] \in {"notify", "notifyList"}})
            + Cardinality({c \in PoolCoroutines : poolListener[c] \in {"new", "first"}})

\* Both kinds of waiters are served from the same slots.
SlotsOffered == FreeSlotOffered /\ FreeSlotOfferedAsync

\* Every client that asks gets an answer, a resource or nullptr.
PoolAnswered ==
  [](~ unannounced) =>
    \A c \in Clients :
      client[c] \in {"try", "blocked", "add", "listed"} ~> client[c] \in {"use", "idle"}

\* stop() returns, and then the pool keeps nothing.
PoolStopReturns == poolStopper = "notify" ~> poolStopper = "done"
EmptyAfterStop == poolStopper = "done" => bench = <<>> /\ counter = Cardinality(Holding)

\* What the pool promises to those who share it.
PoolKeepsCount == CounterExact /\ SlotsOffered /\ EmptyAfterStop
=============================================================================
