---------------------------- MODULE HandoverProofs -----------------------------
(***************************************************************************)
(* Proofs about what some hand over and others wait for.  ResourcePool,    *)
(* for any number of clients and any size of the pool: the counter is      *)
(* exact, a stopped pool keeps nothing, and a free slot is on its way to a *)
(* client that waits.  ConditionVariable, for any number of waiters,       *)
(* notifiers and items: no wakeup is lost.  FIFOBuffer, for every size N,  *)
(* every set of bytes, and calls with any counts and any data: it is a     *)
(* bounded queue.                                                          *)
(***************************************************************************)
EXTENDS ResourcePool, ConditionVariable, FIFOBuffer, FiniteSetTheorems,
        SequenceTheorems, TLAPS

\* What the theorems assume of the constants.
PoolConstants ==
  /\ IsFiniteSet(PoolThreads) /\ IsFiniteSet(PoolCoroutines)
  /\ PoolThreads \cap PoolCoroutines = {} /\ "stopper" \notin Clients
  /\ MaxResources \in Nat /\ Gets \in Nat
  /\ MayFail \in BOOLEAN /\ HasTimeout \in BOOLEAN

Steps == {"idle", "try", "blocked", "add", "listed", "create", "use",
          "notify", "notifyList"}

\* How many of the clients in S are at one of the points L, according to f.
CountIn(f, S, L) == Cardinality({c \in S : f[c] \in L})

Held      == CountIn(client, Clients, {"create", "use"})
TryingT   == CountIn(client, PoolThreads, {"try"})
TryingC   == CountIn(client, PoolCoroutines, {"try"})
Notifying == CountIn(client, Clients, {"notify"})
Informing == CountIn(client, Clients, {"notify", "notifyList"})
Listening == CountIn(poolListener, PoolCoroutines, {"new", "first"})

\* Who is inside a wait is at that point of its code.
Places ==
  /\ \A t \in blocked \cap PoolThreads : client[t] = "blocked"
  /\ \A c \in poolList : client[c] = "listed"
  /\ "stopper" \in blocked => poolStopper = "blocked"

\* What a stopped pool has, and who knows that it is stopped.
Stopping ==
  /\ poolStopper # "idle" => ~ running
  /\ cleaner \in {"clear", "notify", "exit"} => ~ running
  /\ ~ running => bench = <<>>
  /\ \A c \in PoolCoroutines : poolListener[c] = "all" => ~ running

Exact == counter = Held + Len(bench)

\* While a thread is blocked every free slot has been announced: to a thread
\* that will look, or by a notification that is still to come.
ThreadsOffered ==
  running /\ ~ unannounced /\ blocked \cap PoolThreads # {} =>
    MaxResources - Held <= TryingT + Notifying

\* The same for the wait list, or else every coroutine on it has a call of
\* onNewItem still to come, its own or that of one it was woken for.
CoroutinesOffered ==
  running /\ ~ unannounced =>
    \/ MaxResources - Held <= TryingC + Informing + Listening
    \/ Cardinality(poolList) <= Listening

IInv == /\ PoolTypeOK
        /\ Places
        /\ Stopping
        /\ Exact
        /\ ThreadsOffered
        /\ CoroutinesOffered

-----------------------------------------------------------------------------
(* Counting. *)

\* From f to g the number at L changes by what c does.
CountFollows(f, g, S, L, c) ==
  /\ CountIn(f, S, L) \in Nat
  /\ CountIn(g, S, L)
       = CountIn(f, S, L) + (IF c \in S /\ g[c] \in L THEN 1 ELSE 0)
           - (IF c \in S /\ f[c] \in L THEN 1 ELSE 0)

\* When one client moves, the number at any points changes by that client.
LEMMA CountChange ==
  ASSUME NEW S, IsFiniteSet(S), NEW f, NEW g, NEW c, NEW L,
         \A d \in S \ {c} : g[d] = f[d]
  PROVE  CountFollows(f, g, S, L, c)
<1> DEFINE A == {d \in S : f[d] \in L}
           B == {d \in S : g[d] \in L}
<1>1. IsFiniteSet(A) /\ Cardinality(A) \in Nat
  BY FS_Subset, FS_CardinalityType
<1>2. /\ Cardinality(A \cup {c})
           = IF c \in A THEN Cardinality(A) ELSE Cardinality(A) + 1
      /\ Cardinality(A \ {c})
           = IF c \in A THEN Cardinality(A) - 1 ELSE Cardinality(A)
  <2> HIDE DEF A
  <2> QED
    BY <1>1, FS_AddElement, FS_RemoveElement
<1>3. c \in A <=> c \in S /\ f[c] \in L
  OBVIOUS
<1>4. CASE c \in S /\ g[c] \in L
  <2>1. B = A \cup {c}
    BY <1>4
  <2> HIDE DEF A, B
  <2>2. Cardinality(B) = Cardinality(A \cup {c})
    BY <2>1
  <2>3. Cardinality(B) = Cardinality(A) + 1 - (IF c \in A THEN 1 ELSE 0)
    BY <1>1, <1>2, <2>2
  <2> QED
    BY <1>1, <1>3, <1>4, <2>3 DEF A, B, CountIn, CountFollows
<1>5. CASE ~ (c \in S /\ g[c] \in L)
  <2>1. B = A \ {c}
    BY <1>5
  <2> HIDE DEF A, B
  <2>2. Cardinality(B) = Cardinality(A \ {c})
    BY <2>1
  <2>3. Cardinality(B) = Cardinality(A) - (IF c \in A THEN 1 ELSE 0)
    BY <1>1, <1>2, <2>2
  <2> QED
    BY <1>1, <1>3, <1>5, <2>3 DEF A, B, CountIn, CountFollows
<1> QED
  BY <1>4, <1>5

\* The five counts over the clients' points, as functions of these.
AllCounts(p) ==
  /\ CountIn(p, Clients, {"create", "use"}) \in Nat
  /\ CountIn(p, PoolThreads, {"try"}) \in Nat
  /\ CountIn(p, PoolCoroutines, {"try"}) \in Nat
  /\ CountIn(p, Clients, {"notify"}) \in Nat
  /\ CountIn(p, Clients, {"notify", "notifyList"}) \in Nat

\* How they change from p to q when client c goes to the point to.
CountsMove(p, q, c, to) ==
  /\ CountIn(q, Clients, {"create", "use"})
       = CountIn(p, Clients, {"create", "use"})
           + (IF to \in {"create", "use"} THEN 1 ELSE 0)
           - (IF p[c] \in {"create", "use"} THEN 1 ELSE 0)
  /\ CountIn(q, PoolThreads, {"try"})
       = CountIn(p, PoolThreads, {"try"})
           + (IF c \in PoolThreads /\ to = "try" THEN 1 ELSE 0)
           - (IF c \in PoolThreads /\ p[c] = "try" THEN 1 ELSE 0)
  /\ CountIn(q, PoolCoroutines, {"try"})
       = CountIn(p, PoolCoroutines, {"try"})
           + (IF c \in PoolCoroutines /\ to = "try" THEN 1 ELSE 0)
           - (IF c \in PoolCoroutines /\ p[c] = "try" THEN 1 ELSE 0)
  /\ CountIn(q, Clients, {"notify"})
       = CountIn(p, Clients, {"notify"})
           + (IF to = "notify" THEN 1 ELSE 0)
           - (IF p[c] = "notify" THEN 1 ELSE 0)
  /\ CountIn(q, Clients, {"notify", "notifyList"})
       = CountIn(p, Clients, {"notify", "notifyList"})
           + (IF to \in {"notify", "notifyList"} THEN 1 ELSE 0)
           - (IF p[c] \in {"notify", "notifyList"} THEN 1 ELSE 0)

\* How many clients are at each step, and what a move from one to another changes.
LEMMA ClientMoves ==
  ASSUME PoolConstants, NEW p \in [Clients -> Steps], NEW c \in Clients,
         NEW to \in Steps, NEW q, q = [p EXCEPT ![c] = to]
  PROVE  AllCounts(p) /\ CountsMove(p, q, c, to)
<1>1. IsFiniteSet(PoolThreads) /\ IsFiniteSet(PoolCoroutines)
  BY DEF PoolConstants
<1>2. IsFiniteSet(Clients)
  BY <1>1, FS_Union DEF Clients
<1>3. PoolThreads \in SUBSET Clients /\ PoolCoroutines \in SUBSET Clients
      /\ Clients \in SUBSET Clients
  BY DEF Clients
<1> HIDE DEF Clients
<1>4. q[c] = to /\ \A d \in Clients \ {c} : q[d] = p[d]
  OBVIOUS
<1>5. \A S \in {Clients, PoolThreads, PoolCoroutines} : \A L : CountFollows(p, q, S, L, c)
  <2>1. SUFFICES ASSUME NEW S \in {Clients, PoolThreads, PoolCoroutines}, NEW L
                 PROVE  CountFollows(p, q, S, L, c)
    OBVIOUS
  <2>2. IsFiniteSet(S)
    BY <1>1, <1>2
  <2>3. \A d \in S \ {c} : q[d] = p[d]
    BY <1>3, <1>4
  <2> QED
    BY <2>2, <2>3, CountChange
<1> HIDE DEF CountIn
<1>6. /\ CountFollows(p, q, Clients, {"create", "use"}, c)
      /\ CountFollows(p, q, PoolThreads, {"try"}, c)
      /\ CountFollows(p, q, PoolCoroutines, {"try"}, c)
      /\ CountFollows(p, q, Clients, {"notify"}, c)
      /\ CountFollows(p, q, Clients, {"notify", "notifyList"}, c)
  BY <1>5
<1>7. AllCounts(p) /\ CountsMove(p, q, c, to)
  BY <1>4, <1>6 DEF AllCounts, CountsMove, CountFollows
<1> QED
  BY <1>7

-----------------------------------------------------------------------------
(* What the counts say of the variables. *)

\* Counts are numbers.
LEMMA CountIsNat ==
  ASSUME NEW S, IsFiniteSet(S), NEW f, NEW L
  PROVE  CountIn(f, S, L) \in Nat
BY FS_Subset, FS_CardinalityType DEF CountIn

\* The numbers that the three counting parts of the invariant speak of, now
\* and after a step.
LEMMA CountsAreNumbers ==
  ASSUME PoolConstants
  PROVE  /\ Held \in Nat /\ TryingT \in Nat /\ TryingC \in Nat
         /\ Notifying \in Nat /\ Informing \in Nat /\ Listening \in Nat
         /\ Held' \in Nat /\ TryingT' \in Nat /\ TryingC' \in Nat
         /\ Notifying' \in Nat /\ Informing' \in Nat /\ Listening' \in Nat
         /\ MaxResources \in Nat
<1>1. IsFiniteSet(PoolThreads) /\ IsFiniteSet(PoolCoroutines) /\ IsFiniteSet(Clients)
  BY FS_Union DEF PoolConstants, Clients
<1>2. /\ Held \in Nat /\ TryingT \in Nat /\ TryingC \in Nat
      /\ Notifying \in Nat /\ Informing \in Nat /\ Listening \in Nat
  BY <1>1, CountIsNat DEF Held, TryingT, TryingC, Notifying, Informing, Listening
<1>3. /\ Held' \in Nat /\ TryingT' \in Nat /\ TryingC' \in Nat
      /\ Notifying' \in Nat /\ Informing' \in Nat /\ Listening' \in Nat
  BY <1>1, CountIsNat DEF Held, TryingT, TryingC, Notifying, Informing, Listening
<1> QED
  BY <1>2, <1>3 DEF PoolConstants

\* What the variables count by themselves.
LEMMA SizesAreNumbers ==
  ASSUME PoolConstants, PoolTypeOK
  PROVE  /\ IsFiniteSet(poolList) /\ Cardinality(poolList) \in Nat
         /\ counter \in Nat /\ Len(bench) \in Nat
<1>1. IsFiniteSet(poolList) /\ Cardinality(poolList) \in Nat
  BY FS_Subset, FS_CardinalityType DEF PoolTypeOK, PoolConstants
<1> QED
  BY <1>1 DEF PoolTypeOK, PoolConstants

\* Nothing is free when a client that looks finds the pool not Ready.
LEMMA NothingFree ==
  ASSUME PoolConstants, PoolTypeOK, Exact, ~ Ready
  PROVE  running /\ MaxResources = Held
<1>1. running /\ bench = <<>> /\ ~ counter < MaxResources
  BY DEF Ready
<1>2. Len(bench) = 0 /\ counter \in 0 .. MaxResources
  BY <1>1 DEF PoolTypeOK
<1>3. Held \in Nat
  BY CountsAreNumbers
<1> QED
  BY <1>1, <1>2, <1>3 DEF Exact, PoolConstants

-----------------------------------------------------------------------------
(* Getting a resource. *)

\* A client asks for a resource.
LEMMA AskKeeps ==
  ASSUME PoolConstants, IInv, NEW c \in Clients, Ask(c)
  PROVE  IInv'
<1>1. client[c] = "idle" /\ client' = [client EXCEPT ![c] = "try"] /\ client \in [Clients -> Steps]
  BY DEF Ask, PoolGoto, IInv, PoolTypeOK, Steps
<1>2. CountsMove(client, client', c, "try") /\ AllCounts(client)
  BY <1>1, ClientMoves DEF Steps
<1>3. /\ UNCHANGED <<counter, bench, running, unannounced>>
      /\ UNCHANGED <<finished, blocked, poolList, poolListener, cleaner, poolStopper>>
  BY DEF Ask, shared, others
<1>4. PoolTypeOK'
  <2>1. gets' \in [Clients -> 0 .. Gets] /\ lateClients' \subseteq Clients
    BY DEF Ask, IInv, PoolTypeOK, PoolConstants
  <2> QED
    BY <1>1, <1>3, <2>1 DEF IInv, PoolTypeOK
<1>5. Places'
  BY <1>1, <1>3 DEF IInv, Places, PoolTypeOK, Clients
<1>6. Stopping'
  BY <1>3 DEF IInv, Stopping
<1>7. Exact' /\ ThreadsOffered' /\ CoroutinesOffered'
  <2>1. Listening \in Nat /\ Listening' = Listening /\ Len(bench') = Len(bench)
        /\ Cardinality(poolList) \in Nat /\ Cardinality(poolList') = Cardinality(poolList)
    BY <1>3, CountsAreNumbers, SizesAreNumbers DEF IInv, Listening
  <2> HIDE DEF CountIn, Listening
  <2> QED
    BY <1>1, <1>2, <1>3, <2>1
       DEF IInv, Exact, ThreadsOffered, CoroutinesOffered, CountsMove, AllCounts,
           Held, TryingT, TryingC, Notifying, Informing, PoolConstants
<1> QED
  BY <1>4, <1>5, <1>6, <1>7 DEF IInv

\* It takes an idle one, or a slot for a new one.
LEMMA TakeKeeps ==
  ASSUME PoolConstants, IInv, NEW c \in Clients, TakeResource(c), Ready, running
  PROVE  IInv'
<1>1. PICK to \in {"use", "create"} :
        /\ client[c] = "try" /\ client' = [client EXCEPT ![c] = to]
        /\ \/ to = "use" /\ bench # <<>> /\ bench' = Tail(bench) /\ counter' = counter
           \/ to = "create" /\ bench = <<>> /\ bench' = bench /\ counter' = counter + 1
  BY DEF TakeResource, PoolGoto
<1>2. CountsMove(client, client', c, to) /\ AllCounts(client)
  BY <1>1, ClientMoves DEF Steps, IInv, PoolTypeOK
<1>3. /\ UNCHANGED <<running, finished, unannounced, blocked, poolList, poolListener>>
      /\ UNCHANGED <<lateClients, gets, cleaner, poolStopper>>
  BY DEF TakeResource, others
<1>4. /\ bench' \in Seq(BOOLEAN) /\ counter' \in 0 .. MaxResources
      /\ counter' - Len(bench') = counter - Len(bench) + 1
      /\ Len(bench') \in Nat /\ Len(bench') <= Len(bench)
  <2>1. bench \in Seq(BOOLEAN) /\ Len(bench) \in Nat /\ counter \in 0 .. MaxResources /\ MaxResources \in Nat
    BY DEF IInv, PoolTypeOK, PoolConstants
  <2>2. CASE bench # <<>>
    <3>1. Tail(bench) \in Seq(BOOLEAN) /\ Len(Tail(bench)) = Len(bench) - 1
          /\ Len(bench) > 0
      BY <2>1, <2>2, EmptySeq
    <3> QED
      BY <1>1, <2>1, <2>2, <3>1
  <2>3. CASE bench = <<>>
    BY <1>1, <2>1, <2>3 DEF Ready
  <2> QED
    BY <2>2, <2>3
<1>5. PoolTypeOK'
  BY <1>1, <1>3, <1>4 DEF IInv, PoolTypeOK, PoolConstants
<1>6. Places' /\ Stopping'
  BY <1>1, <1>3 DEF IInv, Places, Stopping, PoolTypeOK, Clients
<1>7. Exact' /\ ThreadsOffered' /\ CoroutinesOffered'
  <2>1. Listening \in Nat /\ Listening' = Listening
        /\ Cardinality(poolList) \in Nat /\ Cardinality(poolList') = Cardinality(poolList)
        /\ counter \in Nat /\ Len(bench) \in Nat /\ counter' \in Int
        /\ (c \in PoolThreads \/ c \in PoolCoroutines)
    BY <1>3, <1>4, CountsAreNumbers, SizesAreNumbers DEF IInv, Listening, Clients
  <2>2. Held' = Held + 1 /\ Notifying' = Notifying /\ Informing' = Informing
    BY <1>1, <1>2 DEF CountsMove, AllCounts, Held, Notifying, Informing
  <2>3. PICK t \in {0, 1}, k \in {0, 1} :
           TryingT' = TryingT - t /\ TryingC' = TryingC - k
    <3>1. TryingT' \in {TryingT, TryingT - 1} /\ TryingC' \in {TryingC, TryingC - 1}
      BY <1>1, <1>2 DEF CountsMove, AllCounts, TryingT, TryingC
    <3> QED
      BY <3>1, CountsAreNumbers
  <2>4. /\ Held \in Nat /\ TryingT \in Nat /\ TryingC \in Nat /\ MaxResources \in Nat
        /\ Notifying \in Nat /\ Informing \in Nat
    BY CountsAreNumbers
  <2> HIDE DEF Held, TryingT, TryingC, Notifying, Informing, Listening
  <2>5. Exact'
    BY <1>4, <2>1, <2>2, <2>4 DEF IInv, Exact
  <2>6. (running' <=> running) /\ (unannounced' <=> unannounced)
        /\ blocked' = blocked /\ poolList' = poolList
    BY <1>3
  <2>7. ThreadsOffered /\ CoroutinesOffered
    BY DEF IInv
  <2>8. ThreadsOffered'
    BY <2>2, <2>3, <2>4, <2>6, <2>7 DEF ThreadsOffered
  <2>9. CoroutinesOffered'
    BY <2>1, <2>2, <2>3, <2>4, <2>6, <2>7 DEF CoroutinesOffered
  <2> QED
    BY <2>5, <2>8, <2>9
<1> QED
  BY <1>5, <1>6, <1>7 DEF IInv

\* It finds the pool stopped, or its time is up.
LEMMA GiveUpKeeps ==
  ASSUME PoolConstants, IInv, NEW c \in Clients, GiveUp(c)
  PROVE  IInv'
<1>1. client[c] = "try" /\ client' = [client EXCEPT ![c] = "idle"]
  BY DEF GiveUp, PoolGoto
<1>2. CountsMove(client, client', c, "idle") /\ AllCounts(client)
  BY <1>1, ClientMoves DEF Steps, IInv, PoolTypeOK
<1>3. /\ UNCHANGED <<counter, bench, running, finished, blocked, poolList, poolListener>>
      /\ UNCHANGED <<lateClients, gets, cleaner, poolStopper>>
      /\ unannounced' = (unannounced \/ (running /\ Ready))
  BY DEF GiveUp, others
<1>4. PoolTypeOK'
  BY <1>1, <1>3 DEF IInv, PoolTypeOK
<1>5. Places' /\ Stopping'
  BY <1>1, <1>3 DEF IInv, Places, Stopping, PoolTypeOK, Clients
<1>6. running /\ ~ unannounced' => MaxResources = Held
  BY <1>3, NothingFree DEF IInv
<1>7. Exact' /\ ThreadsOffered' /\ CoroutinesOffered'
  <2>1. Held' = Held
    BY <1>1, <1>2 DEF CountsMove, AllCounts, Held
  <2>2. Exact'
    BY <1>3, <2>1 DEF IInv, Exact
  <2> HIDE DEF Held, TryingT, TryingC, Notifying, Informing, Listening
  <2>3. running' /\ ~ unannounced' => MaxResources - Held' = 0
    BY <1>3, <1>6, <2>1, CountsAreNumbers
  <2>4. ThreadsOffered' /\ CoroutinesOffered'
    BY <2>3, CountsAreNumbers DEF ThreadsOffered, CoroutinesOffered
  <2> QED
    BY <2>2, <2>4
<1> QED
  BY <1>4, <1>5, <1>7 DEF IInv

\* It waits for a slot.
LEMMA WaitKeeps ==
  ASSUME PoolConstants, IInv, NEW c \in Clients, NEW to, ~ Ready,
         \/ to = "blocked" /\ blocked' = blocked \cup {c} /\ c \in PoolThreads
         \/ to = "add" /\ blocked' = blocked,
         PoolGoto(c, "try", to), UNCHANGED <<shared, poolList, poolListener,
                                             lateClients, gets, others>>
  PROVE  IInv'
<1>1. client[c] = "try" /\ client' = [client EXCEPT ![c] = to] /\ to \in {"blocked", "add"}
      /\ to \in Steps
  BY DEF PoolGoto, Steps
<1>2. CountsMove(client, client', c, to) /\ AllCounts(client)
  BY <1>1, ClientMoves DEF Steps, IInv, PoolTypeOK
<1>3. /\ UNCHANGED <<counter, bench, running, unannounced>>
      /\ UNCHANGED <<finished, poolList, poolListener, lateClients, gets, cleaner,
                     poolStopper>>
  BY DEF shared, others
<1>4. PoolTypeOK'
  BY <1>1, <1>3 DEF IInv, PoolTypeOK
<1>5. Places'
  <2>1. "stopper" \notin Clients
    BY DEF PoolConstants
  <2> QED
    BY <1>1, <1>3, <2>1 DEF IInv, Places, PoolTypeOK, Clients
<1>6. Stopping'
  BY <1>3 DEF IInv, Stopping
<1>7. Exact' /\ ThreadsOffered' /\ CoroutinesOffered'
  <2>1. Held' = Held
    BY <1>1, <1>2 DEF CountsMove, AllCounts, Held
  <2>2. Exact'
    BY <1>3, <2>1 DEF IInv, Exact
  <2>3. MaxResources = Held
    BY NothingFree DEF IInv
  <2> HIDE DEF Held, TryingT, TryingC, Notifying, Informing, Listening
  <2>4. MaxResources - Held' = 0
    BY <2>1, <2>3, CountsAreNumbers
  <2>5. ThreadsOffered' /\ CoroutinesOffered'
    BY <2>4, CountsAreNumbers DEF ThreadsOffered, CoroutinesOffered
  <2> QED
    BY <2>2, <2>5
<1> QED
  BY <1>4, <1>5, <1>6, <1>7 DEF IInv

\* A thread in get().
LEMMA GetThreadKeeps ==
  ASSUME PoolConstants, IInv, NEW c \in PoolThreads, GetThread(c)
  PROVE  IInv'
<1>1. c \in Clients
  BY DEF Clients
<1>2. CASE Ready /\ running /\ TakeResource(c)
  BY <1>1, <1>2, TakeKeeps
<1>3. CASE GiveUp(c)
  BY <1>1, <1>3, GiveUpKeeps
<1>4. CASE /\ ~ Ready /\ PoolGoto(c, "try", "blocked")
           /\ blocked' = blocked \cup {c}
           /\ UNCHANGED <<shared, poolList, poolListener, lateClients, gets, others>>
  BY <1>1, <1>4, WaitKeeps
<1> QED
  BY <1>2, <1>3, <1>4 DEF GetThread

\* A coroutine in getAsync().
LEMMA GetCoroutineKeeps ==
  ASSUME PoolConstants, IInv, NEW c \in PoolCoroutines, GetCoroutine(c)
  PROVE  IInv'
<1>1. c \in Clients
  BY DEF Clients
<1>2. CASE Ready /\ running /\ TakeResource(c)
  BY <1>1, <1>2, TakeKeeps
<1>3. CASE GiveUp(c)
  BY <1>1, <1>3, GiveUpKeeps
<1>4. CASE /\ ~ Ready /\ PoolGoto(c, "try", "add")
           /\ UNCHANGED <<shared, blocked, poolList, poolListener, lateClients, gets,
                          others>>
  <2>1. blocked' = blocked /\ UNCHANGED <<shared, poolList, poolListener, lateClients,
                                          gets, others>>
    BY <1>4
  <2> QED
    BY <1>1, <1>4, <2>1, WaitKeeps
<1> QED
  BY <1>2, <1>3, <1>4 DEF GetCoroutine

\* How the number of pending onNewItem calls changes with one of them.
LEMMA ListenerMoves ==
  ASSUME PoolConstants, PoolTypeOK, NEW c \in PoolCoroutines, NEW to,
         poolListener' = [poolListener EXCEPT ![c] = to]
  PROVE  Listening' = Listening + (IF to \in {"new", "first"} THEN 1 ELSE 0)
                        - (IF poolListener[c] \in {"new", "first"} THEN 1 ELSE 0)
<1>1. poolListener'[c] = to /\ \A d \in PoolCoroutines \ {c} : poolListener'[d] = poolListener[d]
  BY DEF PoolTypeOK
<1>2. IsFiniteSet(PoolCoroutines)
  BY DEF PoolConstants
<1>3. CountFollows(poolListener, poolListener', PoolCoroutines, {"new", "first"}, c)
  BY <1>1, <1>2, CountChange
<1> QED
  BY <1>1, <1>3 DEF CountFollows, Listening

\* The wait list takes a coroutine, and calls the pool's listener.
LEMMA AddToListKeeps ==
  ASSUME PoolConstants, IInv, NEW c \in PoolCoroutines, PoolAddToList(c)
  PROVE  IInv'
<1>1. /\ client[c] = "add" /\ client' = [client EXCEPT ![c] = "listed"] /\ c \in Clients
      /\ poolListener[c] = "none" /\ poolListener' = [poolListener EXCEPT ![c] = "new"]
      /\ poolList' = poolList \cup {c}
  BY DEF PoolAddToList, PoolGoto, Clients
<1>2. CountsMove(client, client', c, "listed") /\ AllCounts(client)
  BY <1>1, ClientMoves DEF Steps, IInv, PoolTypeOK
<1>3. /\ UNCHANGED <<counter, bench, running, unannounced>>
      /\ UNCHANGED <<finished, blocked, lateClients, gets, cleaner, poolStopper>>
  BY DEF PoolAddToList, shared, others
<1>4. PoolTypeOK'
  BY <1>1, <1>3 DEF IInv, PoolTypeOK
<1>5. Places' /\ Stopping'
  BY <1>1, <1>3 DEF IInv, Places, Stopping, PoolTypeOK, Clients
<1>6. Listening' = Listening + 1
  <2> HIDE DEF Listening
  <2>1. Listening' = Listening + (IF "new" \in {"new", "first"} THEN 1 ELSE 0)
                       - (IF poolListener[c] \in {"new", "first"} THEN 1 ELSE 0)
    BY <1>1, ListenerMoves DEF IInv
  <2> QED
    BY <1>1, <2>1, CountsAreNumbers
<1>7. Cardinality(poolList') = Cardinality(poolList) + 1
  <2>1. c \notin poolList
    BY <1>1 DEF IInv, Places
  <2> QED
    BY <1>1, <2>1, SizesAreNumbers, FS_AddElement DEF IInv
<1>8. Exact' /\ ThreadsOffered' /\ CoroutinesOffered'
  <2>1. /\ Held' = Held /\ TryingT' = TryingT /\ TryingC' = TryingC
        /\ Notifying' = Notifying /\ Informing' = Informing
    BY <1>1, <1>2
       DEF CountsMove, AllCounts, Held, TryingT, TryingC, Notifying, Informing
  <2>2. /\ Held \in Nat /\ TryingT \in Nat /\ TryingC \in Nat /\ MaxResources \in Nat
        /\ Notifying \in Nat /\ Informing \in Nat /\ Listening \in Nat
        /\ Cardinality(poolList) \in Nat
    BY CountsAreNumbers, SizesAreNumbers DEF IInv
  <2> HIDE DEF Held, TryingT, TryingC, Notifying, Informing, Listening
  <2>3. Exact'
    BY <1>3, <2>1 DEF IInv, Exact
  <2>4. (running' <=> running) /\ (unannounced' <=> unannounced)
        /\ blocked' = blocked /\ ThreadsOffered /\ CoroutinesOffered
    BY <1>3 DEF IInv
  <2>5. ThreadsOffered'
    BY <2>1, <2>2, <2>4 DEF ThreadsOffered
  <2>6. CoroutinesOffered'
    BY <1>6, <1>7, <2>1, <2>2, <2>4 DEF CoroutinesOffered
  <2> QED
    BY <2>3, <2>5, <2>6
<1> QED
  BY <1>4, <1>5, <1>8 DEF IInv

\* The listener decides whom it will notify.
LEMMA OnNewItemKeeps ==
  ASSUME PoolConstants, IInv, NEW c \in PoolCoroutines, PoolOnNewItem(c)
  PROVE  IInv'
<1>1. PICK to \in {"all", "first", "none"} :
        /\ poolListener[c] = "new" /\ poolListener' = [poolListener EXCEPT ![c] = to]
        /\ to = "all" => ~ running
        /\ to = "none" => ~ Ready
  BY DEF PoolOnNewItem
<1>2. /\ UNCHANGED <<counter, bench, running, unannounced, finished, blocked, poolList>>
      /\ UNCHANGED <<client, lateClients, gets, cleaner, poolStopper>>
  BY DEF PoolOnNewItem, shared, others
<1>3. PoolTypeOK'
  BY <1>1, <1>2 DEF IInv, PoolTypeOK
<1>4. Places' /\ Stopping'
  BY <1>1, <1>2 DEF IInv, Places, Stopping, PoolTypeOK
<1>5. /\ Held' = Held /\ TryingT' = TryingT /\ TryingC' = TryingC
      /\ Notifying' = Notifying /\ Informing' = Informing
  BY <1>2 DEF Held, TryingT, TryingC, Notifying, Informing
<1>6. Exact' /\ ThreadsOffered'
  <2>1. /\ Exact /\ ThreadsOffered /\ (running' <=> running)
        /\ (unannounced' <=> unannounced) /\ blocked' = blocked
        /\ counter' = counter /\ bench' = bench
    BY <1>2 DEF IInv
  <2> HIDE DEF Held, TryingT, TryingC, Notifying, Informing
  <2>2. Exact'
    BY <1>5, <2>1 DEF Exact
  <2>3. ThreadsOffered'
    BY <1>5, <2>1 DEF ThreadsOffered
  <2> QED
    BY <2>2, <2>3
<1>7. CoroutinesOffered'
  <2>1. /\ CoroutinesOffered /\ (running' <=> running)
        /\ (unannounced' <=> unannounced) /\ poolList' = poolList
    BY <1>2 DEF IInv
  <2>2. CASE to = "first"
    <3>1. Listening' = Listening
      <4> HIDE DEF Listening
      <4>1. Listening' = Listening + (IF "first" \in {"new", "first"} THEN 1 ELSE 0)
                       - (IF poolListener[c] \in {"new", "first"} THEN 1 ELSE 0)
        BY <1>1, <2>2, ListenerMoves DEF IInv
      <4> QED
        BY <1>1, <4>1, CountsAreNumbers
    <3> HIDE DEF Held, TryingT, TryingC, Notifying, Informing, Listening
    <3> QED
      BY <1>5, <2>1, <3>1 DEF CoroutinesOffered
  <2>3. CASE to = "all"
    BY <1>1, <2>1, <2>3 DEF CoroutinesOffered
  <2>4. CASE to = "none"
    <3>1. MaxResources = Held
      BY <1>1, <2>4, NothingFree DEF IInv
    <3> HIDE DEF Held, TryingT, TryingC, Notifying, Informing, Listening
    <3>2. MaxResources - Held' = 0
      BY <3>1, <1>5, CountsAreNumbers
    <3> QED
      BY <3>2, CountsAreNumbers DEF CoroutinesOffered
  <2> QED
    BY <2>2, <2>3, <2>4
<1> QED
  BY <1>3, <1>4, <1>6, <1>7 DEF IInv

-----------------------------------------------------------------------------
(* Creating and releasing. *)

\* The provider made the resource.
LEMMA CreatedKeeps ==
  ASSUME PoolConstants, IInv, NEW c \in Clients, Created(c)
  PROVE  IInv'
<1>1. client[c] = "create" /\ client' = [client EXCEPT ![c] = "use"]
  BY DEF Created, PoolGoto
<1>2. CountsMove(client, client', c, "use") /\ AllCounts(client)
  BY <1>1, ClientMoves DEF Steps, IInv, PoolTypeOK
<1>3. /\ UNCHANGED <<counter, bench, running, unannounced, finished, blocked, poolList>>
      /\ UNCHANGED <<poolListener, lateClients, gets, cleaner, poolStopper>>
  BY DEF Created, shared, others
<1>4. PoolTypeOK'
  BY <1>1, <1>3 DEF IInv, PoolTypeOK
<1>5. Places' /\ Stopping'
  BY <1>1, <1>3 DEF IInv, Places, Stopping, PoolTypeOK, Clients
<1>6. Exact' /\ ThreadsOffered' /\ CoroutinesOffered'
  <2>1. /\ Held' = Held /\ TryingT' = TryingT /\ TryingC' = TryingC
        /\ Notifying' = Notifying /\ Informing' = Informing
    BY <1>1, <1>2
       DEF CountsMove, AllCounts, Held, TryingT, TryingC, Notifying, Informing
  <2>2. Listening' = Listening
    BY <1>3 DEF Listening
  <2>3. /\ counter' = counter /\ bench' = bench /\ blocked' = blocked /\ poolList' = poolList
        /\ (running' <=> running) /\ (unannounced' <=> unannounced)
        /\ Exact /\ ThreadsOffered /\ CoroutinesOffered
    BY <1>3 DEF IInv
  <2> HIDE DEF Held, TryingT, TryingC, Notifying, Informing, Listening
  <2> QED
    BY <2>1, <2>2, <2>3 DEF Exact, ThreadsOffered, CoroutinesOffered
<1> QED
  BY <1>4, <1>5, <1>6 DEF IInv

\* The provider failed: the slot is given back.
LEMMA FailedKeeps ==
  ASSUME PoolConstants, IInv, NEW c \in Clients, CreateFailed(c)
  PROVE  IInv'
<1>1. client[c] = "create" /\ client' = [client EXCEPT ![c] = "idle"] /\ counter' = counter - 1
      /\ unannounced' = TRUE
  BY DEF CreateFailed, PoolGoto
<1>2. CountsMove(client, client', c, "idle") /\ AllCounts(client)
  BY <1>1, ClientMoves DEF Steps, IInv, PoolTypeOK
<1>3. /\ UNCHANGED <<bench, running, finished, blocked, poolList>>
      /\ UNCHANGED <<poolListener, lateClients, gets, cleaner, poolStopper>>
  BY DEF CreateFailed, others
<1>4. Held' = Held - 1
  BY <1>1, <1>2 DEF CountsMove, AllCounts, Held
<1>5. Exact' /\ counter' \in 0 .. MaxResources
  <2>1. /\ counter = Held + Len(bench) /\ bench' = bench /\ Held' \in Nat
        /\ counter \in 0 .. MaxResources
    BY <1>3, CountsAreNumbers DEF IInv, Exact, PoolTypeOK
  <2>2. Len(bench) \in Nat /\ Held \in Nat /\ MaxResources \in Nat /\ Held >= 1
    BY <1>4, CountsAreNumbers, SizesAreNumbers DEF IInv
  <2> HIDE DEF Held
  <2> QED
    BY <1>1, <1>4, <2>1, <2>2 DEF Exact
<1>6. PoolTypeOK'
  BY <1>1, <1>3, <1>5 DEF IInv, PoolTypeOK
<1>7. Places' /\ Stopping'
  BY <1>1, <1>3 DEF IInv, Places, Stopping, PoolTypeOK, Clients
<1>8. ThreadsOffered' /\ CoroutinesOffered'
  BY <1>1 DEF ThreadsOffered, CoroutinesOffered
<1> QED
  BY <1>5, <1>6, <1>7, <1>8 DEF IInv

\* A client gives its resource back.
LEMMA ReleaseKeeps ==
  ASSUME PoolConstants, IInv, NEW c \in Clients, Release(c)
  PROVE  IInv'
<1>1. PICK to \in {"idle", "notify"} :
        /\ client[c] = "use" /\ client' = [client EXCEPT ![c] = to]
        /\ to = "idle" <=> ~ running
        /\ \/ bench' = bench /\ counter' = counter - 1
           \/ bench' = Append(bench, FALSE) /\ counter' = counter /\ running
  BY DEF Release, PoolGoto
<1>2. CountsMove(client, client', c, to) /\ AllCounts(client)
  BY <1>1, ClientMoves DEF Steps, IInv, PoolTypeOK
<1>3. /\ UNCHANGED <<running, finished, unannounced, blocked, poolList>>
      /\ UNCHANGED <<poolListener, lateClients, gets, cleaner, poolStopper>>
  BY DEF Release, others
<1>4. Held' = Held - 1
  BY <1>1, <1>2 DEF CountsMove, AllCounts, Held
<1>5. /\ Held \in Nat /\ Held' \in Nat /\ MaxResources \in Nat /\ Len(bench) \in Nat
      /\ counter \in Nat /\ counter <= MaxResources /\ counter = Held + Len(bench)
      /\ bench \in Seq(BOOLEAN)
  BY CountsAreNumbers, SizesAreNumbers DEF IInv, Exact, PoolTypeOK
<1>6. Held >= 1
  <2> HIDE DEF Held
  <2> QED
    BY <1>4, <1>5
<1>7. /\ bench' \in Seq(BOOLEAN) /\ Len(bench') <= MaxResources
      /\ counter' \in 0 .. MaxResources /\ counter' = Held' + Len(bench')
  <2> HIDE DEF Held
  <2>1. CASE bench' = bench /\ counter' = counter - 1
    BY <1>4, <1>5, <1>6, <2>1
  <2>2. CASE bench' = Append(bench, FALSE) /\ counter' = counter
    <3>1. bench' \in Seq(BOOLEAN) /\ Len(bench') = Len(bench) + 1
      BY <1>5, <2>2
    <3> QED
      BY <1>4, <1>5, <1>6, <2>2, <3>1
  <2> QED
    BY <1>1, <2>1, <2>2
<1>8. PoolTypeOK'
  BY <1>1, <1>3, <1>7 DEF IInv, PoolTypeOK
<1>9. Places' /\ Stopping'
  BY <1>1, <1>3 DEF IInv, Places, Stopping, PoolTypeOK, Clients
<1>10. ThreadsOffered' /\ CoroutinesOffered'
  <2>1. TryingT' = TryingT /\ TryingC' = TryingC
    BY <1>1, <1>2 DEF CountsMove, AllCounts, TryingT, TryingC
  <2>2. Listening' = Listening
    BY <1>3 DEF Listening
  <2>3. running => Notifying' = Notifying + 1 /\ Informing' = Informing + 1
    BY <1>1, <1>2 DEF CountsMove, AllCounts, Notifying, Informing
  <2>4. /\ blocked' = blocked /\ poolList' = poolList
        /\ (running' <=> running) /\ (unannounced' <=> unannounced)
        /\ ThreadsOffered /\ CoroutinesOffered
    BY <1>3 DEF IInv
  <2>5. /\ Held \in Nat /\ TryingT \in Nat /\ TryingC \in Nat /\ MaxResources \in Nat
        /\ Notifying \in Nat /\ Informing \in Nat /\ Listening \in Nat
    BY CountsAreNumbers
  <2> HIDE DEF Held, TryingT, TryingC, Notifying, Informing, Listening
  <2>6. ThreadsOffered'
    BY <1>4, <2>1, <2>3, <2>4, <2>5 DEF ThreadsOffered
  <2>7. CoroutinesOffered'
    BY <1>4, <2>1, <2>2, <2>3, <2>4, <2>5 DEF CoroutinesOffered
  <2> QED
    BY <2>6, <2>7
<1> QED
  BY <1>7, <1>8, <1>9, <1>10 DEF IInv, Exact

-----------------------------------------------------------------------------
(* Waking. *)

\* Who is woken leaves a wait, so that no count but that of those who try
\* changes.
LEMMA WakingMoves ==
  ASSUME PoolConstants, PoolTypeOK, Places, NEW woken \in SUBSET (blocked \cup poolList),
         NEW p, p = Resume(client, woken)
  PROVE  /\ p \in [Clients -> Steps]
         /\ \A d \in Clients : p[d] = IF d \in woken THEN "try" ELSE client[d]
         /\ CountIn(p, Clients, {"create", "use"}) = Held
         /\ CountIn(p, Clients, {"notify"}) = Notifying
         /\ CountIn(p, Clients, {"notify", "notifyList"}) = Informing
         /\ woken \cap PoolThreads = {} => CountIn(p, PoolThreads, {"try"}) = TryingT
<1>1. p \in [Clients -> Steps]
  BY DEF Resume, PoolTypeOK, Steps
<1>2. \A d \in Clients : p[d] = IF d \in woken THEN "try" ELSE client[d]
  BY DEF Resume
<1>3. \A d \in Clients \cap woken : client[d] \in {"blocked", "listed"}
  BY DEF Places, PoolTypeOK, PoolConstants, Clients
<1>4. ASSUME NEW L \in {{"create", "use"}, {"notify"}, {"notify", "notifyList"}}
      PROVE  CountIn(p, Clients, L) = CountIn(client, Clients, L)
  <2>1. "try" \notin L /\ "blocked" \notin L /\ "listed" \notin L
    OBVIOUS
  <2>2. {d \in Clients : p[d] \in L} = {d \in Clients : client[d] \in L}
    BY <1>2, <1>3, <2>1
  <2> QED
    BY <2>2 DEF CountIn
<1>5. ASSUME woken \cap PoolThreads = {}
      PROVE  CountIn(p, PoolThreads, {"try"}) = TryingT
  <2>1. {d \in PoolThreads : p[d] \in {"try"}} = {d \in PoolThreads : client[d] \in {"try"}}
    BY <1>2, <1>5 DEF Clients
  <2> QED
    BY <2>1 DEF CountIn, TryingT
<1> QED
  BY <1>1, <1>2, <1>4, <1>5 DEF Held, Notifying, Informing

\* A thread that a notification takes out of its wait looks again.
LEMMA NotifyOneKeeps ==
  ASSUME PoolConstants, IInv, NEW c \in Clients, NotifyOne(c)
  PROVE  IInv'
<1>1. PICK woken \in PoolNotified(blocked) :
        /\ blocked' = blocked \ woken
        /\ client' = [Resume(client, woken) EXCEPT ![c] = "notifyList"]
        /\ poolStopper' = ResumeStopper(woken)
  BY DEF NotifyOne
<1>2. /\ UNCHANGED <<counter, bench, running, unannounced, finished, poolList>>
      /\ UNCHANGED <<poolListener, lateClients, gets, cleaner>>
      /\ client[c] = "notify"
  BY DEF NotifyOne, shared
<1>3. PICK p : p = Resume(client, woken)
  OBVIOUS
<1>4. /\ p \in [Clients -> Steps]
      /\ \A d \in Clients : p[d] = IF d \in woken THEN "try" ELSE client[d]
      /\ CountIn(p, Clients, {"create", "use"}) = Held
      /\ CountIn(p, Clients, {"notify"}) = Notifying
      /\ CountIn(p, Clients, {"notify", "notifyList"}) = Informing
  <2>1. woken \in SUBSET (blocked \cup poolList)
    <3>1. woken \subseteq blocked
      BY DEF PoolNotified
    <3> QED
      BY <3>1
  <2> QED
    BY <2>1, <1>3, WakingMoves DEF IInv
<1>5. client' = [p EXCEPT ![c] = "notifyList"] /\ p[c] = "notify"
  <2>1. woken \subseteq blocked
    BY DEF PoolNotified
  <2>2. blocked \cap Clients \subseteq PoolThreads
    BY DEF IInv, PoolTypeOK, PoolConstants, Clients
  <2>3. c \notin woken
    BY <1>2, <2>1, <2>2 DEF IInv, Places
  <2> QED
    BY <1>1, <1>2, <1>3, <1>4, <2>3
<1>6. CountsMove(p, client', c, "notifyList") /\ AllCounts(p)
  BY <1>4, <1>5, ClientMoves DEF Steps
<1>7. PoolTypeOK'
  <2>1. client' \in [Clients -> Steps]
    BY <1>4, <1>5 DEF Steps
  <2> QED
    BY <1>1, <1>2, <2>1 DEF IInv, PoolTypeOK, ResumeStopper, Steps
<1>8. Places'
  <2>1. c \notin blocked \cap PoolThreads /\ c \notin poolList
    BY <1>2 DEF IInv, Places
  <2>2. \A t \in (blocked \ woken) \cap PoolThreads : client'[t] = "blocked"
    BY <1>1, <2>1 DEF IInv, Places, PoolTypeOK, Resume, Clients
  <2>3. woken \cap poolList = {}
    BY DEF PoolNotified, IInv, Places, PoolTypeOK, PoolConstants, Clients
  <2>4. \A d \in poolList : client'[d] = "listed"
    BY <1>1, <2>1, <2>3 DEF IInv, Places, PoolTypeOK, Resume, Clients
  <2>5. "stopper" \in blocked \ woken => poolStopper' = "blocked"
    BY <1>1 DEF IInv, Places, ResumeStopper
  <2> QED
    BY <1>1, <1>2, <2>2, <2>4, <2>5 DEF Places
<1>9. Stopping'
  <2>1. poolStopper' # "idle" => poolStopper # "idle"
    BY <1>1 DEF ResumeStopper, IInv, Places, PoolNotified
  <2> QED
    BY <1>2, <2>1 DEF IInv, Stopping
<1>10. /\ CountIn(p, PoolCoroutines, {"try"}) = TryingC
      /\ \/ blocked \cap PoolThreads = {} \/ ~ running
         \/ CountIn(p, PoolThreads, {"try"}) = TryingT + 1
  <2>1. CASE p = client /\ (blocked \cap PoolThreads = {} \/ ~ running)
    BY <2>1 DEF TryingC
  <2>2. ASSUME NEW t \in PoolThreads, woken = {t}, t \in blocked
        PROVE  /\ CountIn(p, PoolCoroutines, {"try"}) = TryingC
               /\ CountIn(p, PoolThreads, {"try"}) = TryingT + 1
    <3>1. client[t] = "blocked" /\ p = [client EXCEPT ![t] = "try"] /\ t \in Clients
          /\ t \notin PoolCoroutines
      <4>1. client[t] = "blocked" /\ t \in Clients /\ t \notin PoolCoroutines
        BY <2>2 DEF IInv, Places, Clients, PoolConstants
      <4>2. client \in [Clients -> Steps]
        BY DEF IInv, PoolTypeOK, Steps
      <4>3. p = [d \in Clients |-> IF d \in {t} THEN "try" ELSE client[d]]
        BY <2>2, <1>3 DEF Resume
      <4> QED
        BY <4>1, <4>2, <4>3
    <3>2. CountsMove(client, p, t, "try") /\ AllCounts(client)
      BY <3>1, ClientMoves DEF Steps, IInv, PoolTypeOK
    <3> QED
      BY <3>1, <3>2 DEF CountsMove, AllCounts, TryingT, TryingC
  <2>3. \/ p = client /\ (blocked \cap PoolThreads = {} \/ ~ running)
        \/ \E t \in PoolThreads : woken = {t} /\ t \in blocked
    <3>1. CASE blocked = {}
      BY <3>1, <1>3 DEF PoolNotified, Resume, IInv, PoolTypeOK
    <3>2. CASE woken = {"stopper"} /\ "stopper" \in blocked
      BY <3>2, <1>3 DEF Resume, IInv, PoolTypeOK, Places, Stopping, PoolConstants
    <3>3. \/ blocked = {}
          \/ woken = {"stopper"} /\ "stopper" \in blocked
          \/ \E t \in PoolThreads : woken = {t} /\ t \in blocked
      BY DEF PoolNotified, IInv, PoolTypeOK
    <3> QED
      BY <3>1, <3>2, <3>3
  <2> QED
    BY <2>1, <2>2, <2>3
<1>11. Exact' /\ ThreadsOffered' /\ CoroutinesOffered'
  <2>1. Held' = Held /\ Notifying' = Notifying - 1 /\ Informing' = Informing
    <3>1. /\ CountIn(client', Clients, {"create", "use"})
               = CountIn(p, Clients, {"create", "use"})
          /\ CountIn(client', Clients, {"notify"}) = CountIn(p, Clients, {"notify"}) - 1
          /\ CountIn(client', Clients, {"notify", "notifyList"})
               = CountIn(p, Clients, {"notify", "notifyList"})
      BY <1>5, <1>6 DEF CountsMove, AllCounts
    <3> QED
      BY <3>1, <1>4 DEF Held, Notifying, Informing
  <2>2. TryingC' = TryingC
    BY <1>5, <1>6, <1>10 DEF CountsMove, AllCounts, TryingC
  <2>3. \/ blocked \cap PoolThreads = {} \/ ~ running
        \/ TryingT' = TryingT + 1
    BY <1>5, <1>6, <1>10 DEF CountsMove, AllCounts, TryingT
  <2>4. Listening' = Listening
    BY <1>2 DEF Listening
  <2>5. /\ counter' = counter /\ bench' = bench /\ blocked' \subseteq blocked
        /\ poolList' = poolList /\ (running' <=> running) /\ (unannounced' <=> unannounced)
        /\ Exact /\ ThreadsOffered /\ CoroutinesOffered
    BY <1>1, <1>2 DEF IInv
  <2>6. /\ Held \in Nat /\ TryingT \in Nat /\ TryingC \in Nat /\ MaxResources \in Nat
        /\ Notifying \in Nat /\ Informing \in Nat /\ Listening \in Nat
    BY CountsAreNumbers
  <2> HIDE DEF Held, TryingT, TryingC, Notifying, Informing, Listening
  <2>7. Exact'
    BY <2>1, <2>5 DEF Exact
  <2>8. ThreadsOffered'
    BY <2>1, <2>3, <2>5, <2>2, <2>6 DEF ThreadsOffered
  <2>9. CoroutinesOffered'
    BY <2>1, <2>4, <2>5, <2>2, <2>6 DEF CoroutinesOffered
  <2> QED
    BY <2>7, <2>8, <2>9
<1> QED
  BY <1>7, <1>8, <1>9, <1>11 DEF IInv

\* notifyFirst() wakes one coroutine if there is one.
LEMMA FirstWoken ==
  ASSUME PoolConstants, PoolTypeOK, Places, NEW woken \in PoolNotified(poolList),
         NEW p, p = Resume(client, woken)
  PROVE  /\ woken \subseteq poolList /\ woken \cap PoolThreads = {}
         /\ \/ /\ poolList = {}
               /\ CountIn(p, PoolCoroutines, {"try"}) = TryingC
            \/ /\ CountIn(p, PoolCoroutines, {"try"}) = TryingC + 1
               /\ Cardinality(poolList \ woken) = Cardinality(poolList) - 1
<1>1. woken \subseteq poolList /\ woken \cap PoolThreads = {}
  BY DEF PoolNotified, PoolTypeOK, PoolConstants
<1>2. CASE poolList = {}
  <2>1. p = client
    BY <1>1, <1>2 DEF Resume, PoolTypeOK
  <2> QED
    BY <1>1, <1>2, <2>1 DEF TryingC
<1>3. ASSUME NEW w \in poolList, woken = {w}
      PROVE  /\ CountIn(p, PoolCoroutines, {"try"}) = TryingC + 1
             /\ Cardinality(poolList \ woken) = Cardinality(poolList) - 1
  <2>1. client[w] = "listed" /\ w \in Clients /\ w \in PoolCoroutines
    BY DEF Places, PoolTypeOK, Clients
  <2>2. client \in [Clients -> Steps]
    BY DEF PoolTypeOK, Steps
  <2>3. p = [d \in Clients |-> IF d \in {w} THEN "try" ELSE client[d]]
    BY <1>3 DEF Resume
  <2>4. p = [client EXCEPT ![w] = "try"]
    BY <2>1, <2>2, <2>3
  <2>5. CountsMove(client, p, w, "try") /\ AllCounts(client)
    BY <2>1, <2>2, <2>4, ClientMoves DEF Steps
  <2>6. CountIn(p, PoolCoroutines, {"try"}) = TryingC + 1
    BY <2>1, <2>5 DEF CountsMove, AllCounts, TryingC
  <2>7. Cardinality(poolList \ {w}) = Cardinality(poolList) - 1
    BY SizesAreNumbers, FS_RemoveElement
  <2> QED
    BY <1>3, <2>6, <2>7
<1>4. poolList = {} \/ \E w \in poolList : woken = {w}
  BY DEF PoolNotified
<1> QED
  BY <1>1, <1>2, <1>3, <1>4

\* A release wakes the first coroutine of the list.
LEMMA NotifyFirstKeeps ==
  ASSUME PoolConstants, IInv, NEW c \in Clients, NotifyFirst(c)
  PROVE  IInv'
<1>1. PICK woken \in PoolNotified(poolList) :
        poolList' = poolList \ woken /\ client' = [Resume(client, woken) EXCEPT ![c] = "idle"]
  BY DEF NotifyFirst
<1>2. /\ UNCHANGED <<counter, bench, running, unannounced, finished, blocked>>
      /\ UNCHANGED <<poolListener, lateClients, gets, cleaner, poolStopper>>
      /\ client[c] = "notifyList"
  BY DEF NotifyFirst, shared, others
<1>3. PICK p : p = Resume(client, woken)
  OBVIOUS
<1>4. /\ woken \subseteq poolList /\ woken \cap PoolThreads = {}
      /\ \/ /\ poolList = {}
            /\ CountIn(p, PoolCoroutines, {"try"}) = TryingC
         \/ /\ CountIn(p, PoolCoroutines, {"try"}) = TryingC + 1
            /\ Cardinality(poolList \ woken) = Cardinality(poolList) - 1
  BY <1>3, FirstWoken DEF IInv
<1>5. /\ p \in [Clients -> Steps]
      /\ \A d \in Clients : p[d] = IF d \in woken THEN "try" ELSE client[d]
      /\ CountIn(p, Clients, {"create", "use"}) = Held
      /\ CountIn(p, Clients, {"notify"}) = Notifying
      /\ CountIn(p, Clients, {"notify", "notifyList"}) = Informing
      /\ woken \cap PoolThreads = {} => CountIn(p, PoolThreads, {"try"}) = TryingT
  <2>1. woken \in SUBSET (blocked \cup poolList)
    BY <1>4
  <2> QED
    BY <2>1, <1>3, WakingMoves DEF IInv
<1>6. client' = [p EXCEPT ![c] = "idle"] /\ c \notin woken /\ p[c] = "notifyList"
  BY <1>1, <1>2, <1>3, <1>4, <1>5 DEF IInv, Places
<1>7. CountsMove(p, client', c, "idle") /\ AllCounts(p)
  BY <1>5, <1>6, ClientMoves DEF Steps
<1>8. PoolTypeOK'
  BY <1>1, <1>2, <1>5, <1>6 DEF IInv, PoolTypeOK, Steps
<1>9. Places'
  <2>1. c \notin blocked \cap PoolThreads /\ c \notin poolList
    BY <1>2 DEF IInv, Places
  <2>2. blocked \cap PoolThreads \subseteq Clients /\ poolList \subseteq Clients
    BY DEF IInv, PoolTypeOK, Clients
  <2>3. \A t \in blocked \cap PoolThreads : client'[t] = "blocked"
    BY <1>4, <1>5, <1>6, <2>1, <2>2 DEF IInv, Places
  <2>4. \A d \in poolList \ woken : client'[d] = "listed"
    BY <1>5, <1>6, <2>1, <2>2 DEF IInv, Places
  <2> QED
    BY <1>1, <1>2, <2>3, <2>4 DEF IInv, Places
<1>10. Stopping'
  BY <1>2 DEF IInv, Stopping
<1>11. Exact' /\ ThreadsOffered' /\ CoroutinesOffered'
  <2>1. /\ Held' = Held /\ TryingT' = TryingT /\ Notifying' = Notifying
        /\ Informing' = Informing - 1
    BY <1>4, <1>5, <1>6, <1>7
       DEF CountsMove, AllCounts, Held, TryingT, Notifying, Informing
  <2>2. CountIn(client', PoolCoroutines, {"try"}) = CountIn(p, PoolCoroutines, {"try"})
    BY <1>6, <1>7 DEF CountsMove, AllCounts
  <2>3. \/ poolList = {} /\ poolList' = {}
        \/ TryingC' = TryingC + 1
    BY <1>1, <1>4, <2>2 DEF TryingC
  <2>4. Listening' = Listening
    BY <1>2 DEF Listening
  <2>5. /\ counter' = counter /\ bench' = bench /\ blocked' = blocked
        /\ (running' <=> running) /\ (unannounced' <=> unannounced)
        /\ Exact /\ ThreadsOffered /\ CoroutinesOffered
    BY <1>2 DEF IInv
  <2>6. /\ Held \in Nat /\ TryingT \in Nat /\ TryingC \in Nat /\ MaxResources \in Nat
        /\ Notifying \in Nat /\ Informing \in Nat /\ Listening \in Nat
        /\ Cardinality(poolList) \in Nat
    BY CountsAreNumbers, SizesAreNumbers DEF IInv
  <2> HIDE DEF Held, TryingT, TryingC, Notifying, Informing, Listening
  <2>7. Exact'
    BY <2>1, <2>5 DEF Exact
  <2>8. ThreadsOffered'
    BY <2>1, <2>5, <2>6 DEF ThreadsOffered
  <2>9. CoroutinesOffered'
    <3>1. CASE poolList' = {}
      <4>1. Cardinality(poolList') = 0
        BY <3>1, FS_EmptySet
      <4> QED
        BY <4>1, <2>4, <2>6 DEF CoroutinesOffered
    <3>2. CASE /\ TryingC' = TryingC + 1
               /\ Cardinality(poolList') = Cardinality(poolList) - 1
      BY <3>2, <2>1, <2>4, <2>5, <2>6 DEF CoroutinesOffered
    <3> QED
      BY <1>1, <1>4, <2>2, <2>3, <3>1, <3>2 DEF TryingC
  <2> QED
    BY <2>7, <2>8, <2>9
<1> QED
  BY <1>8, <1>9, <1>10, <1>11 DEF IInv

\* The listener notifies the first of the list, or all of it.
LEMMA NotifyNewKeeps ==
  ASSUME PoolConstants, IInv, NEW c \in PoolCoroutines, PoolNotifyNew(c)
  PROVE  IInv'
<1>1. /\ poolListener[c] \in {"first", "all"}
      /\ poolListener' = [poolListener EXCEPT ![c] = "none"]
      /\ UNCHANGED <<counter, bench, running, unannounced, finished, blocked>>
      /\ UNCHANGED <<lateClients, gets, cleaner, poolStopper>>
  BY DEF PoolNotifyNew, shared, others
<1>2. PICK woken \in SUBSET poolList :
        /\ poolList' = poolList \ woken /\ client' = Resume(client, woken)
        /\ woken \in PoolNotified(poolList) \/ ~ running
  <2>1. CASE poolListener[c] = "all"
    <3>1. ~ running /\ WakeCoroutines(poolList)
      BY <2>1 DEF PoolNotifyNew, IInv, Stopping
    <3> QED
      BY <3>1 DEF WakeCoroutines, Resume
  <2>2. CASE poolListener[c] = "first"
    <3>1. PICK woken \in PoolNotified(poolList) : WakeCoroutines(woken)
      BY <2>2 DEF PoolNotifyNew
    <3>2. woken \in SUBSET poolList
      BY DEF PoolNotified
    <3> QED
      BY <3>1, <3>2 DEF WakeCoroutines, Resume
  <2> QED
    BY <1>1, <2>1, <2>2
<1>3. /\ client' \in [Clients -> Steps]
      /\ \A d \in Clients : client'[d] = IF d \in woken THEN "try" ELSE client[d]
      /\ Held' = Held /\ Notifying' = Notifying /\ Informing' = Informing
      /\ woken \cap PoolThreads = {} => TryingT' = TryingT
  <2>1. woken \in SUBSET (blocked \cup poolList)
    OBVIOUS
  <2> QED
    BY <2>1, <1>2, WakingMoves DEF IInv, Held, Notifying, Informing, TryingT
<1>4. PoolTypeOK'
  BY <1>1, <1>2, <1>3 DEF IInv, PoolTypeOK, Steps
<1>5. woken \cap PoolThreads = {}
  BY DEF IInv, PoolTypeOK, PoolConstants
<1>6. Places'
  <2>1. blocked \cap PoolThreads \subseteq Clients /\ poolList \subseteq Clients
    BY DEF IInv, PoolTypeOK, Clients
  <2> QED
    BY <1>1, <1>2, <1>3, <1>5, <2>1 DEF IInv, Places
<1>7. Stopping'
  BY <1>1 DEF IInv, Stopping, PoolTypeOK
<1>8. Exact' /\ ThreadsOffered'
  <2>1. /\ counter' = counter /\ bench' = bench /\ blocked' = blocked
        /\ (running' <=> running) /\ (unannounced' <=> unannounced)
        /\ Exact /\ ThreadsOffered
    BY <1>1 DEF IInv
  <2> HIDE DEF Held, TryingT, TryingC, Notifying, Informing, Listening
  <2> QED
    BY <1>3, <1>5, <2>1 DEF Exact, ThreadsOffered
<1>9. CoroutinesOffered'
  <2>1. CASE ~ running
    BY <1>1, <2>1 DEF CoroutinesOffered
  <2>2. CASE running
    <3>1. woken \in PoolNotified(poolList) /\ poolListener[c] = "first"
      BY <1>1, <1>2, <2>2 DEF IInv, Stopping
    <3>2. Listening' = Listening - 1
      <4> HIDE DEF Listening
      <4>1. Listening' = Listening + (IF "none" \in {"new", "first"} THEN 1 ELSE 0)
                       - (IF poolListener[c] \in {"new", "first"} THEN 1 ELSE 0)
        BY <1>1, ListenerMoves DEF IInv
      <4> QED
        BY <3>1, <4>1, CountsAreNumbers
    <3>3. \/ poolList = {}
          \/ /\ TryingC' = TryingC + 1
             /\ Cardinality(poolList') = Cardinality(poolList) - 1
      BY <1>2, <3>1, FirstWoken DEF IInv, TryingC
    <3>4. CoroutinesOffered /\ (unannounced' <=> unannounced) /\ (running' <=> running)
      BY <1>1 DEF IInv
    <3>5. /\ Held \in Nat /\ TryingC \in Nat /\ MaxResources \in Nat
          /\ Informing \in Nat /\ Listening \in Nat /\ Listening' \in Nat
          /\ Cardinality(poolList) \in Nat
      BY CountsAreNumbers, SizesAreNumbers DEF IInv
    <3> HIDE DEF Held, TryingT, TryingC, Notifying, Informing, Listening
    <3>6. CASE poolList = {}
      <4>1. Cardinality(poolList') = 0
        BY <1>2, <3>6, FS_EmptySet
      <4>2. 0 <= Listening'
        BY <3>5
      <4> QED
        BY <4>1, <4>2 DEF CoroutinesOffered
    <3>7. CASE /\ TryingC' = TryingC + 1
               /\ Cardinality(poolList') = Cardinality(poolList) - 1
      BY <1>3, <3>2, <3>4, <3>5, <3>7 DEF CoroutinesOffered
    <3> QED
      BY <3>3, <3>6, <3>7
  <2> QED
    BY <2>1, <2>2
<1> QED
  BY <1>4, <1>6, <1>7, <1>8, <1>9 DEF IInv

-----------------------------------------------------------------------------
(* Time. *)

\* A client whose time is up leaves its wait by itself.
LEMMA LeaveKeeps ==
  ASSUME PoolConstants, IInv, NEW c \in Clients, client[c] \in {"blocked", "listed"},
         client' = [client EXCEPT ![c] = "try"], blocked' = blocked \ {c},
         poolList' = poolList \ {c}, lateClients' \in SUBSET Clients,
         UNCHANGED <<shared, poolListener, gets, others>>
  PROVE  IInv'
<1>1. CountsMove(client, client', c, "try") /\ AllCounts(client)
  BY ClientMoves DEF Steps, IInv, PoolTypeOK
<1>2. UNCHANGED <<counter, bench, running, unannounced, finished, poolListener, gets,
                  cleaner, poolStopper>>
  BY DEF shared, others
<1>3. PoolTypeOK'
  BY <1>2 DEF IInv, PoolTypeOK
<1>4. Places'
  BY <1>2 DEF IInv, Places, PoolTypeOK, Clients
<1>5. Stopping'
  BY <1>2 DEF IInv, Stopping
<1>6. Exact' /\ ThreadsOffered' /\ CoroutinesOffered'
  <2>1. Held' = Held /\ Notifying' = Notifying /\ Informing' = Informing
    BY <1>1 DEF CountsMove, AllCounts, Held, Notifying, Informing
  <2>2. PICK t \in {0, 1}, k \in {0, 1} :
           TryingT' = TryingT + t /\ TryingC' = TryingC + k
    <3>1. TryingT' \in {TryingT, TryingT + 1} /\ TryingC' \in {TryingC, TryingC + 1}
      BY <1>1 DEF CountsMove, AllCounts, TryingT, TryingC
    <3> QED
      BY <3>1, CountsAreNumbers
  <2>3. Listening' = Listening
    BY <1>2 DEF Listening
  <2>4. PICK n \in Nat : Cardinality(poolList') = n /\ n <= Cardinality(poolList)
    BY SizesAreNumbers, FS_Subset, FS_CardinalityType DEF IInv
  <2>5. /\ counter' = counter /\ bench' = bench /\ blocked' \subseteq blocked
        /\ (running' <=> running) /\ (unannounced' <=> unannounced)
        /\ Exact /\ ThreadsOffered /\ CoroutinesOffered
    BY <1>2 DEF IInv
  <2>6. /\ Held \in Nat /\ TryingT \in Nat /\ TryingC \in Nat /\ MaxResources \in Nat
        /\ Notifying \in Nat /\ Informing \in Nat /\ Listening \in Nat
        /\ Cardinality(poolList) \in Nat
    BY CountsAreNumbers, SizesAreNumbers DEF IInv
  <2> HIDE DEF Held, TryingT, TryingC, Notifying, Informing, Listening
  <2>7. Exact'
    BY <2>1, <2>5 DEF Exact
  <2>8. ThreadsOffered'
    BY <2>1, <2>2, <2>5, <2>6 DEF ThreadsOffered
  <2>9. CoroutinesOffered'
    BY <2>1, <2>2, <2>3, <2>4, <2>5, <2>6 DEF CoroutinesOffered
  <2> QED
    BY <2>7, <2>8, <2>9
<1> QED
  BY <1>3, <1>4, <1>5, <1>6 DEF IInv

\* A step that changes nothing the invariant counts.
LEMMA SameCountsKeep ==
  ASSUME PoolConstants, IInv,
         UNCHANGED <<counter, running, unannounced, blocked, poolList, client,
                     poolListener>>,
         Len(bench') = Len(bench)
  PROVE  Exact' /\ ThreadsOffered' /\ CoroutinesOffered'
<1>1. /\ Held' = Held /\ TryingT' = TryingT /\ TryingC' = TryingC
      /\ Notifying' = Notifying /\ Informing' = Informing /\ Listening' = Listening
  BY DEF Held, TryingT, TryingC, Notifying, Informing, Listening
<1>2. /\ counter' = counter /\ blocked' = blocked /\ poolList' = poolList
      /\ (running' <=> running) /\ (unannounced' <=> unannounced)
      /\ Exact /\ ThreadsOffered /\ CoroutinesOffered
  BY DEF IInv
<1> HIDE DEF Held, TryingT, TryingC, Notifying, Informing, Listening
<1> QED
  BY <1>1, <1>2 DEF Exact, ThreadsOffered, CoroutinesOffered

\* A client's timeout, off the list.
LEMMA TimeUpKeeps ==
  ASSUME PoolConstants, IInv, NEW c \in Clients, TimeUp(c)
  PROVE  IInv'
<1>1. /\ client[c] \in {"try", "blocked", "add", "listed"}
      /\ lateClients' = lateClients \cup {c} /\ blocked' = blocked \ {c} /\ poolList' = poolList \ {c}
      /\ UNCHANGED <<shared, poolListener, gets, others>>
  BY DEF TimeUp
<1>2. lateClients' \in SUBSET Clients
  BY <1>1 DEF IInv, PoolTypeOK
<1>3. CASE client[c] \in {"blocked", "listed"}
  <2>1. client' = [client EXCEPT ![c] = "try"]
    BY <1>3 DEF TimeUp, IInv, PoolTypeOK
  <2> QED
    BY <1>1, <1>2, <1>3, <2>1, LeaveKeeps
<1>4. CASE client[c] \in {"try", "add"}
  <2>1. c \notin blocked /\ c \notin poolList
    BY <1>4 DEF IInv, Places, PoolTypeOK, PoolConstants
  <2>2. client' = client
    BY <1>4 DEF TimeUp, IInv, PoolTypeOK
  <2>3. UNCHANGED <<counter, bench, running, unannounced, finished, blocked, poolList,
                    client, poolListener, gets, cleaner, poolStopper>>
    BY <1>1, <2>1, <2>2 DEF shared, others
  <2>4. PoolTypeOK'
    BY <1>2, <2>3 DEF IInv, PoolTypeOK
  <2>5. Places' /\ Stopping'
    BY <2>3 DEF IInv, Places, Stopping
  <2>6. Exact' /\ ThreadsOffered' /\ CoroutinesOffered'
    BY <2>3, SameCountsKeep
  <2> QED
    BY <2>4, <2>5, <2>6 DEF IInv
<1> QED
  BY <1>1, <1>3, <1>4

\* A client's timeout, in the list.
LEMMA TimeUpListedKeeps ==
  ASSUME PoolConstants, IInv, NEW c \in Clients, TimeUpListed(c)
  PROVE  IInv'
<1>1. /\ client[c] = "listed" /\ client' = [client EXCEPT ![c] = "try"]
      /\ poolList' = poolList \ {c} /\ c \in poolList
      /\ UNCHANGED <<shared, blocked, lateClients, poolListener, gets, others>>
  BY DEF TimeUpListed, PoolGoto
<1>2. blocked' = blocked \ {c} /\ lateClients' \in SUBSET Clients
  BY <1>1 DEF IInv, PoolTypeOK, PoolConstants, Clients
<1>3. client[c] \in {"blocked", "listed"} /\ UNCHANGED <<shared, poolListener, gets,
                                                         others>>
  BY <1>1
<1> QED
  BY <1>1, <1>2, <1>3, LeaveKeeps

\* An idle resource reaches its maximum age.
LEMMA ExpireKeeps ==
  ASSUME PoolConstants, IInv, NEW i \in DOMAIN bench, Expire(i)
  PROVE  IInv'
<1>1. /\ bench' = [bench EXCEPT ![i] = TRUE]
      /\ UNCHANGED <<counter, running, unannounced, blocked, poolList, client,
                     poolListener>>
      /\ UNCHANGED <<finished, lateClients, gets, cleaner, poolStopper>>
  BY DEF Expire, others
<1>2. bench' \in Seq(BOOLEAN) /\ Len(bench') = Len(bench) /\ bench # <<>>
  BY <1>1 DEF IInv, PoolTypeOK
<1>3. PoolTypeOK'
  BY <1>1, <1>2 DEF IInv, PoolTypeOK
<1>4. Places' /\ Stopping'
  BY <1>1, <1>2 DEF IInv, Places, Stopping
<1>5. Exact' /\ ThreadsOffered' /\ CoroutinesOffered'
  BY <1>1, <1>2, SameCountsKeep
<1> QED
  BY <1>3, <1>4, <1>5 DEF IInv

-----------------------------------------------------------------------------
(* The cleanup thread and stop(). *)

\* The bench shrinks and the counter follows.
LEMMA BenchShrinks ==
  ASSUME PoolConstants, IInv,
         UNCHANGED <<blocked, poolList, client, poolListener, unannounced>>,
                     running' => running,
         NEW n \in Nat, n <= Len(bench), Len(bench') = n,
         counter' = counter - (Len(bench) - n)
  PROVE  counter' \in 0 .. MaxResources /\ Exact' /\ ThreadsOffered' /\ CoroutinesOffered'
<1>1. /\ Held' = Held /\ TryingT' = TryingT /\ TryingC' = TryingC
      /\ Notifying' = Notifying /\ Informing' = Informing /\ Listening' = Listening
  BY DEF Held, TryingT, TryingC, Notifying, Informing, Listening
<1>2. /\ blocked' = blocked /\ poolList' = poolList
      /\ (running' => running) /\ (unannounced' <=> unannounced)
      /\ counter = Held + Len(bench) /\ ThreadsOffered /\ CoroutinesOffered
  BY DEF IInv, Exact
<1>3. Held \in Nat /\ MaxResources \in Nat /\ Len(bench) \in Nat /\ counter \in 0 .. MaxResources
  BY CountsAreNumbers, SizesAreNumbers DEF IInv, PoolTypeOK
<1> HIDE DEF Held, TryingT, TryingC, Notifying, Informing, Listening
<1>4. counter' = Held + n
  BY <1>2, <1>3
<1>5. counter' \in 0 .. MaxResources /\ Exact'
  BY <1>1, <1>2, <1>3, <1>4 DEF Exact
<1>6. ThreadsOffered' /\ CoroutinesOffered'
  BY <1>1, <1>2 DEF ThreadsOffered, CoroutinesOffered
<1> QED
  BY <1>5, <1>6

\* The cleanup task removes what has expired.
LEMMA CleanerScanKeeps ==
  ASSUME PoolConstants, IInv, CleanerScan
  PROVE  IInv'
<1> DEFINE fresh == {k \in DOMAIN bench : ~ bench[k]}
<1>1. /\ cleaner = "scan" /\ cleaner' = "loop"
      /\ bench' = [i \in 1 .. Cardinality(fresh) |-> FALSE]
      /\ counter' = counter - (Len(bench) - Len(bench'))
      /\ UNCHANGED <<blocked, poolList, client, poolListener, unannounced, running>>
      /\ UNCHANGED <<finished, lateClients, gets, poolStopper>>
  BY DEF CleanerScan
<1>2. bench \in Seq(BOOLEAN) /\ Len(bench) \in Nat /\ Len(bench) <= MaxResources /\ MaxResources \in Nat
  BY SizesAreNumbers DEF IInv, PoolTypeOK, PoolConstants
<1>3. Cardinality(fresh) \in Nat /\ Cardinality(fresh) <= Len(bench)
  <2>1. fresh \subseteq 1 .. Len(bench)
    BY <1>2
  <2>2. IsFiniteSet(1 .. Len(bench)) /\ Cardinality(1 .. Len(bench)) = Len(bench)
    <3>1. PICK m \in Nat : m = Len(bench)
      BY <1>2
    <3>2. IsFiniteSet(1 .. m) /\ Cardinality(1 .. m) = m
      BY FS_Interval
    <3> QED
      BY <3>1, <3>2
  <2> HIDE DEF fresh
  <2> QED
    BY <2>1, <2>2, FS_Subset, FS_CardinalityType
<1> HIDE DEF fresh
<1>4. PICK n \in Nat : n = Cardinality(fresh) /\ n <= Len(bench)
  BY <1>3
<1>5. bench' = [i \in 1 .. n |-> FALSE]
  BY <1>1, <1>4
<1>6. bench' \in Seq(BOOLEAN) /\ Len(bench') = n
  BY <1>5
<1>7. counter' = counter - (Len(bench) - n)
  BY <1>1, <1>6
<1>8. counter' \in 0 .. MaxResources /\ Exact' /\ ThreadsOffered' /\ CoroutinesOffered'
  <2>1. UNCHANGED <<blocked, poolList, client, poolListener,
                    unannounced>> /\ (running' => running)
    BY <1>1
  <2> QED
    BY <1>4, <1>6, <1>7, <2>1, BenchShrinks
<1>9. PoolTypeOK'
  <2>1. Len(bench') <= MaxResources
    BY <1>2, <1>4, <1>6
  <2> QED
    BY <1>1, <1>6, <1>8, <2>1 DEF IInv, PoolTypeOK
<1>10. Places'
  BY <1>1 DEF IInv, Places
<1>11. Stopping'
  <2>1. ~ running => bench' = <<>>
    <3>1. ASSUME ~ running
          PROVE  bench' = <<>>
      <4>1. Len(bench) = 0
        BY <3>1 DEF IInv, Stopping
      <4>2. Len(bench') = 0
        BY <1>4, <1>6, <4>1
      <4> QED
        BY <4>2, <1>6, EmptySeq
    <3> QED
      BY <3>1
  <2> QED
    BY <1>1, <2>1 DEF IInv, Stopping
<1> QED
  BY <1>8, <1>9, <1>10, <1>11 DEF IInv

\* It empties the bench of a stopped pool.
LEMMA CleanerClearKeeps ==
  ASSUME PoolConstants, IInv, CleanerClear
  PROVE  IInv'
<1>1. /\ cleaner = "clear" /\ cleaner' = "notify" /\ bench' = <<>>
      /\ counter' = counter - Len(bench) /\ finished' = TRUE
      /\ UNCHANGED <<blocked, poolList, client, poolListener, unannounced, running>>
      /\ UNCHANGED <<lateClients, gets, poolStopper>>
  BY DEF CleanerClear
<1>2. bench' \in Seq(BOOLEAN) /\ Len(bench') = 0 /\ Len(bench) \in Nat
      /\ counter \in Nat
  BY <1>1, SizesAreNumbers DEF IInv
<1>3. counter' \in 0 .. MaxResources /\ Exact' /\ ThreadsOffered' /\ CoroutinesOffered'
  <2>1. counter' = counter - (Len(bench) - 0) /\ 0 \in Nat /\ 0 <= Len(bench)
    BY <1>1, <1>2
  <2>2. UNCHANGED <<blocked, poolList, client, poolListener,
                    unannounced>> /\ (running' => running)
    BY <1>1
  <2> QED
    BY <1>2, <2>1, <2>2, BenchShrinks
<1>4. PoolTypeOK'
  BY <1>1, <1>2, <1>3 DEF IInv, PoolTypeOK, PoolConstants
<1>5. Places' /\ Stopping'
  BY <1>1 DEF IInv, Places, Stopping
<1> QED
  BY <1>3, <1>4, <1>5 DEF IInv

\* stop() ends the pool and empties the bench.
LEMMA StopKeeps ==
  ASSUME PoolConstants, IInv, PoolStop
  PROVE  IInv'
<1>1. /\ poolStopper' = "notify" /\ running' = FALSE /\ bench' = <<>>
      /\ poolStopper = "idle" /\ counter' = counter - Len(bench)
      /\ UNCHANGED <<blocked, poolList, client, poolListener, unannounced>>
      /\ UNCHANGED <<finished, lateClients, gets, cleaner>>
  BY DEF PoolStop
<1>2. bench' \in Seq(BOOLEAN) /\ Len(bench') = 0 /\ Len(bench) \in Nat
      /\ counter \in Nat
  BY <1>1, SizesAreNumbers DEF IInv
<1>3. counter' \in 0 .. MaxResources /\ Exact' /\ ThreadsOffered' /\ CoroutinesOffered'
  <2>1. counter' = counter - (Len(bench) - 0) /\ 0 \in Nat /\ 0 <= Len(bench)
    BY <1>1, <1>2
  <2>2. UNCHANGED <<blocked, poolList, client, poolListener,
                    unannounced>> /\ (running' => running)
    BY <1>1
  <2> QED
    BY <1>2, <2>1, <2>2, BenchShrinks
<1>4. PoolTypeOK'
  <2>1. running' \in BOOLEAN
    <3>1. running' = FALSE
      BY <1>1
    <3> QED
      BY <3>1, Zenon
  <2>2. Len(bench') <= MaxResources
    BY <1>2 DEF PoolConstants
  <2> QED
    BY <1>1, <1>2, <1>3, <2>1, <2>2 DEF IInv, PoolTypeOK
<1>5. Places' /\ Stopping'
  BY <1>1 DEF IInv, Places, Stopping
<1> QED
  BY <1>3, <1>4, <1>5 DEF IInv

\* Once the pool is stopped everybody may be woken at once.
LEMMA AllWokenKeep ==
  ASSUME PoolConstants, IInv, ~ running, NEW woken \in SUBSET (blocked \cup poolList),
         blocked' = blocked \ woken, poolList' = poolList \ woken, client' = Resume(client, woken),
         UNCHANGED <<counter, bench, running, finished, poolListener, lateClients, gets>>,
         UNCHANGED unannounced, cleaner' \in {"loop", "scan", "clear", "notify", "exit"},
         poolStopper' \in {"notifyList", "wait", poolStopper},
         poolStopper # "idle" \/ poolStopper' = "idle",
         "stopper" \in blocked' => poolStopper' = "blocked"
  PROVE  IInv'
<1>1. /\ client' \in [Clients -> Steps]
      /\ \A d \in Clients : client'[d] = IF d \in woken THEN "try" ELSE client[d]
      /\ Held' = Held
  BY WakingMoves DEF IInv, Held
<1>2. PoolTypeOK'
  <2>1. /\ blocked' \subseteq PoolThreads \cup {"stopper"} /\ poolList' \subseteq PoolCoroutines
        /\ poolStopper' \in {"idle", "notify", "notifyList", "wait", "blocked", "done"}
    BY DEF IInv, PoolTypeOK
  <2>2. /\ UNCHANGED <<counter, bench, running, finished>>
        /\ UNCHANGED <<poolListener, lateClients, gets, unannounced>>
    OBVIOUS
  <2>3. /\ counter' \in 0 .. MaxResources /\ bench' \in Seq(BOOLEAN) /\ Len(bench') <= MaxResources
        /\ running' \in BOOLEAN /\ finished' \in BOOLEAN /\ unannounced' \in BOOLEAN
    BY <2>2 DEF IInv, PoolTypeOK
  <2>4. /\ poolListener' \in [PoolCoroutines -> {"none", "new", "first", "all"}]
        /\ lateClients' \subseteq Clients /\ gets' \in [Clients -> 0 .. Gets]
    BY <2>2 DEF IInv, PoolTypeOK
  <2>5. client' \in [Clients -> {"idle", "try", "blocked", "add", "listed", "create",
                                 "use", "notify", "notifyList"}]
    BY <1>1 DEF Steps
  <2>6. cleaner' \in {"loop", "scan", "clear", "notify", "exit"}
    OBVIOUS
  <2> QED
    BY <2>1, <2>3, <2>4, <2>5, <2>6 DEF PoolTypeOK
<1>3. Places'
  <2>1. blocked \cap PoolThreads \subseteq Clients /\ poolList \subseteq Clients
    BY DEF IInv, PoolTypeOK, Clients
  <2> QED
    BY <1>1, <2>1 DEF IInv, Places
<1>4. Stopping'
  BY DEF IInv, Stopping
<1>5. Exact'
  <2>1. counter' = counter /\ bench' = bench /\ Exact
    BY DEF IInv
  <2> HIDE DEF Held
  <2> QED
    BY <1>1, <2>1 DEF Exact
<1>6. ThreadsOffered' /\ CoroutinesOffered'
  BY DEF ThreadsOffered, CoroutinesOffered
<1> QED
  BY <1>2, <1>3, <1>4, <1>5, <1>6 DEF IInv

\* The cleanup task that has finished wakes everyone who blocks.
LEMMA CleanerNotifyKeeps ==
  ASSUME PoolConstants, IInv, CleanerNotify
  PROVE  IInv'
<1>1. /\ cleaner' = "exit" /\ blocked' = {} /\ client' = Resume(client, blocked)
      /\ poolStopper' = ResumeStopper(blocked) /\ cleaner = "notify"
      /\ UNCHANGED <<counter, bench, running, finished, poolListener, lateClients, gets>>
      /\ UNCHANGED <<unannounced, poolList>>
  BY DEF CleanerNotify, shared
<1>2. blocked' = blocked \ blocked /\ poolList' = poolList \ blocked
  BY <1>1 DEF IInv, Places, PoolTypeOK, PoolConstants, Clients
<1>3. ~ running /\ poolStopper' \in {"notifyList", "wait", poolStopper}
      /\ (poolStopper # "idle" \/ poolStopper' = "idle")
  BY <1>1 DEF IInv, Stopping, ResumeStopper, Places
<1>4. /\ cleaner' \in {"loop", "scan", "clear", "notify", "exit"}
      /\ ("stopper" \in blocked' => poolStopper' = "blocked")
      /\ blocked \in SUBSET (blocked \cup poolList)
  BY <1>1
<1> QED
  BY <1>1, <1>2, <1>3, <1>4, AllWokenKeep

\* stop() wakes the threads.
LEMMA StopNotifyKeeps ==
  ASSUME PoolConstants, IInv, StopNotify
  PROVE  IInv'
<1>1. /\ poolStopper = "notify" /\ poolStopper' = "notifyList" /\ blocked' = {}
      /\ client' = Resume(client, blocked) /\ cleaner' = cleaner
      /\ UNCHANGED <<counter, bench, running, finished, poolListener, lateClients, gets>>
      /\ UNCHANGED <<unannounced, poolList>>
  BY DEF StopNotify, shared
<1>2. blocked' = blocked \ blocked /\ poolList' = poolList \ blocked
  BY <1>1 DEF IInv, Places, PoolTypeOK, PoolConstants, Clients
<1>3. ~ running /\ poolStopper' \in {"notifyList", "wait", poolStopper}
      /\ (poolStopper # "idle" \/ poolStopper' = "idle")
  BY <1>1 DEF IInv, Stopping
<1>4. /\ cleaner' \in {"loop", "scan", "clear", "notify", "exit"}
      /\ ("stopper" \in blocked' => poolStopper' = "blocked")
      /\ blocked \in SUBSET (blocked \cup poolList)
  BY <1>1 DEF IInv, PoolTypeOK
<1> QED
  BY <1>1, <1>2, <1>3, <1>4, AllWokenKeep

\* stop() wakes the coroutines.
LEMMA StopNotifyListKeeps ==
  ASSUME PoolConstants, IInv, StopNotifyList
  PROVE  IInv'
<1>1. /\ poolStopper = "notifyList" /\ poolStopper' = "wait" /\ blocked' = blocked
      /\ poolList' = poolList \ poolList /\ client' = Resume(client, poolList) /\ cleaner' = cleaner
      /\ UNCHANGED <<counter, bench, running, finished, poolListener, lateClients, gets>>
      /\ UNCHANGED unannounced
  BY DEF StopNotifyList, shared, WakeCoroutines, Resume
<1>2. blocked' = blocked \ poolList
  BY <1>1 DEF IInv, Places, PoolTypeOK, PoolConstants, Clients
<1>3. ~ running /\ poolStopper' \in {"notifyList", "wait", poolStopper}
      /\ (poolStopper # "idle" \/ poolStopper' = "idle")
  BY <1>1 DEF IInv, Stopping
<1>4. /\ cleaner' \in {"loop", "scan", "clear", "notify", "exit"}
      /\ ("stopper" \in blocked' => poolStopper' = "blocked")
      /\ poolList \in SUBSET (blocked \cup poolList)
  BY <1>1 DEF IInv, PoolTypeOK, Places
<1> QED
  BY <1>1, <1>2, <1>3, <1>4, AllWokenKeep

\* The other steps.
LEMMA RestKeep ==
  ASSUME PoolConstants, IInv, CleanerLoop \/ StopWait \/ UNCHANGED poolVars
  PROVE  IInv'
<1>1. /\ UNCHANGED <<counter, bench, running, unannounced, poolList, client,
                     poolListener>>
      /\ UNCHANGED <<finished, lateClients, gets>>
      /\ blocked' \cap PoolThreads = blocked \cap PoolThreads
  BY DEF CleanerLoop, StopWait, shared, poolVars, PoolConstants, Clients
<1>2. PoolTypeOK' /\ Places' /\ Stopping'
  <2>1. CASE CleanerLoop
    BY <1>1, <2>1 DEF CleanerLoop, IInv, PoolTypeOK, Places, Stopping
  <2>2. CASE StopWait
    BY <1>1, <2>2 DEF StopWait, IInv, PoolTypeOK, Places, Stopping
  <2>3. CASE UNCHANGED poolVars
    BY <2>3 DEF poolVars, IInv, PoolTypeOK, Places, Stopping
  <2> QED
    BY <2>1, <2>2, <2>3
<1>3. Exact' /\ ThreadsOffered' /\ CoroutinesOffered'
  <2>1. /\ Held' = Held /\ TryingT' = TryingT /\ TryingC' = TryingC
        /\ Notifying' = Notifying /\ Informing' = Informing /\ Listening' = Listening
    BY <1>1 DEF Held, TryingT, TryingC, Notifying, Informing, Listening
  <2>2. /\ counter' = counter /\ bench' = bench /\ poolList' = poolList
        /\ (running' <=> running) /\ (unannounced' <=> unannounced)
        /\ Exact /\ ThreadsOffered /\ CoroutinesOffered
    BY <1>1 DEF IInv
  <2> HIDE DEF Held, TryingT, TryingC, Notifying, Informing, Listening
  <2> QED
    BY <1>1, <2>1, <2>2 DEF Exact, ThreadsOffered, CoroutinesOffered
<1> QED
  BY <1>2, <1>3 DEF IInv

-----------------------------------------------------------------------------
(* The theorems. *)

\* A new pool.
LEMMA InitHolds ==
  ASSUME PoolConstants, PoolInit
  PROVE  IInv
<1>1. PoolTypeOK
  <2>1. bench \in Seq(BOOLEAN) /\ Len(bench) = 0 /\ MaxResources \in Nat /\ Gets \in Nat
    BY DEF PoolInit, PoolConstants
  <2>2. Len(bench) <= MaxResources /\ 0 \in 0 .. MaxResources /\ Gets \in 0 .. Gets
    BY <2>1
  <2> QED
    BY <2>1, <2>2 DEF PoolInit, PoolTypeOK
<1>2. Places /\ Stopping
  BY DEF PoolInit, Places, Stopping
<1>3. Held = 0
  <2>1. {c \in Clients : client[c] \in {"create", "use"}} = {}
    BY DEF PoolInit
  <2> QED
    BY <2>1, FS_EmptySet DEF Held, CountIn
<1>4. Exact
  BY <1>3 DEF PoolInit, Exact
<1>5. ThreadsOffered
  BY DEF PoolInit, ThreadsOffered
<1>6. CoroutinesOffered
  <2>1. Cardinality(poolList) = 0
    BY FS_EmptySet DEF PoolInit
  <2>2. 0 <= Listening
    BY CountsAreNumbers
  <2> QED
    BY <2>1, <2>2 DEF CoroutinesOffered
<1> QED
  BY <1>1, <1>2, <1>4, <1>5, <1>6 DEF IInv

\* Every step keeps the invariant.
LEMMA NextKeeps ==
  ASSUME PoolConstants, IInv, [PoolNext]_poolVars
  PROVE  IInv'
<1>1. ASSUME NEW c \in Clients, Ask(c) \/ Client(c) \/ TimeUp(c) \/ TimeUpListed(c)
      PROVE  IInv'
  <2>1. CASE Ask(c)
    BY <2>1, AskKeeps
  <2>2. CASE Client(c)
    <3>1. CASE c \in PoolThreads /\ GetThread(c)
      BY <3>1, GetThreadKeeps
    <3>2. CASE c \in PoolCoroutines /\ GetCoroutine(c)
      BY <3>2, GetCoroutineKeeps
    <3>3. CASE c \in PoolCoroutines /\ PoolAddToList(c)
      BY <3>3, AddToListKeeps
    <3>4. CASE Created(c)
      BY <3>4, CreatedKeeps
    <3>5. CASE CreateFailed(c)
      BY <3>5, FailedKeeps
    <3>6. CASE Release(c)
      BY <3>6, ReleaseKeeps
    <3>7. CASE NotifyOne(c)
      BY <3>7, NotifyOneKeeps
    <3>8. CASE NotifyFirst(c)
      BY <3>8, NotifyFirstKeeps
    <3> QED
      BY <2>2, <3>1, <3>2, <3>3, <3>4, <3>5, <3>6, <3>7, <3>8 DEF Client
  <2>3. CASE TimeUp(c)
    BY <2>3, TimeUpKeeps
  <2>4. CASE TimeUpListed(c)
    BY <2>4, TimeUpListedKeeps
  <2> QED
    BY <1>1, <2>1, <2>2, <2>3, <2>4
<1>2. ASSUME NEW c \in PoolCoroutines, Listener(c)
      PROVE  IInv'
  BY <1>2, OnNewItemKeeps, NotifyNewKeeps DEF Listener
<1>3. ASSUME NEW i \in DOMAIN bench, Expire(i)
      PROVE  IInv'
  BY <1>3, ExpireKeeps
<1>4. CASE Cleaner
  BY <1>4, RestKeep, CleanerScanKeeps, CleanerClearKeeps, CleanerNotifyKeeps DEF Cleaner
<1>5. CASE PoolStop
  BY <1>5, StopKeeps
<1>6. CASE Stopper
  BY <1>6, RestKeep, StopNotifyKeeps, StopNotifyListKeeps DEF Stopper
<1>7. CASE UNCHANGED poolVars
  BY <1>7, RestKeep
<1> QED
  BY <1>1, <1>2, <1>3, <1>4, <1>5, <1>6, <1>7 DEF PoolNext

\* Every invariant below follows from the inductive one.
LEMMA Inductive ==
  ASSUME PoolConstants
  PROVE  PoolSpec => []IInv
<1>1. PoolInit => IInv
  BY InitHolds
<1>2. IInv /\ [PoolNext]_poolVars => IInv'
  BY NextKeeps
<1> QED
  BY <1>1, <1>2, PTL DEF PoolSpec

\* Every variable has its type; in particular getCounter() stays between 0 and
\* m_maxResources (Pool.hpp:250-276, 310-345).
THEOREM TypeCorrect ==
  ASSUME PoolConstants
  PROVE  PoolSpec => []PoolTypeOK
<1>1. IInv => PoolTypeOK
  BY DEF IInv
<1> QED
  BY <1>1, Inductive, PTL

\* The counter counts the resources "both acquired and available", through
\* failed creations, expiry and stop (Pool.hpp:136-202, 258-276, 318-345,
\* 372-385).
THEOREM CountsResources ==
  ASSUME PoolConstants
  PROVE  PoolSpec => []CounterExact
<1>1. IInv => CounterExact
  BY DEF IInv, Exact, Held, CountIn, CounterExact, Holding
<1> QED
  BY <1>1, Inductive, PTL

\* When stop() has returned the pool keeps no resource (Pool.hpp:372-396).
THEOREM KeepsNothing ==
  ASSUME PoolConstants
  PROVE  PoolSpec => []EmptyAfterStop
<1>1. IInv => EmptyAfterStop
  <2>1. ASSUME IInv, poolStopper = "done"
        PROVE  bench = <<>> /\ counter = Cardinality(Holding)
    <3>1. bench = <<>>
      BY <2>1 DEF IInv, Stopping
    <3>2. counter = Held + 0 /\ Held = Cardinality(Holding)
      BY <2>1, <3>1 DEF IInv, Exact, Held, CountIn, Holding
    <3>3. Held \in Nat
      BY CountsAreNumbers
    <3> QED
      BY <3>1, <3>2, <3>3
  <2> QED
    BY <2>1 DEF EmptyAfterStop
<1> QED
  BY <1>1, Inductive, PTL

\* A slot that is free while somebody waits is on its way to a waiter: no
\* wakeup is lost between release() and get() or getAsync(), however many
\* threads and coroutines share the pool (Pool.hpp:119-157, 236-345).
THEOREM SlotsReachWaiters ==
  ASSUME PoolConstants
  PROVE  PoolSpec => []SlotsOffered
<1>1. ASSUME IInv
      PROVE  SlotsOffered
  <2>1. /\ Held = Cardinality(Holding)
        /\ TryingT = Cardinality({c \in PoolThreads : client[c] = "try"})
        /\ TryingC = Cardinality({c \in PoolCoroutines : client[c] = "try"})
        /\ Notifying = Cardinality({c \in Clients : client[c] = "notify"})
        /\ Informing = Cardinality({c \in Clients : client[c] \in {"notify", "notifyList"}})
        /\ Listening = Cardinality({c \in PoolCoroutines : poolListener[c] \in {"new", "first"}})
    BY DEF Held, TryingT, TryingC, Notifying, Informing, Listening, CountIn, Holding
  <2>2. /\ Held \in Nat /\ TryingT \in Nat /\ TryingC \in Nat /\ MaxResources \in Nat
        /\ Notifying \in Nat /\ Informing \in Nat /\ Listening \in Nat
        /\ Cardinality(poolList) \in Nat
    BY <1>1, CountsAreNumbers, SizesAreNumbers DEF IInv
  <2>3. Cardinality(blocked \cap PoolThreads) \in Nat
    BY FS_Subset, FS_CardinalityType DEF PoolConstants
  <2>4. ThreadsOffered /\ CoroutinesOffered
    BY <1>1 DEF IInv
  <2> HIDE DEF Held, TryingT, TryingC, Notifying, Informing, Listening
  <2>5. FreeSlotOffered
    <3>1. CASE blocked \cap PoolThreads = {}
      <4>1. Cardinality(blocked \cap PoolThreads) = 0
        BY <3>1, FS_EmptySet
      <4> QED
        BY <4>1, <2>1, <2>2 DEF FreeSlotOffered, SlotsOwed, FreeSlots
    <3>2. CASE blocked \cap PoolThreads # {}
      BY <3>2, <2>1, <2>2, <2>3, <2>4 DEF FreeSlotOffered, SlotsOwed, FreeSlots, ThreadsOffered
    <3> QED
      BY <3>1, <3>2
  <2>6. FreeSlotOfferedAsync
    BY <2>1, <2>2, <2>4 DEF FreeSlotOfferedAsync, SlotsOwed, FreeSlots, CoroutinesOffered
  <2> QED
    BY <2>5, <2>6 DEF SlotsOffered
<1> QED
  BY <1>1, Inductive, PTL

\* Together: the count is exact, a free slot is on its way to whoever waits, and a stopped
\* pool is empty (Pool.hpp:119-396).
THEOREM PoolIsSound ==
  ASSUME PoolConstants
  PROVE  PoolSpec => []PoolKeepsCount
<1>1. CounterExact /\ SlotsOffered /\ EmptyAfterStop => PoolKeepsCount
  BY DEF PoolKeepsCount
<1> QED
  BY <1>1, CountsResources, SlotsReachWaiters, KeepsNothing, PTL

-----------------------------------------------------------------------------
(* ConditionVariable: somebody is on the way for every item, or the flag is   *)
(* up for those who are being listed.                                         *)

UserSteps == {"idle", "act", "onLocked", "add", "listed", "ready", "returned", "lock",
              "change", "set", "notify"}

ConditionTypes ==
  /\ items \in Nat /\ owner \in Users \cup {NoOne} /\ notified \in BOOLEAN
  /\ waiter \in [Users -> UserSteps]
  /\ waitListener \in [Waiters -> {"none", "new", "first"}]

\* Only the owner of the lock looks at the items, takes one or adds one.
OwnersInside ==
  /\ \A w \in Waiters : waiter[w] \in {"onLocked", "ready"} => owner = w
  /\ \A n \in Notifiers : waiter[n] = "change" => owner = n
  /\ \A w \in Waiters : waiter[w] = "ready" => items > 0

\* The list holds those who sleep in it; a listener runs after its insertion.
ListIsKnown ==
  /\ waitList = {w \in Waiters : waiter[w] = "listed"}
  /\ \A w \in Waiters : waitListener[w] # "none" => waiter[w] \in {"listed", "act"}

Looking == {w \in Waiters : waiter[w] \in {"act", "onLocked", "ready"}}
Setting == {n \in Notifiers : waiter[n] = "set"}
Telling == {n \in Notifiers : waiter[n] \in {"set", "notify"}}
Catching == {w \in Waiters : \/ waitListener[w] = "first"
                             \/ waitListener[w] = "new" /\ notified}

\* m_notified is down only while every item that came since is still to be told of.
FlagTellsOfItems == ~notified => items <= Cardinality(Setting)

\* Somebody is on the way for every item, or the flag is up and whoever is listed has
\* a listener that will see it.
SomebodyComes ==
  \/ items <= Cardinality(Looking) + Cardinality(Telling) + Cardinality(Catching)
  \/ notified /\ Cardinality(waitList) <= Cardinality(Catching)

ConditionInv ==
  ConditionTypes /\ OwnersInside /\ ListIsKnown /\ FlagTellsOfItems /\ SomebodyComes

\* The sets that are counted are finite.
LEMMA CountedAreFinite ==
  ASSUME NEW S \in SUBSET Users
  PROVE  IsFiniteSet(S) /\ Cardinality(S) \in Nat
<1>1. IsFiniteSet(Users)
  BY ConditionConstants, FS_Union DEF Users
<1> QED
  BY <1>1, FS_Subset, FS_CardinalityType

\* What the counting parts of the invariant speak of, now and after a step.
CountsAreNumbersNow ==
  /\ Looking \in SUBSET Users /\ Setting \in SUBSET Users /\ Telling \in SUBSET Users
  /\ Catching \in SUBSET Users /\ waitList \in SUBSET Users
  /\ Cardinality(Looking) \in Nat /\ Cardinality(Setting) \in Nat
  /\ Cardinality(Telling) \in Nat /\ Cardinality(Catching) \in Nat
  /\ Cardinality(waitList) \in Nat /\ Cardinality(Setting) <= Cardinality(Telling)

\* The counts are natural.
LEMMA CountedNow == ListIsKnown => CountsAreNumbersNow
<1> SUFFICES ASSUME ListIsKnown PROVE CountsAreNumbersNow
  OBVIOUS
<1>1. /\ Looking \in SUBSET Users /\ Setting \in SUBSET Users /\ Telling \in SUBSET Users
      /\ Catching \in SUBSET Users /\ waitList \in SUBSET Users
  BY DEF Looking, Setting, Telling, Catching, ListIsKnown, Users
<1>2. Setting \subseteq Telling
  BY DEF Setting, Telling
<1>3. IsFiniteSet(Telling)
  BY <1>1, CountedAreFinite
<1>4. Cardinality(Setting) <= Cardinality(Telling)
  BY <1>2, <1>3, FS_Subset
<1> QED
  BY <1>1, <1>4, CountedAreFinite DEF CountsAreNumbersNow

\* One element more.
LEMMA OneMore ==
  ASSUME NEW S \in SUBSET Users, NEW T, NEW x \in Users, x \notin S, T = S \cup {x}
  PROVE  Cardinality(T) = Cardinality(S) + 1
BY CountedAreFinite, FS_AddElement

\* One element less.
LEMMA OneLess ==
  ASSUME NEW S \in SUBSET Users, NEW T, NEW x \in S, T = S \ {x}
  PROVE  Cardinality(T) = Cardinality(S) - 1
BY CountedAreFinite, FS_RemoveElement

\* A larger set has no fewer elements.
LEMMA NoneLess ==
  ASSUME NEW S \in SUBSET Users, NEW T \in SUBSET Users, S \subseteq T
  PROVE  Cardinality(S) <= Cardinality(T)
BY CountedAreFinite, FS_Subset

\* Nobody waits and nothing is there.
LEMMA ConditionInitially == ASSUME ConditionInit PROVE ConditionInv
<1> USE ConditionConstants DEF ConditionInit
<1>1. ConditionTypes /\ OwnersInside
  BY DEF ConditionTypes, OwnersInside, UserSteps, Users
<1>2. ListIsKnown
  BY DEF ListIsKnown, Users
<1>3. FlagTellsOfItems /\ SomebodyComes
  BY <1>2, CountedNow DEF FlagTellsOfItems, SomebodyComes, CountsAreNumbersNow
<1> QED
  BY <1>1, <1>2, <1>3 DEF ConditionInv

\* Every step keeps the types, the owner and the list.
LEMMA ListAndOwner ==
  ASSUME ConditionInv, ConditionNext
  PROVE  ConditionTypes' /\ OwnersInside' /\ ListIsKnown'
<1> USE ConditionConstants DEF ConditionInv, ConditionTypes, OwnersInside, ListIsKnown,
        WaiterGoto, UserSteps, Users
<1>1. ASSUME NEW w \in Waiters, ConditionWait(w)
      PROVE  ConditionTypes' /\ OwnersInside' /\ ListIsKnown'
  BY <1>1 DEF ConditionWait
<1>2. ASSUME NEW w \in Waiters, Lock(w)
      PROVE  ConditionTypes' /\ OwnersInside' /\ ListIsKnown'
  BY <1>2 DEF Lock
<1>3. ASSUME NEW w \in Waiters, Satisfied(w)
      PROVE  ConditionTypes' /\ OwnersInside' /\ ListIsKnown'
  BY <1>3 DEF Satisfied
<1>4. ASSUME NEW w \in Waiters, Unsatisfied(w)
      PROVE  ConditionTypes' /\ OwnersInside' /\ ListIsKnown'
  BY <1>4 DEF Unsatisfied
<1>5. ASSUME NEW w \in Waiters, AddWaiter(w)
      PROVE  ConditionTypes' /\ OwnersInside' /\ ListIsKnown'
  BY <1>5 DEF AddWaiter
<1>6. ASSUME NEW w \in Waiters, ConditionOnNewItem(w)
      PROVE  ConditionTypes' /\ OwnersInside' /\ ListIsKnown'
  BY <1>6 DEF ConditionOnNewItem
<1>7. ASSUME NEW w \in Waiters, NotifyNewWaiter(w)
      PROVE  ConditionTypes' /\ OwnersInside' /\ ListIsKnown'
  BY <1>7 DEF NotifyNewWaiter, WaitersWoken, NotifiedWaiters
<1>8. ASSUME NEW w \in Waiters, Use(w)
      PROVE  ConditionTypes' /\ OwnersInside' /\ ListIsKnown'
  BY <1>8 DEF Use
<1>9. ASSUME NEW w \in Waiters, Elapse(w)
      PROVE  ConditionTypes' /\ OwnersInside' /\ ListIsKnown'
  BY <1>9 DEF Elapse
<1>10. ASSUME NEW w \in Waiters, TimeOut(w)
       PROVE  ConditionTypes' /\ OwnersInside' /\ ListIsKnown'
  BY <1>10 DEF TimeOut
<1>11. ASSUME NEW n \in Notifiers, BeginChange(n) \/ LockThread(n) \/ Change(n)
       PROVE  ConditionTypes' /\ OwnersInside' /\ ListIsKnown'
  BY <1>11 DEF BeginChange, LockThread, Change
<1>12. ASSUME NEW n \in Notifiers, SetNotified(n)
       PROVE  ConditionTypes' /\ OwnersInside' /\ ListIsKnown'
  BY <1>12 DEF SetNotified
<1>13. ASSUME NEW n \in Notifiers, Notify(n)
       PROVE  ConditionTypes' /\ OwnersInside' /\ ListIsKnown'
  BY <1>13 DEF Notify, WaitersWoken, NotifiedWaiters
<1> HIDE DEF ConditionInv, ConditionTypes, OwnersInside, ListIsKnown
<1> QED
  BY <1>1, <1>2, <1>3, <1>4, <1>5, <1>6, <1>7, <1>8, <1>9, <1>10, <1>11, <1>12, <1>13
     DEF ConditionNext, WaiterStep, NotifierStep

\* A step that leaves the counts and the items alone, or has more on the way.
LEMMA NobodyLeaves ==
  ASSUME ConditionInv, ListIsKnown', ConditionTypes',
         Looking \subseteq Looking', Telling \subseteq Telling',
         Catching \subseteq Catching',
         items' = items, notified => notified',
         waitList' \subseteq waitList \/ ~notified,
         ~notified' => Setting \subseteq Setting'
  PROVE  FlagTellsOfItems' /\ SomebodyComes'
<1>1. CountsAreNumbersNow /\ CountsAreNumbersNow'
  BY CountedNow, PTL DEF ConditionInv
<1>3. /\ Cardinality(Looking) <= Cardinality(Looking)'
      /\ Cardinality(Telling) <= Cardinality(Telling)'
      /\ Cardinality(Catching) <= Cardinality(Catching)'
  BY <1>1, NoneLess DEF CountsAreNumbersNow
<1>4. notified => Cardinality(waitList)' <= Cardinality(waitList)
  BY <1>1, NoneLess DEF CountsAreNumbersNow
<1>5. ~notified' => Cardinality(Setting) <= Cardinality(Setting)'
  BY <1>1, NoneLess DEF CountsAreNumbersNow
<1>6. items \in Nat
  BY DEF ConditionInv, ConditionTypes
<1>7. FlagTellsOfItems'
  BY <1>1, <1>5, <1>6 DEF CountsAreNumbersNow, ConditionInv, FlagTellsOfItems
<1>8. SomebodyComes'
  BY <1>1, <1>3, <1>4, <1>6 DEF CountsAreNumbersNow, ConditionInv, SomebodyComes
<1> QED
  BY <1>7, <1>8

\* Steps that wake nobody up and take nothing.
LEMMA QuietSteps ==
  ASSUME ConditionInv, ListIsKnown', ConditionTypes',
         \/ \E w \in Waiters : ConditionWait(w) \/ Lock(w) \/ Satisfied(w) \/ Elapse(w)
                                 \/ TimeOut(w) \/ ConditionOnNewItem(w)
         \/ \E n \in Notifiers : BeginChange(n) \/ LockThread(n) \/ SetNotified(n)
  PROVE  FlagTellsOfItems' /\ SomebodyComes'
<1> USE ConditionConstants DEF WaiterGoto, Users, UserSteps, Looking, Setting, Telling,
        Catching
<1>1. ConditionTypes /\ ListIsKnown
  BY DEF ConditionInv
<1>2. ASSUME NEW w \in Waiters, ConditionWait(w) \/ Lock(w) \/ Satisfied(w)
      PROVE  FlagTellsOfItems' /\ SomebodyComes'
  <2>1. /\ Looking \subseteq Looking' /\ Telling \subseteq Telling'
        /\ Catching \subseteq Catching' /\ Setting \subseteq Setting'
        /\ UNCHANGED <<items, notified, waitList>>
    BY <1>1, <1>2 DEF ConditionTypes, ConditionWait, Lock, Satisfied
  <2> QED BY <2>1, NobodyLeaves
<1>3. ASSUME NEW w \in Waiters, Elapse(w) \/ ConditionOnNewItem(w)
      PROVE  FlagTellsOfItems' /\ SomebodyComes'
  <2>1. /\ Looking \subseteq Looking' /\ Telling \subseteq Telling'
        /\ Catching \subseteq Catching' /\ Setting \subseteq Setting'
        /\ UNCHANGED <<items, notified, waitList>>
    BY <1>1, <1>3 DEF ConditionTypes, Elapse, ConditionOnNewItem
  <2> QED BY <2>1, NobodyLeaves
<1>4. ASSUME NEW w \in Waiters, TimeOut(w)
      PROVE  FlagTellsOfItems' /\ SomebodyComes'
  <2>1. /\ Looking \subseteq Looking' /\ Telling \subseteq Telling'
        /\ Catching \subseteq Catching' /\ Setting \subseteq Setting'
        /\ UNCHANGED <<items, notified>> /\ waitList' \subseteq waitList
    BY <1>1, <1>4 DEF ConditionTypes, TimeOut
  <2> QED BY <2>1, NobodyLeaves
<1>5. ASSUME NEW n \in Notifiers, BeginChange(n) \/ LockThread(n)
      PROVE  FlagTellsOfItems' /\ SomebodyComes'
  <2>1. /\ Looking \subseteq Looking' /\ Telling \subseteq Telling'
        /\ Catching \subseteq Catching' /\ Setting \subseteq Setting'
        /\ UNCHANGED <<items, notified, waitList>>
    BY <1>1, <1>5 DEF ConditionTypes, BeginChange, LockThread
  <2> QED BY <2>1, NobodyLeaves
<1>6. ASSUME NEW n \in Notifiers, SetNotified(n)
      PROVE  FlagTellsOfItems' /\ SomebodyComes'
  <2>1. /\ Looking \subseteq Looking' /\ Telling \subseteq Telling'
        /\ Catching \subseteq Catching' /\ notified' = TRUE
        /\ UNCHANGED <<items, waitList>>
    BY <1>1, <1>6 DEF ConditionTypes, SetNotified
  <2> QED BY <2>1, NobodyLeaves
<1> QED
  BY <1>2, <1>3, <1>4, <1>5, <1>6

\* The flag goes down only where there is no item.
LEMMA UnsatisfiedKeeps ==
  ASSUME ConditionInv, ListIsKnown', NEW w \in Waiters, Unsatisfied(w)
  PROVE  FlagTellsOfItems' /\ SomebodyComes'
<1>1. CountsAreNumbersNow'
  BY CountedNow, PTL
<1>2. items' = 0
  BY DEF Unsatisfied
<1> QED
  BY <1>1, <1>2 DEF CountsAreNumbersNow, FlagTellsOfItems, SomebodyComes

\* Whoever is listed while the flag is up finds it up in its listener.
LEMMA AddWaiterKeeps ==
  ASSUME ConditionInv, ListIsKnown', NEW w \in Waiters, AddWaiter(w)
  PROVE  FlagTellsOfItems' /\ SomebodyComes'
<1> USE ConditionConstants DEF WaiterGoto, Users, UserSteps
<1>1. CountsAreNumbersNow /\ CountsAreNumbersNow'
  BY CountedNow, PTL DEF ConditionInv
<1>2. /\ waiter[w] = "add" /\ waiter' = [waiter EXCEPT ![w] = "listed"]
      /\ w \notin waitList /\ waitList' = waitList \cup {w}
      /\ waitListener[w] = "none" /\ waitListener' = [waitListener EXCEPT ![w] = "new"]
      /\ UNCHANGED <<items, notified>> /\ items \in Nat /\ notified \in BOOLEAN
  BY DEF AddWaiter, ConditionInv, ConditionTypes, ListIsKnown
<1>3. Looking' = Looking /\ Telling' = Telling /\ Setting' = Setting
  BY <1>2 DEF Looking, Telling, Setting, ConditionInv, ConditionTypes
<1>4. IF notified THEN Catching' = Catching \cup {w} /\ w \notin Catching
                  ELSE Catching' = Catching
  BY <1>2 DEF Catching, ConditionInv, ConditionTypes
<1>5. /\ Cardinality(waitList') = Cardinality(waitList) + 1
      /\ notified => Cardinality(Catching') = Cardinality(Catching) + 1
  BY <1>1, <1>2, <1>4, OneMore DEF CountsAreNumbersNow
<1>6. FlagTellsOfItems'
  BY <1>2, <1>3 DEF FlagTellsOfItems, ConditionInv
<1>7. SomebodyComes'
  BY <1>1, <1>2, <1>3, <1>4, <1>5 DEF SomebodyComes, CountsAreNumbersNow, ConditionInv
<1> QED
  BY <1>6, <1>7

\* An item is taken by one who was on its way to it.
LEMMA UseKeeps ==
  ASSUME ConditionInv, ListIsKnown', NEW w \in Waiters, Use(w)
  PROVE  FlagTellsOfItems' /\ SomebodyComes'
<1> USE ConditionConstants DEF WaiterGoto, Users, UserSteps
<1>1. CountsAreNumbersNow /\ CountsAreNumbersNow'
  BY CountedNow, PTL DEF ConditionInv
<1>2. /\ waiter[w] = "ready" /\ waiter' = [waiter EXCEPT ![w] = "returned"]
      /\ UNCHANGED <<notified, waitList, waitListener>>
      /\ items \in Nat /\ items > 0 /\ items' = items - 1
  BY DEF Use, ConditionInv, ConditionTypes, OwnersInside
<1>3. Telling' = Telling /\ Setting' = Setting /\ Catching' = Catching
  BY <1>2 DEF Telling, Setting, Catching, ConditionInv, ConditionTypes
<1>4. Looking' = Looking \ {w} /\ w \in Looking
  BY <1>2 DEF Looking, ConditionInv, ConditionTypes
<1>5. Cardinality(Looking') = Cardinality(Looking) - 1
  BY <1>1, <1>4, OneLess DEF CountsAreNumbersNow
<1>6. FlagTellsOfItems'
  BY <1>1, <1>2, <1>3 DEF FlagTellsOfItems, ConditionInv, CountsAreNumbersNow
<1>7. SomebodyComes'
  BY <1>1, <1>2, <1>3, <1>5 DEF SomebodyComes, CountsAreNumbersNow, ConditionInv
<1> QED
  BY <1>6, <1>7

\* Whoever adds an item goes on to tell of it.
LEMMA ChangeKeeps ==
  ASSUME ConditionInv, ListIsKnown', NEW n \in Notifiers, Change(n)
  PROVE  FlagTellsOfItems' /\ SomebodyComes'
<1> USE ConditionConstants DEF WaiterGoto, Users, UserSteps
<1>1. CountsAreNumbersNow /\ CountsAreNumbersNow'
  BY CountedNow, PTL DEF ConditionInv
<1>2. /\ waiter[n] = "change" /\ waiter' = [waiter EXCEPT ![n] = "set"]
      /\ UNCHANGED <<notified, waitList, waitListener>>
      /\ items \in Nat /\ items' = items + 1
  BY DEF Change, ConditionInv, ConditionTypes
<1>3. Looking' = Looking /\ Catching' = Catching
  BY <1>2 DEF Looking, Catching, ConditionInv, ConditionTypes
<1>4. /\ Telling' = Telling \cup {n} /\ n \notin Telling
      /\ Setting' = Setting \cup {n} /\ n \notin Setting
  BY <1>2 DEF Telling, Setting, ConditionInv, ConditionTypes
<1>5. /\ Cardinality(Telling') = Cardinality(Telling) + 1
      /\ Cardinality(Setting') = Cardinality(Setting) + 1
  BY <1>1, <1>4, OneMore DEF CountsAreNumbersNow
<1>6. FlagTellsOfItems'
  BY <1>1, <1>2, <1>5 DEF FlagTellsOfItems, ConditionInv, CountsAreNumbersNow
<1>7. SomebodyComes'
  BY <1>1, <1>2, <1>3, <1>5 DEF SomebodyComes, CountsAreNumbersNow, ConditionInv
<1> QED
  BY <1>6, <1>7

\* Whoever wakes another up leaves; the one that it wakes up comes, and if nobody is
\* listed, the flag stays up for those who will be.
LEMMA WakingKeeps ==
  ASSUME ConditionInv, ListIsKnown', NEW S \in SUBSET waitList,
         S = {} => waitList = {},
         waitList' = waitList \ S, UNCHANGED <<items, notified>>,
         Looking' = Looking \cup S, Setting' = Setting,
         \/ /\ Catching' = Catching
            /\ \E n \in Telling \ Setting : Telling' = Telling \ {n}
         \/ /\ Telling' = Telling
            /\ \E w \in Catching : Catching' = Catching \ {w} /\ waitListener[w] = "first",
         waitList' = {} \/ \E v \in waitList : S = {v}
  PROVE  FlagTellsOfItems' /\ SomebodyComes'
<1>1. CountsAreNumbersNow /\ CountsAreNumbersNow'
  BY CountedNow, PTL DEF ConditionInv
<1>2. items \in Nat /\ notified \in BOOLEAN
  BY DEF ConditionInv, ConditionTypes
<1>3. FlagTellsOfItems'
  BY DEF FlagTellsOfItems, ConditionInv
<1>4. \/ /\ Cardinality(Catching') = Cardinality(Catching)
         /\ Cardinality(Telling') = Cardinality(Telling) - 1
      \/ /\ Cardinality(Telling') = Cardinality(Telling)
         /\ Cardinality(Catching') = Cardinality(Catching) - 1
  BY <1>1, OneLess DEF CountsAreNumbersNow
<1>5. CASE waitList' = {}
  <2>1. Cardinality(waitList') = 0
    BY <1>5, FS_EmptySet
  <2>2. CASE notified
    <3>1. notified' /\ Cardinality(waitList)' <= Cardinality(Catching)'
      BY <1>1, <2>1, <2>2 DEF CountsAreNumbersNow
    <3> QED BY <1>3, <3>1 DEF SomebodyComes
  <2>3. CASE ~notified
    BY <1>1, <1>2, <1>3, <2>3 DEF FlagTellsOfItems, SomebodyComes, CountsAreNumbersNow
  <2> QED BY <1>2, <2>2, <2>3
<1>6. CASE \E v \in waitList : S = {v}
  <2>1. PICK v \in waitList : S = {v}
    BY <1>6
  <2>2. v \notin Looking
    BY <2>1 DEF ConditionInv, ListIsKnown, Looking
  <2>3. /\ Cardinality(Looking') = Cardinality(Looking) + 1
        /\ Cardinality(waitList') = Cardinality(waitList) - 1
    BY <1>1, <2>1, <2>2, OneMore, OneLess DEF CountsAreNumbersNow
  <2> QED
    BY <1>1, <1>2, <1>3, <1>4, <2>3 DEF SomebodyComes, ConditionInv, CountsAreNumbersNow
<1> QED
  BY <1>3, <1>5, <1>6

\* The listener of a coroutine that came late notifies the list.
LEMMA NotifyNewWaiterKeeps ==
  ASSUME ConditionInv, ListIsKnown', NEW w \in Waiters, NotifyNewWaiter(w)
  PROVE  FlagTellsOfItems' /\ SomebodyComes'
<1> USE ConditionConstants DEF Users, UserSteps
<1>1. PICK S \in SUBSET waitList :
        /\ S = {} => waitList = {}
        /\ S = {} \/ \E v \in waitList : S = {v}
        /\ waitList' = waitList \ S /\ waiter' = WaitersWoken(S)
        /\ waitListener[w] = "first" /\ waitListener' = [waitListener EXCEPT ![w] = "none"]
        /\ UNCHANGED <<items, notified>>
  BY DEF NotifyNewWaiter, NotifiedWaiters
<1>2. \A c \in Users : waiter'[c] = IF c \in S THEN "act" ELSE waiter[c]
  BY <1>1 DEF WaitersWoken
<1>3. Looking' = Looking \cup S /\ Setting' = Setting /\ Telling' = Telling
  BY <1>1, <1>2 DEF Looking, Setting, Telling, ConditionInv, ListIsKnown
<1>4. Catching' = Catching \ {w} /\ w \in Catching
  BY <1>1 DEF Catching, ConditionInv, ConditionTypes
<1> QED
  BY <1>1, <1>3, <1>4, WakingKeeps

\* A notifier wakes the waiters it takes off the list.
LEMMA NotifyKeeps ==
  ASSUME ConditionInv, ListIsKnown', NEW n \in Notifiers, Notify(n)
  PROVE  FlagTellsOfItems' /\ SomebodyComes'
<1> USE ConditionConstants DEF Users, UserSteps
<1>0. PICK S \in NotifiedWaiters(waitList) \cup {waitList} :
        /\ waitList' = waitList \ S /\ waiter' = [WaitersWoken(S) EXCEPT ![n] = "idle"]
        /\ waiter[n] = "notify" /\ UNCHANGED <<items, notified, waitListener>>
  BY DEF Notify
<1>1. /\ S \in SUBSET waitList /\ (S = {} => waitList = {})
      /\ S = waitList \/ \E v \in waitList : S = {v}
  BY DEF NotifiedWaiters
<1>2. \A c \in Users : waiter'[c] = IF c = n THEN "idle"
                                    ELSE IF c \in S THEN "act" ELSE waiter[c]
  BY <1>0, <1>1 DEF WaitersWoken
<1>3. Looking' = Looking \cup S /\ Setting' = Setting /\ Catching' = Catching
  BY <1>0, <1>1, <1>2 DEF Looking, Setting, Catching, ConditionInv, ListIsKnown
<1>4. Telling' = Telling \ {n} /\ n \in Telling \ Setting
  BY <1>0, <1>1, <1>2 DEF Telling, Setting, ConditionInv, ListIsKnown
<1> QED
  BY <1>0, <1>1, <1>3, <1>4, WakingKeeps

\* The invariant of the condition variable.
LEMMA ConditionInvariance == ConditionSpec => []ConditionInv
<1>1. ConditionInit => ConditionInv
  BY ConditionInitially
<1>2. ConditionInv /\ [ConditionNext]_conditionVars => ConditionInv'
  <2> SUFFICES ASSUME ConditionInv, [ConditionNext]_conditionVars PROVE ConditionInv'
    OBVIOUS
  <2>1. CASE UNCHANGED conditionVars
    BY <2>1 DEF conditionVars, ConditionInv, ConditionTypes, OwnersInside, ListIsKnown,
       FlagTellsOfItems, SomebodyComes, Looking, Setting, Telling, Catching
  <2>2. CASE ConditionNext
    <3>1. ConditionTypes' /\ OwnersInside' /\ ListIsKnown'
      BY <2>2, ListAndOwner
    <3>2. FlagTellsOfItems' /\ SomebodyComes'
      BY <2>2, <3>1, QuietSteps, UnsatisfiedKeeps, AddWaiterKeeps, UseKeeps, ChangeKeeps,
         NotifyNewWaiterKeeps, NotifyKeeps DEF ConditionNext, WaiterStep, NotifierStep
    <3> QED
      BY <3>1, <3>2 DEF ConditionInv
  <2> QED BY <2>1, <2>2
<1> QED BY <1>1, <1>2, PTL DEF ConditionSpec

\* A wait comes back with the lock and an item, and while coroutines are listed and
\* there are items, as many clients are on their way to look or to wake one
\* (async/ConditionVariable.cpp).
THEOREM NoWakeupIsLost == ConditionSpec => []WakeupsKept
<1>1. ConditionInv => WakeupsKept
  <2> SUFFICES ASSUME ConditionInv PROVE WakeupsKept
    OBVIOUS
  <2>1. ReadyOwns
    BY DEF ReadyOwns, ConditionInv, OwnersInside
  <2>2. NotificationKept
    <3>1. CountsAreNumbersNow /\ items \in Nat
      BY CountedNow DEF ConditionInv, ConditionTypes
    <3>2. ItemsOwed <= items /\ ItemsOwed <= Cardinality(waitList)
      BY <3>1 DEF ItemsOwed, CountsAreNumbersNow
    <3>3. ItemsOwed \in Nat
      BY <3>1 DEF ItemsOwed, CountsAreNumbersNow
    <3>4. ItemsOwed <= Cardinality(Looking) + Cardinality(Telling) + Cardinality(Catching)
      BY <3>1, <3>2, <3>3 DEF ConditionInv, SomebodyComes, CountsAreNumbersNow
    <3> QED
      BY <3>4 DEF NotificationKept, Looking, Telling, Catching
  <2> QED BY <2>1, <2>2 DEF WakeupsKept
<1> QED BY <1>1, ConditionInvariance, PTL

-----------------------------------------------------------------------------
(* FIFOBuffer *)

\* The positions only fail to tell empty from full when canRead does.
Inv == TypeOK /\ (~ canRead => readPosition = writePosition)

-----------------------------------------------------------------------------
(* Sizes and positions *)

\* What a read returns is all there is, up to count, and it ends inside the
\* buffer.
LEMMA ReadBounds ==
  ASSUME Inv, NEW count \in Nat, canRead
  PROVE  /\ ReadSize(count) \in 0 .. count
         /\ ReadSize(count) = Least(count, AvailableToRead)
         /\ ReadEnd(count) \in 0 .. N
BY ConstantsAssumption
   DEF Inv, TypeOK, ReadSize, ReadEnd, Least, AvailableToRead

\* The same of write().
LEMMA WriteBounds ==
  ASSUME Inv, NEW count \in Nat, ~ (canRead /\ writePosition = readPosition)
  PROVE  /\ WriteSize(count) \in 0 .. count
         /\ WriteSize(count) = Least(count, AvailableToWrite)
BY ConstantsAssumption DEF Inv, TypeOK, WriteSize, Least, AvailableToWrite

\* The two counts are sizes, and share the buffer.
LEMMA Available ==
  ASSUME Inv
  PROVE  /\ AvailableToRead \in 0 .. N /\ AvailableToWrite \in 0 .. N
         /\ AvailableToRead + AvailableToWrite = N
BY ConstantsAssumption DEF Inv, TypeOK, AvailableToRead, AvailableToWrite

-----------------------------------------------------------------------------
(* Sequences of bytes *)

\* A function on 1 .. n is a sequence of length n.
LEMMA FunctionIsSeq ==
  ASSUME NEW n \in Nat, NEW f \in [1 .. n -> Bytes]
  PROVE  f \in Seq(Bytes) /\ Len(f) = n
<1>1. f \in Seq(Bytes) BY SeqDef
<1> QED BY <1>1

\* The bytes from .. to of a sequence.
LEMMA Part ==
  ASSUME NEW c \in Seq(Bytes), NEW from \in 1 .. Len(c) + 1,
         NEW to \in from - 1 .. Len(c)
  PROVE  /\ SubSeq(c, from, to) \in Seq(Bytes)
         /\ Len(SubSeq(c, from, to)) = to - from + 1
         /\ \A i \in 1 .. to - from + 1 : SubSeq(c, from, to)[i] = c[from + i - 1]
OBVIOUS

\* What memcpy copies out of the buffer.
LEMMA CopyOutBytes ==
  ASSUME Inv, NEW from \in Nat, NEW n \in Nat, from + n <= N
  PROVE  /\ CopyOut(from, n) \in Seq(Bytes)
         /\ Len(CopyOut(from, n)) = n
         /\ \A i \in 1 .. n : CopyOut(from, n)[i] = buffer[from + i - 1]
<1>1. \A i \in 1 .. n : from + i - 1 \in 0 .. N - 1
  BY ConstantsAssumption
<1>2. CopyOut(from, n) \in [1 .. n -> Bytes]
  BY <1>1 DEF CopyOut, Inv, TypeOK
<1> QED BY <1>2, FunctionIsSeq DEF CopyOut

\* The bytes in the buffer are a sequence.
ContentsAre ==
  /\ Contents \in Seq(Bytes)
  /\ Len(Contents) = AvailableToRead
  /\ \A i \in 1 .. AvailableToRead :
       Contents[i] = buffer[Wrap(readPosition + i - 1)]

\* So they are in every state that satisfies the invariant.
LEMMA ContentsBytes == Inv => ContentsAre
<1> SUFFICES ASSUME Inv PROVE ContentsAre
  OBVIOUS
<1>1. AvailableToRead \in 0 .. N BY Available
<1>2. \A i \in 1 .. AvailableToRead : Wrap(readPosition + i - 1) \in 0 .. N - 1
  BY <1>1, ConstantsAssumption DEF Wrap, Inv, TypeOK
<1>3. Contents \in [1 .. AvailableToRead -> Bytes]
  BY <1>2 DEF Contents, Inv, TypeOK
<1>4. Contents \in Seq(Bytes) /\ Len(Contents) = AvailableToRead
  BY <1>1, <1>3, FunctionIsSeq
<1> QED BY <1>4 DEF Contents, ContentsAre

\* The same of the next state.
LEMMA ContentsBytesNext == Inv' => ContentsAre'
BY ContentsBytes, PTL

\* read() and peek() deliver the first bytes of the buffer.
LEMMA CopiedBytes ==
  ASSUME Inv, NEW count \in Nat, canRead
  PROVE  /\ Copied(count) \in Seq(Bytes)
         /\ Len(Copied(count)) = ReadSize(count)
         /\ \A i \in 1 .. ReadSize(count) : Copied(count)[i] = Contents[i]
<1> USE ConstantsAssumption
<1>a. /\ ReadSize(count) \in 0 .. count
      /\ ReadSize(count) = Least(count, AvailableToRead)
  BY ReadBounds
<1>b. AvailableToRead \in 0 .. N
  BY Available
<1>c. ReadSize(count) \in 0 .. AvailableToRead
  BY <1>a, <1>b DEF Least
<1>d. \A i \in 1 .. AvailableToRead : Contents[i] = buffer[Wrap(readPosition + i - 1)]
  BY ContentsBytes DEF ContentsAre
<1>0. \A i \in 1 .. ReadSize(count) : Contents[i] = buffer[Wrap(readPosition + i - 1)]
  BY <1>b, <1>c, <1>d
<1>1. CASE readPosition < writePosition \/ N - readPosition > count
  <2>1. readPosition \in Nat /\ readPosition + ReadSize(count) <= N
    BY <1>1, ConstantsAssumption DEF Inv, TypeOK, ReadSize, Least
  <2>2. Copied(count) = CopyOut(readPosition, ReadSize(count))
    BY <1>1 DEF Copied
  <2>3. \A i \in 1 .. ReadSize(count) : Wrap(readPosition + i - 1) = readPosition + i - 1
    <3>1. readPosition \in Int /\ N \in Int /\ ReadSize(count) \in Int
      BY <1>a, <2>1
    <3> QED BY <2>1, <3>1 DEF Wrap
  <2>4. /\ Copied(count) \in Seq(Bytes)
        /\ Len(Copied(count)) = ReadSize(count)
        /\ \A i \in 1 .. ReadSize(count) :
             Copied(count)[i] = buffer[readPosition + i - 1]
    <3> DEFINE n == ReadSize(count)
               c == CopyOut(readPosition, n)
    <3>1. n \in Nat /\ readPosition \in Nat /\ readPosition + n <= N
      BY <1>a, <2>1
    <3> HIDE DEF n
    <3>2. /\ c \in Seq(Bytes) /\ Len(c) = n
          /\ \A i \in 1 .. n : c[i] = buffer[readPosition + i - 1]
      BY <3>1, CopyOutBytes, Zenon
    <3> QED BY <2>2, <3>2 DEF n
  <2> QED BY <1>0, <2>3, <2>4
<1>2. CASE ~ (readPosition < writePosition \/ N - readPosition > count)
  <2> DEFINE size  == N - readPosition
             size2 == Least(writePosition, count - size)
             s1    == CopyOut(readPosition, size)
             s2    == CopyOut(0, size2)
  <2>1. /\ size \in Nat /\ size2 \in Nat /\ readPosition \in Nat
        /\ readPosition + size = N /\ size2 <= N
        /\ ReadSize(count) = size + size2
    BY <1>2, ConstantsAssumption DEF Inv, TypeOK, ReadSize, Least
  <2>2. Copied(count) = s1 \o s2
    BY <1>2 DEF Copied
  <2>3. /\ s1 \in Seq(Bytes) /\ Len(s1) = size
        /\ \A i \in 1 .. size : s1[i] = buffer[readPosition + i - 1]
    <3>1. readPosition + size <= N BY <2>1
    <3> QED BY <2>1, <3>1, CopyOutBytes
  <2>4. /\ s2 \in Seq(Bytes) /\ Len(s2) = size2
        /\ \A i \in 1 .. size2 : s2[i] = buffer[i - 1]
    <3>1. 0 + size2 <= N BY <2>1
    <3>2. /\ s2 \in Seq(Bytes) /\ Len(s2) = size2
          /\ \A i \in 1 .. size2 : s2[i] = buffer[0 + i - 1]
      BY <2>1, <3>1, CopyOutBytes
    <3> QED BY <2>1, <3>2
  <2> HIDE DEF s1, s2
  <2>5. /\ s1 \o s2 \in Seq(Bytes) /\ Len(s1 \o s2) = size + size2
        /\ \A i \in 1 .. size + size2 :
             (s1 \o s2)[i] = IF i <= size THEN s1[i] ELSE s2[i - size]
    <3>1. /\ s1 \o s2 \in Seq(Bytes) /\ Len(s1 \o s2) = Len(s1) + Len(s2)
          /\ \A i \in 1 .. Len(s1) + Len(s2) :
               (s1 \o s2)[i] = IF i <= Len(s1) THEN s1[i] ELSE s2[i - Len(s1)]
      BY <2>3, <2>4, ConcatProperties, Zenon
    <3>2. Len(s1) = size /\ Len(s2) = size2
      BY <2>3, <2>4
    <3> HIDE DEF size, size2
    <3> QED BY <3>1, <3>2, Zenon
  <2>6. ASSUME NEW i \in 1 .. size + size2
        PROVE  (s1 \o s2)[i] = buffer[Wrap(readPosition + i - 1)]
    <3>1. CASE i <= size
      <4>1. Wrap(readPosition + i - 1) = readPosition + i - 1
        BY <2>1, <3>1, ConstantsAssumption DEF Wrap, Inv, TypeOK
      <4>2. i \in 1 .. size /\ i \in Int
        BY <2>1, <3>1
      <4>3. (s1 \o s2)[i] = s1[i]
        BY <2>5, <3>1
      <4>4. s1[i] = buffer[readPosition + i - 1]
        BY <2>3, <4>2
      <4> QED BY <4>1, <4>3, <4>4
    <3>2. CASE i > size
      <4>1. Wrap(readPosition + i - 1) = (i - size) - 1 /\ i - size \in 1 .. size2
        BY <2>1, <3>2, ConstantsAssumption DEF Wrap, Inv, TypeOK
      <4>2. (s1 \o s2)[i] = s2[i - size]
        BY <2>1, <2>5, <3>2
      <4>3. s2[i - size] = buffer[(i - size) - 1]
        BY <2>4, <4>1
      <4> QED BY <4>1, <4>2, <4>3
    <3>3. i \in Int /\ size \in Int
      BY <2>1
    <3> HIDE DEF size, size2
    <3>4. i <= size \/ i > size
      BY <3>3
    <3> QED BY <3>1, <3>2, <3>4, Zenon
  <2> QED BY <1>0, <2>1, <2>2, <2>5, <2>6
<1> QED BY <1>1, <1>2

-----------------------------------------------------------------------------
(* Taking from the front, appending at the back *)

\* A sequence that begins like d and goes on like e.
LEMMA Splits ==
  ASSUME NEW c \in Seq(Bytes), NEW d \in Seq(Bytes), NEW e \in Seq(Bytes),
         Len(c) = Len(d) + Len(e),
         \A i \in 1 .. Len(d) : c[i] = d[i],
         \A i \in 1 .. Len(e) : c[Len(d) + i] = e[i]
  PROVE  c = d \o e
<1>1. /\ d \o e \in Seq(Bytes) /\ Len(d \o e) = Len(d) + Len(e)
      /\ \A i \in 1 .. Len(d) + Len(e) :
           (d \o e)[i] = IF i <= Len(d) THEN d[i] ELSE e[i - Len(d)]
  BY ConcatProperties, Zenon
<1>2. Len(d) \in Nat /\ Len(e) \in Nat
  BY LenProperties
<1>3. ASSUME NEW i \in 1 .. Len(c) PROVE c[i] = (d \o e)[i]
  <2>1. CASE i <= Len(d)
    <3>1. i \in 1 .. Len(d) /\ i \in 1 .. Len(d) + Len(e)
      BY <1>2, <2>1
    <3> QED BY <1>1, <2>1, <3>1
  <2>2. CASE ~ (i <= Len(d))
    <3>1. /\ i - Len(d) \in 1 .. Len(e) /\ i \in 1 .. Len(d) + Len(e)
          /\ Len(d) + (i - Len(d)) = i
      BY <1>2, <2>2
    <3>2. c[Len(d) + (i - Len(d))] = e[i - Len(d)]
      BY <3>1
    <3> QED BY <1>1, <2>2, <3>1, <3>2
  <2> QED BY <2>1, <2>2
<1> QED BY <1>1, <1>3, SeqEqual, Zenon

\* Moving the read position past n bytes takes exactly those from the front.
LEMMA TakeFront ==
  ASSUME Inv, Inv', canRead, NEW to \in 0 .. N, NEW n \in 0 .. AvailableToRead,
         MoveReadPosition(to),
         n > 0 \/ readPosition # writePosition,
         to = readPosition + n \/ to = readPosition + n - N,
         readPosition < writePosition => to = readPosition + n,
         NEW d \in Seq(Bytes), Len(d) = n, \A i \in 1 .. n : d[i] = Contents[i]
  PROVE  Contents = d \o Contents'
<1> USE ConstantsAssumption
<1>1. AvailableToRead \in 0 .. N /\ n \in Nat
  BY Available
<1>a. /\ readPosition \in 0 .. N /\ writePosition \in 0 .. N /\ N \in Nat \ {0}
      /\ readPosition' = to /\ writePosition' = writePosition
      /\ canRead' = (to # writePosition) /\ buffer' = buffer
  BY DEF MoveReadPosition, Inv, TypeOK
<1>b. AvailableToRead' = IF to = writePosition THEN 0
                         ELSE IF to < writePosition THEN writePosition - to
                         ELSE N - to + writePosition
  BY <1>a DEF AvailableToRead
<1>c. AvailableToRead = IF readPosition < writePosition
                          THEN writePosition - readPosition
                          ELSE N - readPosition + writePosition
  BY DEF AvailableToRead
<1>2. /\ AvailableToRead' = AvailableToRead - n
      /\ AvailableToRead - n \in Nat
  <2>1. CASE readPosition < writePosition
    <3>1. n \in Int /\ n <= writePosition - readPosition /\ to = readPosition + n
      BY <1>1, <1>c, <2>1
    <3> QED BY <1>a, <1>b, <1>c, <2>1, <3>1
  <2>2. CASE ~ (readPosition < writePosition)
    <3>1. n \in Nat /\ n <= N - readPosition + writePosition
      BY <1>1, <1>c, <2>2
    <3>2. CASE to = readPosition + n
      BY <1>a, <1>b, <1>c, <2>2, <3>1, <3>2
    <3>3. CASE to = readPosition + n - N
      BY <1>a, <1>b, <1>c, <2>2, <3>1, <3>3
    <3> QED BY <3>2, <3>3
  <2> QED BY <2>1, <2>2
<1>3. \A i \in 1 .. AvailableToRead - n :
        /\ Wrap(to + i - 1) = Wrap(readPosition + (n + i) - 1)
        /\ n + i \in 1 .. AvailableToRead
  <2> SUFFICES ASSUME NEW i \in 1 .. AvailableToRead - n
               PROVE  /\ Wrap(to + i - 1) = Wrap(readPosition + (n + i) - 1)
                      /\ n + i \in 1 .. AvailableToRead
    OBVIOUS
  <2>1. i \in Nat /\ i >= 1 /\ n + i <= AvailableToRead /\ n + i \in Nat
    BY <1>1, <1>2
  <2>2. CASE to = readPosition + n
    BY <1>1, <1>a, <2>1, <2>2
  <2>3. CASE to = readPosition + n - N
    <3>1. to + i - 1 < N /\ ~ (readPosition + (n + i) - 1 < N)
      BY <1>1, <1>a, <1>c, <2>1, <2>3
    <3> QED BY <1>1, <1>a, <2>1, <2>3, <3>1 DEF Wrap
  <2> QED BY <1>1, <2>1, <2>2, <2>3
<1>4. /\ Contents \in Seq(Bytes) /\ Len(Contents) = AvailableToRead
      /\ \A i \in 1 .. AvailableToRead :
           Contents[i] = buffer[Wrap(readPosition + i - 1)]
  BY ContentsBytes DEF ContentsAre
<1>5. /\ Contents' \in Seq(Bytes) /\ Len(Contents') = AvailableToRead'
      /\ \A i \in 1 .. AvailableToRead' :
           Contents'[i] = buffer'[Wrap(readPosition' + i - 1)]
  BY ContentsBytesNext DEF ContentsAre
<1>6. ASSUME NEW i \in 1 .. Len(Contents')
      PROVE  Contents[Len(d) + i] = Contents'[i]
  <2>1. i \in 1 .. AvailableToRead - n /\ i \in 1 .. AvailableToRead'
    BY <1>2, <1>5
  <2>2. Contents'[i] = buffer[Wrap(to + i - 1)]
    BY <1>5, <1>a, <2>1
  <2>3. Contents[n + i] = buffer[Wrap(readPosition + (n + i) - 1)]
    BY <1>3, <1>4, <2>1
  <2> QED BY <1>3, <2>1, <2>2, <2>3
<1>7. /\ Len(Contents) = Len(d) + Len(Contents')
      /\ \A i \in 1 .. Len(d) : Contents[i] = d[i]
  BY <1>1, <1>2, <1>4, <1>5
<1> QED BY <1>4, <1>5, <1>6, <1>7, Splits, Zenon

\* What memcpy into the buffer stores, and what it leaves alone.
LEMMA CopyInBytes ==
  ASSUME NEW b \in [0 .. N - 1 -> Bytes], NEW to \in Nat, NEW s \in Seq(Bytes),
         to + Len(s) <= N
  PROVE  /\ CopyIn(b, to, s) \in [0 .. N - 1 -> Bytes]
         /\ \A i \in 1 .. Len(s) : CopyIn(b, to, s)[to + i - 1] = s[i]
         /\ \A j \in 0 .. N - 1 :
              j < to \/ j >= to + Len(s) => CopyIn(b, to, s)[j] = b[j]
<1> USE ConstantsAssumption
<1>1. Len(s) \in Nat /\ N \in Nat
  BY LenProperties
<1>2. ASSUME NEW j \in 0 .. N - 1, to <= j, j < to + Len(s)
      PROVE  s[j - to + 1] \in Bytes
  <2>1. j - to + 1 \in 1 .. Len(s)
    BY <1>1, <1>2
  <2> QED BY <2>1, ElementOfSeq
<1>3. CopyIn(b, to, s) \in [0 .. N - 1 -> Bytes]
  BY <1>2 DEF CopyIn
<1>4. ASSUME NEW i \in 1 .. Len(s)
      PROVE  CopyIn(b, to, s)[to + i - 1] = s[i]
  <2>1. /\ to + i - 1 \in 0 .. N - 1 /\ to <= to + i - 1
        /\ to + i - 1 < to + Len(s) /\ (to + i - 1) - to + 1 = i
    BY <1>1
  <2> QED BY <2>1 DEF CopyIn
<1>5. ASSUME NEW j \in 0 .. N - 1, j < to \/ j >= to + Len(s)
      PROVE  CopyIn(b, to, s)[j] = b[j]
  BY <1>1, <1>5 DEF CopyIn
<1> QED BY <1>3, <1>4, <1>5

\* The bytes d go behind the last one of the buffer.
Accepts(d) ==
  /\ d \in Seq(Bytes) /\ Len(d) <= AvailableToWrite
  /\ Len(d) > 0 \/ readPosition # writePosition
  /\ canRead' = TRUE /\ readPosition' = readPosition
  /\ writePosition' \in 0 .. N
  /\ \/ writePosition' = writePosition + Len(d)
     \/ writePosition' = writePosition + Len(d) - N
  /\ writePosition < readPosition => writePosition' = writePosition + Len(d)
  /\ buffer' \in [0 .. N - 1 -> Bytes]
  /\ \A i \in 1 .. Len(d) : buffer'[Wrap(writePosition + i - 1)] = d[i]
  /\ \A j \in 0 .. N - 1 :
       (\A i \in 1 .. Len(d) : j # Wrap(writePosition + i - 1)) => buffer'[j] = buffer[j]

\* Then they are appended to its contents.
LEMMA AppendBack ==
  ASSUME Inv, Inv', NEW d, Accepts(d)
  PROVE  Contents' = Contents \o d
<1> USE ConstantsAssumption
<1> DEFINE n == Len(d)
           a == AvailableToRead
<1>1. d \in Seq(Bytes) /\ n \in Nat
  BY LenProperties DEF Accepts
<1>2. a \in 0 .. N /\ n <= N - a
  BY <1>1, Available DEF Accepts
<1>3. /\ readPosition \in 0 .. N /\ writePosition \in 0 .. N /\ N \in Nat \ {0}
      /\ readPosition' = readPosition /\ canRead' = TRUE
      /\ canRead \in BOOLEAN /\ (~ canRead => readPosition = writePosition)
      /\ writePosition' \in 0 .. N
      /\ n > 0 \/ readPosition # writePosition
      /\ \/ writePosition' = writePosition + n
         \/ writePosition' = writePosition + n - N
      /\ writePosition < readPosition => writePosition' = writePosition + n
  BY DEF Inv, TypeOK, Accepts
<1>4. a = IF ~ canRead THEN 0
          ELSE IF readPosition < writePosition THEN writePosition - readPosition
          ELSE N - readPosition + writePosition
  BY DEF AvailableToRead
<1>5. AvailableToRead' = IF readPosition < writePosition'
                           THEN writePosition' - readPosition
                           ELSE N - readPosition + writePosition'
  BY <1>3 DEF AvailableToRead
<1> HIDE DEF n, a
<1>6. AvailableToRead' = a + n
  <2>1. CASE writePosition' = writePosition + n
    BY <1>1, <1>2, <1>3, <1>4, <1>5, <2>1
  <2>2. CASE writePosition' = writePosition + n - N
    BY <1>1, <1>2, <1>3, <1>4, <1>5, <2>2
  <2> QED BY <1>3, <2>1, <2>2
<1>7. writePosition = readPosition + a \/ writePosition = readPosition + a - N
  BY <1>3, <1>4
<1>8. /\ Contents \in Seq(Bytes) /\ Len(Contents) = a
      /\ \A i \in 1 .. a : Contents[i] = buffer[Wrap(readPosition + i - 1)]
  BY ContentsBytes DEF ContentsAre, a
<1>9. /\ Contents' \in Seq(Bytes) /\ Len(Contents') = a + n
      /\ \A i \in 1 .. a + n : Contents'[i] = buffer'[Wrap(readPosition + i - 1)]
  BY <1>3, <1>6, ContentsBytesNext DEF ContentsAre
<1>10. ASSUME NEW i \in 1 .. Len(Contents)
       PROVE  Contents'[i] = Contents[i]
  <2>1. i \in 1 .. a /\ i \in 1 .. a + n
    BY <1>1, <1>2, <1>8
  <2>2. Wrap(readPosition + i - 1) \in 0 .. N - 1
    BY <1>2, <1>3, <2>1 DEF Wrap
  <2>3. ASSUME NEW k \in 1 .. n
        PROVE  Wrap(readPosition + i - 1) # Wrap(writePosition + k - 1)
    <3>1. k \in Nat /\ i \in Nat /\ 1 <= i /\ i < a + k /\ a + k - i < N
      BY <1>1, <1>2, <2>1
    <3>2. CASE writePosition = readPosition + a
      BY <1>2, <1>3, <3>1, <3>2 DEF Wrap
    <3>3. CASE writePosition = readPosition + a - N
      BY <1>2, <1>3, <3>1, <3>3 DEF Wrap
    <3> QED BY <1>7, <3>2, <3>3
  <2>4. buffer'[Wrap(readPosition + i - 1)] = buffer[Wrap(readPosition + i - 1)]
    BY <2>2, <2>3 DEF Accepts, n
  <2> QED BY <1>8, <1>9, <2>1, <2>4
<1>11. ASSUME NEW i \in 1 .. Len(d)
       PROVE  Contents'[Len(Contents) + i] = d[i]
  <2>1. i \in 1 .. n /\ a + i \in 1 .. a + n /\ i \in Nat
    BY <1>1, <1>2 DEF n
  <2>2. Wrap(readPosition + (a + i) - 1) = Wrap(writePosition + i - 1)
    <3>1. CASE writePosition = readPosition + a
      BY <1>2, <1>3, <2>1, <3>1 DEF Wrap
    <3>2. CASE writePosition = readPosition + a - N
      <4>1. a + i - 1 < N
        BY <1>1, <1>2, <2>1
      <4>2. writePosition + i - 1 < N /\ ~ (readPosition + (a + i) - 1 < N)
        BY <1>2, <1>3, <2>1, <3>2, <4>1
      <4> QED BY <1>2, <1>3, <2>1, <3>2, <4>2 DEF Wrap
    <3> QED BY <1>7, <3>1, <3>2
  <2>3. buffer'[Wrap(writePosition + i - 1)] = d[i]
    BY DEF Accepts
  <2>4. Contents'[a + i] = buffer'[Wrap(readPosition + (a + i) - 1)]
    BY <1>9, <2>1
  <2> QED BY <1>8, <2>2, <2>3, <2>4
<1>12. Len(Contents') = Len(Contents) + Len(d)
  BY <1>8, <1>9 DEF n
<1>13. /\ Contents' \in Seq(Bytes) /\ Contents \in Seq(Bytes) /\ d \in Seq(Bytes)
       /\ \A i \in 1 .. Len(Contents) : Contents'[i] = Contents[i]
       /\ \A i \in 1 .. Len(d) : Contents'[Len(Contents) + i] = d[i]
  BY <1>1, <1>8, <1>9, <1>10, <1>11, Zenon
<1> QED BY <1>12, <1>13, Splits, Zenon

-----------------------------------------------------------------------------
(* The invariant, and what every call does to the contents *)

Calls == {"peek", "read", "write", "writeToStream", "readFromStream", "flush"}

\* The buffer starts empty.
LEMMA InitInv == Init => Inv /\ FIFO!Init
<1> SUFFICES ASSUME Init PROVE Inv /\ FIFO!Init
  OBVIOUS
<1>1. Inv
  <2>1. data \in Seq(Bytes) /\ N \in Nat
    BY ConstantsAssumption DEF Init
  <2>2. /\ buffer \in [0 .. N - 1 -> Bytes]
        /\ readPosition \in 0 .. N /\ writePosition \in 0 .. N
        /\ readPosition = writePosition
    <3>1. readPosition = 0 /\ writePosition = 0
      BY DEF Init
    <3>2. buffer \in [0 .. N - 1 -> Bytes]
      BY DEF Init
    <3> QED BY <2>1, <3>1, <3>2
  <2>3. call = "none" /\ result \in Int /\ canRead \in BOOLEAN
    <3>1. result = 0 /\ call = "none" /\ canRead = FALSE
      BY Zenon DEF Init
    <3>2. 0 \in Int
      OBVIOUS
    <3> QED BY <3>1, <3>2, Zenon
  <2> QED BY <2>1, <2>2, <2>3, Zenon DEF Inv, TypeOK
<1>2. AvailableToRead = 0
  BY DEF Init, AvailableToRead
<1>3. Contents \in Seq(Bytes) /\ Len(Contents) = 0
  BY <1>1, <1>2, ContentsBytes DEF ContentsAre
<1>4. Contents = <<>>
  BY <1>3
<1> QED BY <1>1, <1>4 DEF Init, FIFO!Init

\* A call that leaves the positions and the bytes leaves the contents.
LEMMA Unmoved ==
  ASSUME UNCHANGED ring
  PROVE  /\ Contents' = Contents
         /\ UNCHANGED <<buffer, readPosition, writePosition, canRead>>
BY DEF ring, Contents, AvailableToRead, Wrap

\* Without bytes to read the contents are empty, and a buffer without room has N
\* of them.
LEMMA EmptyOrFull ==
  ASSUME Inv
  PROVE  /\ ~ canRead => Contents = <<>>
         /\ canRead /\ writePosition = readPosition => Len(Contents) = N
         /\ Len(Contents) \in 0 .. N
<1>1. Contents \in Seq(Bytes) /\ Len(Contents) = AvailableToRead
  BY ContentsBytes DEF ContentsAre
<1>2. AvailableToRead \in 0 .. N
  BY Available
<1>3. ~ canRead => AvailableToRead = 0
  BY DEF AvailableToRead
<1>4. canRead /\ writePosition = readPosition => AvailableToRead = N
  BY ConstantsAssumption DEF AvailableToRead, Inv, TypeOK
<1> QED BY <1>1, <1>2, <1>3, <1>4

\* The calls that move nothing.
LEMMA Refusal ==
  ASSUME Inv, NEW op \in Calls, NEW r \in Int, r <= 0,
         Answer(op, r, <<>>), UNCHANGED ring,
         r = RetryRead => ~ canRead,
         r = RetryWrite => canRead /\ writePosition = readPosition
  PROVE  Inv' /\ FIFO!Refuse
<1>1. call' = op /\ result' = r /\ data' = <<>>
  BY DEF Answer
<1>2. Inv'
  BY <1>1, Unmoved DEF Inv, TypeOK, Calls
<1>3. Contents' = Contents
  BY Unmoved
<1> QED BY <1>1, <1>2, <1>3, EmptyOrFull DEF FIFO!Refuse, Calls

\* What the refusing part of every call does.
LEMMA Refusals ==
  ASSUME Inv, NEW op \in Calls, NEW count,
         RefuseRead(op, count) \/ RefuseWrite(op, count) \/ Failed(op)
  PROVE  Inv' /\ FIFO!Refuse
<1>1. CASE RefuseRead(op, count)
  <2>1. /\ Answer(op, IF canRead THEN 0 ELSE RetryRead, <<>>)
        /\ UNCHANGED ring
    BY <1>1 DEF RefuseRead
  <2> DEFINE r == IF canRead THEN 0 ELSE RetryRead
  <2>2. /\ r \in Int /\ r <= 0 /\ r # RetryWrite /\ (r = RetryRead => ~ canRead)
    BY DEF RetryRead, RetryWrite
  <2>3. Answer(op, r, <<>>)
    BY <2>1
  <2> HIDE DEF r
  <2> QED BY <2>1, <2>2, <2>3, Refusal
<1>2. CASE RefuseWrite(op, count)
  <2> DEFINE full == canRead /\ writePosition = readPosition
             r == IF full THEN RetryWrite ELSE 0
  <2>1. Answer(op, r, <<>>) /\ UNCHANGED ring
    BY <1>2 DEF RefuseWrite
  <2>2. /\ r \in Int /\ r <= 0 /\ r # RetryRead /\ (r = RetryWrite => full)
    BY DEF RetryRead, RetryWrite
  <2> HIDE DEF r
  <2> QED BY <2>1, <2>2, Refusal
<1>3. CASE Failed(op)
  <2>1. Answer(op, Broken, <<>>) /\ UNCHANGED ring
    BY <1>3 DEF Failed
  <2>2. Broken \in Int /\ Broken <= 0 /\ Broken # RetryRead /\ Broken # RetryWrite
    BY DEF Broken, RetryRead, RetryWrite
  <2> QED BY <2>1, <2>2, Refusal
<1> QED BY <1>1, <1>2, <1>3

\* A prefix that is as long as asked for is the first part of the contents.
LEMMA CopiedFirst ==
  ASSUME Inv, canRead, NEW count \in Nat
  PROVE  /\ Copied(count) \in Seq(Bytes)
         /\ Len(Copied(count)) = ReadSize(count)
         /\ ReadSize(count) \in 0 .. Len(Contents)
         /\ Copied(count) = SubSeq(Contents, 1, Len(Copied(count)))
<1> DEFINE c == Copied(count)
           n == ReadSize(count)
<1>1. c \in Seq(Bytes) /\ Len(c) = n /\ \A i \in 1 .. n : c[i] = Contents[i]
  BY CopiedBytes
<1>2. Contents \in Seq(Bytes) /\ Len(Contents) = AvailableToRead
  BY ContentsBytes DEF ContentsAre
<1>3. n \in 0 .. Len(Contents)
  <2>1. n \in 0 .. count /\ n = Least(count, AvailableToRead)
    BY ReadBounds
  <2>2. AvailableToRead \in 0 .. N
    BY Available
  <2> HIDE DEF n
  <2> QED BY <1>2, <2>1, <2>2, ConstantsAssumption DEF Least
<1> HIDE DEF c, n
<1>4. /\ SubSeq(Contents, 1, n) \in Seq(Bytes)
      /\ Len(SubSeq(Contents, 1, n)) = n
      /\ \A i \in 1 .. n : SubSeq(Contents, 1, n)[i] = Contents[i]
  <2> DEFINE s == Contents
  <2>1. s \in Seq(Bytes) /\ n \in 0 .. Len(s)
    BY <1>2, <1>3
  <2> HIDE DEF s
  <2>2. SubSeq(s, 1, n) \in Seq(Bytes) /\ Len(SubSeq(s, 1, n)) = n
    BY <2>1
  <2>3. \A i \in 1 .. n : SubSeq(s, 1, n)[i] = s[i]
    BY <2>1
  <2> QED BY <2>2, <2>3 DEF s
<1>5. c = SubSeq(Contents, 1, n)
  BY <1>1, <1>4, SeqEqual
<1> QED BY <1>1, <1>3, <1>5 DEF c, n

-----------------------------------------------------------------------------
(* The calls, one by one *)

\* peek() shows the first bytes.
LEMMA PeekStep ==
  ASSUME Inv, NEW count \in Counts, Peek(count)
  PROVE  Inv' /\ (FIFO!Refuse \/ FIFO!Look)
<1>1. count \in Nat
  BY ConstantsAssumption
<1>2. CASE RefuseRead("peek", count)
  BY <1>2, Refusals DEF Calls
<1>3. CASE canRead /\ Answer("peek", ReadSize(count), Copied(count)) /\ UNCHANGED ring
  <2>1. /\ Copied(count) \in Seq(Bytes) /\ Len(Copied(count)) = ReadSize(count)
        /\ ReadSize(count) \in 0 .. Len(Contents)
        /\ Copied(count) = SubSeq(Contents, 1, Len(Copied(count)))
    BY <1>1, <1>3, CopiedFirst
  <2>2. call' = "peek" /\ result' = ReadSize(count) /\ data' = Copied(count)
    BY <1>3 DEF Answer
  <2>3. Inv'
    BY <1>3, <2>1, <2>2, Unmoved DEF Inv, TypeOK
  <2>4. Contents' = Contents /\ Len(Contents) \in Nat
    BY <1>3, Unmoved, EmptyOrFull, ConstantsAssumption
  <2> QED BY <2>1, <2>2, <2>3, <2>4 DEF FIFO!Look, FIFO!First
<1> QED BY <1>2, <1>3 DEF Peek

\* A call that moves the read position past the bytes that it returns takes
\* them from the front.
LEMMA TakeStep ==
  ASSUME Inv, canRead, NEW to \in 0 .. N, MoveReadPosition(to),
         NEW op \in {"read", "writeToStream"}, NEW d \in Seq(Bytes),
         Len(d) \in 0 .. AvailableToRead, Answer(op, Len(d), d),
         Len(d) > 0 \/ readPosition # writePosition,
         to = readPosition + Len(d) \/ to = readPosition + Len(d) - N,
         readPosition < writePosition => to = readPosition + Len(d),
         \A i \in 1 .. Len(d) : d[i] = Contents[i]
  PROVE  Inv' /\ FIFO!Take
<1>1. call' = op /\ result' = Len(d) /\ data' = d
  BY DEF Answer
<1>2. /\ readPosition' = to /\ writePosition' = writePosition
      /\ buffer' = buffer /\ canRead' = (to # writePosition)
  BY DEF MoveReadPosition
<1>3. Inv'
  <2>1. readPosition' \in 0 .. N /\ writePosition' \in 0 .. N
    BY <1>2 DEF Inv, TypeOK
  <2>2. buffer' \in [0 .. N - 1 -> Bytes] /\ canRead' \in BOOLEAN
    BY <1>2 DEF Inv, TypeOK
  <2>3. ~ canRead' => readPosition' = writePosition'
    BY <1>2
  <2>4. result' \in Int /\ data' \in Seq(Bytes)
    BY <1>1
  <2>5. call' \in {"none", "peek", "read", "write", "writeToStream",
                    "readFromStream", "flush"}
    BY <1>1
  <2> QED BY <2>1, <2>2, <2>3, <2>4, <2>5, Zenon DEF Inv, TypeOK
<1>4. Contents = d \o Contents'
  <2> DEFINE n == Len(d)
  <2>1. n \in 0 .. AvailableToRead
    OBVIOUS
  <2>2. \A i \in 1 .. n : d[i] = Contents[i]
    OBVIOUS
  <2> QED BY <1>3, <2>1, <2>2, TakeFront
<1> QED BY <1>1, <1>3, <1>4 DEF FIFO!Take

\* read() takes the first bytes.
LEMMA ReadStep ==
  ASSUME Inv, NEW count \in Counts, Read(count)
  PROVE  Inv' /\ (FIFO!Refuse \/ FIFO!Take)
<1>1. count \in Nat
  BY ConstantsAssumption
<1>2. CASE RefuseRead("read", count)
  BY <1>2, Refusals DEF Calls
<1>3. CASE /\ canRead /\ count > 0
           /\ Answer("read", ReadSize(count), Copied(count))
           /\ MoveReadPosition(ReadEnd(count))
  <2> DEFINE d == Copied(count)
             n == ReadSize(count)
             to == ReadEnd(count)
  <2>1. d \in Seq(Bytes) /\ Len(d) = n /\ \A i \in 1 .. n : d[i] = Contents[i]
    BY <1>1, <1>3, CopiedBytes
  <2>2. n \in 0 .. AvailableToRead /\ to \in 0 .. N
    <3>1. n \in 0 .. count /\ n = Least(count, AvailableToRead) /\ to \in 0 .. N
      BY <1>1, <1>3, ReadBounds
    <3>2. AvailableToRead \in 0 .. N
      BY Available
    <3> HIDE DEF n
    <3> QED BY <1>1, <3>1, <3>2, ConstantsAssumption DEF Least
  <2>3. n > 0 \/ readPosition # writePosition
    BY <1>1, <1>3, ConstantsAssumption DEF ReadSize, Least, Inv, TypeOK
  <2>4. to = readPosition + n \/ to = readPosition + n - N
    BY <1>1, <1>3, ConstantsAssumption DEF ReadSize, ReadEnd, Least, Inv, TypeOK
  <2>5. readPosition < writePosition => to = readPosition + n
    BY DEF ReadEnd
  <2>6. MoveReadPosition(to) /\ Answer("read", Len(d), d)
    BY <1>3, <2>1
  <2> HIDE DEF n, d, to
  <2>7. /\ "read" \in {"read", "writeToStream"}
        /\ \A i \in 1 .. Len(d) : d[i] = Contents[i]
    BY <2>1
  <2>8. Inv' /\ FIFO!Take
    BY <1>3, <2>1, <2>2, <2>3, <2>4, <2>5, <2>6, <2>7, TakeStep
  <2> QED BY <2>8
<1> QED BY <1>2, <1>3 DEF Read

\* The stream gets the bytes at the front.
LEMMA ToStreamStep ==
  ASSUME Inv, NEW count \in Counts, ReadAndWriteToStream(count)
  PROVE  Inv' /\ (FIFO!Refuse \/ FIFO!Take)
<1> DEFINE op == "writeToStream"
           from == IF readPosition = N THEN 0 ELSE readPosition
           size == IF readPosition < writePosition
                     THEN Least(writePosition - readPosition, count)
                     ELSE IF readPosition = N THEN writePosition
                     ELSE Least(N - readPosition, count)
<1>1. count \in Nat
  BY ConstantsAssumption
<1>2. CASE RefuseRead(op, count) \/ Failed(op)
  BY <1>2, Refusals DEF Calls
<1>3. CASE /\ canRead
           /\ \E n \in 0 .. size :
                /\ Answer(op, n, CopyOut(from, n))
                /\ IF n = 0 THEN UNCHANGED ring ELSE MoveReadPosition(from + n)
  <2>1. PICK n \in 0 .. size :
               /\ Answer(op, n, CopyOut(from, n))
               /\ IF n = 0 THEN UNCHANGED ring ELSE MoveReadPosition(from + n)
    BY <1>3
  <2>2. size \in 0 .. N
    BY <1>1, ConstantsAssumption DEF Inv, TypeOK, Least
  <2>3. /\ from \in Nat /\ n \in Nat /\ from + n \in 0 .. N /\ n \in 0 .. AvailableToRead
    BY <1>1, <1>3, <2>2, ConstantsAssumption
       DEF Inv, TypeOK, Least, AvailableToRead
  <2>4. /\ CopyOut(from, n) \in Seq(Bytes) /\ Len(CopyOut(from, n)) = n
        /\ \A i \in 1 .. n : CopyOut(from, n)[i] = buffer[from + i - 1]
    <3> HIDE DEF from
    <3>1. from + n <= N
      BY <2>3, ConstantsAssumption
    <3> QED BY <2>3, <3>1, CopyOutBytes
  <2>5. CASE n = 0
    <3>1. CopyOut(from, n) = <<>>
      BY <2>4, <2>5
    <3>2. Answer(op, 0, <<>>) /\ UNCHANGED ring
      BY <2>1, <2>5, <3>1
    <3> QED BY <3>2, Refusal DEF Calls, RetryRead, RetryWrite
  <2>6. CASE n # 0
    <3> DEFINE d == CopyOut(from, n)
    <3>1. \A i \in 1 .. n : Wrap(readPosition + i - 1) = from + i - 1
      <4> SUFFICES ASSUME NEW i \in 1 .. n
                   PROVE  Wrap(readPosition + i - 1) = from + i - 1
        OBVIOUS
      <4>1. CASE readPosition = N
        BY <2>3, <4>1, ConstantsAssumption DEF Wrap
      <4>2. CASE readPosition # N
        BY <2>3, <4>2, ConstantsAssumption DEF Wrap
      <4> QED BY <4>1, <4>2
    <3>2. \A i \in 1 .. AvailableToRead :
            Contents[i] = buffer[Wrap(readPosition + i - 1)]
      BY ContentsBytes DEF ContentsAre
    <3>3. AvailableToRead \in 0 .. N
      BY Available
    <3>4. \A i \in 1 .. n : d[i] = Contents[i]
      <4> SUFFICES ASSUME NEW i \in 1 .. n PROVE d[i] = Contents[i]
        OBVIOUS
      <4>1. i \in 1 .. AvailableToRead
        BY <2>3, <3>3, ConstantsAssumption
      <4>2. Contents[i] = buffer[from + i - 1]
        BY <3>1, <3>2, <4>1
      <4> QED BY <2>4, <4>2
    <3>5. /\ from + n = readPosition + n \/ from + n = readPosition + n - N
          /\ readPosition < writePosition => from + n = readPosition + n
      BY <2>3, ConstantsAssumption DEF Inv, TypeOK
    <3>6. n > 0
      BY <2>3, <2>6
    <3>7. MoveReadPosition(from + n) /\ Answer(op, n, d)
      BY <2>1, <2>6
    <3> DEFINE to == from + n
    <3>8. /\ to \in 0 .. N /\ MoveReadPosition(to)
          /\ d \in Seq(Bytes) /\ Len(d) = n
      BY <2>3, <2>4, <3>7
    <3>9. /\ to = readPosition + n \/ to = readPosition + n - N
          /\ readPosition < writePosition => to = readPosition + n
      BY <3>5
    <3> HIDE DEF to, d, from
    <3>10. /\ Len(d) \in 0 .. AvailableToRead /\ Answer("writeToStream", Len(d), d)
           /\ Len(d) > 0 \/ readPosition # writePosition
           /\ to = readPosition + Len(d) \/ to = readPosition + Len(d) - N
           /\ readPosition < writePosition => to = readPosition + Len(d)
           /\ \A i \in 1 .. Len(d) : d[i] = Contents[i]
      BY <2>3, <3>4, <3>6, <3>7, <3>8, <3>9
    <3>11. "writeToStream" \in {"read", "writeToStream"}
      OBVIOUS
    <3> QED BY <1>3, <3>8, <3>10, <3>11, TakeStep
  <2> QED BY <2>5, <2>6
<1> QED BY <1>2, <1>3 DEF ReadAndWriteToStream

\* A call that moves the write position past the bytes that it accepts.
LEMMA PutStep ==
  ASSUME Inv, NEW op \in {"write", "readFromStream"}, NEW d, Accepts(d),
         Answer(op, Len(d), d)
  PROVE  Inv' /\ FIFO!Put
<1>1. call' = op /\ result' = Len(d) /\ data' = d
  BY DEF Answer
<1>2. d \in Seq(Bytes) /\ Len(d) \in Nat
  BY LenProperties DEF Accepts
<1>3. Inv'
  <2>1. /\ readPosition' \in 0 .. N /\ writePosition' \in 0 .. N
        /\ buffer' \in [0 .. N - 1 -> Bytes]
    BY DEF Accepts, Inv, TypeOK
  <2>2. canRead' = TRUE
    BY DEF Accepts
  <2>3. result' \in Int /\ data' \in Seq(Bytes)
    BY <1>1, <1>2
  <2>4. call' \in {"none", "peek", "read", "write", "writeToStream",
                    "readFromStream", "flush"}
    BY <1>1
  <2> QED BY <2>1, <2>2, <2>3, <2>4, Zenon DEF Inv, TypeOK
<1>4. Contents' = Contents \o d
  BY <1>3, AppendBack
<1>5. Len(Contents') <= N
  <2>1. /\ Contents \in Seq(Bytes) /\ Len(Contents) = AvailableToRead
        /\ Contents' \in Seq(Bytes)
    BY <1>3, ContentsBytes, ContentsBytesNext DEF ContentsAre
  <2>2. Len(Contents \o d) = Len(Contents) + Len(d)
    BY <1>2, <2>1, ConcatProperties, Zenon
  <2>3. Len(d) <= AvailableToWrite
    BY DEF Accepts
  <2> QED BY <1>2, <1>4, <2>1, <2>2, <2>3, Available, ConstantsAssumption
<1> QED BY <1>1, <1>3, <1>4, <1>5 DEF FIFO!Put

\* The stream's bytes go where the last call stopped.
LEMMA FromStreamStep ==
  ASSUME Inv, NEW s \in Arguments, NEW count \in Counts,
         ReadFromStreamAndWrite(s, count)
  PROVE  Inv' /\ (FIFO!Refuse \/ FIFO!Put)
<1> DEFINE op == "readFromStream"
           to == IF writePosition = N THEN 0 ELSE writePosition
           size == IF writePosition < readPosition
                     THEN Least(readPosition - writePosition, count)
                     ELSE IF writePosition = N THEN readPosition
                     ELSE Least(N - writePosition, count)
           n == Len(s)
<1>1. count \in Nat /\ s \in Seq(Bytes) /\ n \in Nat
  BY ConstantsAssumption
<1>2. CASE RefuseWrite(op, count) \/ Failed(op)
  BY <1>2, Refusals DEF Calls
<1>3. CASE s = <<>> /\ Answer(op, Len(s), s) /\ UNCHANGED ring
  <2>1. Answer(op, 0, <<>>) /\ UNCHANGED ring
    BY <1>3
  <2> QED BY <2>1, Refusal DEF Calls, RetryRead, RetryWrite
<1>4. CASE /\ ~ (canRead /\ writePosition = readPosition)
           /\ n <= size /\ s # <<>>
           /\ Answer(op, n, s)
           /\ buffer' = CopyIn(buffer, to, s)
           /\ writePosition' = to + n
           /\ canRead' = TRUE
           /\ UNCHANGED readPosition
  <2>1. n > 0
    BY <1>1, <1>4
  <2> HIDE DEF n
  <2>2. /\ to \in Nat /\ to + n <= N /\ n <= AvailableToWrite
    BY <1>1, <1>4, ConstantsAssumption DEF Inv, TypeOK, Least, AvailableToWrite
  <2>3. /\ CopyIn(buffer, to, s) \in [0 .. N - 1 -> Bytes]
        /\ \A i \in 1 .. n : CopyIn(buffer, to, s)[to + i - 1] = s[i]
        /\ \A j \in 0 .. N - 1 :
             j < to \/ j >= to + n => CopyIn(buffer, to, s)[j] = buffer[j]
    <3> HIDE DEF to
    <3>1. buffer \in [0 .. N - 1 -> Bytes]
      BY DEF Inv, TypeOK
    <3>2. to + Len(s) <= N
      BY <2>2 DEF n
    <3> QED BY <1>1, <2>2, <3>1, <3>2, CopyInBytes DEF n
  <2>4. \A i \in 1 .. n : Wrap(writePosition + i - 1) = to + i - 1
    <3> SUFFICES ASSUME NEW i \in 1 .. n
                 PROVE  Wrap(writePosition + i - 1) = to + i - 1
      OBVIOUS
    <3>1. CASE writePosition = N
      BY <1>1, <2>2, <3>1, ConstantsAssumption DEF Wrap
    <3>2. CASE writePosition # N
      BY <1>1, <2>2, <3>2, ConstantsAssumption DEF Wrap, Inv, TypeOK
    <3> QED BY <3>1, <3>2
  <2>5. \A i \in 1 .. n : buffer'[Wrap(writePosition + i - 1)] = s[i]
    BY <1>4, <2>3, <2>4
  <2>6. ASSUME NEW j \in 0 .. N - 1,
               \A i \in 1 .. n : j # Wrap(writePosition + i - 1)
        PROVE  buffer'[j] = buffer[j]
    <3>1. j < to \/ j >= to + n
      <4>1. CASE to <= j /\ j < to + n
        <5>1. j - to + 1 \in 1 .. n /\ j = to + (j - to + 1) - 1
          BY <1>1, <2>2, <4>1, ConstantsAssumption
        <5>2. j # Wrap(writePosition + (j - to + 1) - 1)
          BY <2>6, <5>1
        <5> QED BY <2>4, <5>1, <5>2
      <4> QED BY <1>1, <2>2, <4>1, ConstantsAssumption
    <3> QED BY <1>4, <2>3, <3>1
  <2>7. /\ \/ writePosition' = writePosition + n
           \/ writePosition' = writePosition + n - N
        /\ writePosition < readPosition => writePosition' = writePosition + n
        /\ writePosition' \in 0 .. N
    BY <1>1, <1>4, <2>2, ConstantsAssumption DEF Inv, TypeOK
  <2> HIDE DEF to
  <2>8. /\ s \in Seq(Bytes) /\ n <= AvailableToWrite
        /\ n > 0 \/ readPosition # writePosition
        /\ canRead' = TRUE /\ readPosition' = readPosition
        /\ buffer' \in [0 .. N - 1 -> Bytes]
    BY <1>1, <1>4, <2>1, <2>2, <2>3
  <2>9. Accepts(s)
    BY <2>5, <2>6, <2>7, <2>8, Zenon DEF Accepts, n
  <2>10. Answer("readFromStream", Len(s), s)
    BY <1>4 DEF n
  <2> QED BY <2>9, <2>10, PutStep
<1> QED BY <1>2, <1>3, <1>4 DEF ReadFromStreamAndWrite

\* write() across the end of the memory: size bytes up to it, the rest at its
\* beginning.
LEMMA WriteWraps ==
  ASSUME Inv, NEW s \in Seq(Bytes), NEW n \in Nat, NEW size \in Nat,
         size = N - writePosition, writePosition >= readPosition,
         size <= n, n <= Len(s), n - size <= readPosition,
         buffer' = CopyIn(CopyIn(buffer, writePosition, SubSeq(s, 1, size)),
                          0, SubSeq(s, size + 1, n))
  PROVE  /\ buffer' \in [0 .. N - 1 -> Bytes]
         /\ \A i \in 1 .. n : buffer'[Wrap(writePosition + i - 1)] = s[i]
         /\ \A j \in 0 .. N - 1 :
              (\A i \in 1 .. n : j # Wrap(writePosition + i - 1)) => buffer'[j] = buffer[j]
<1> DEFINE s1 == SubSeq(s, 1, size)
           s2 == SubSeq(s, size + 1, n)
           b1 == CopyIn(buffer, writePosition, s1)
<1>1. /\ Len(s) \in Nat /\ N \in Nat \ {0}
      /\ writePosition \in Nat /\ readPosition \in Nat
      /\ writePosition + size = N /\ 0 + (n - size) <= N
      /\ buffer \in [0 .. N - 1 -> Bytes]
  BY ConstantsAssumption DEF Inv, TypeOK
<1>2. /\ s1 \in Seq(Bytes) /\ Len(s1) = size /\ \A i \in 1 .. size : s1[i] = s[i]
  <2>1. size \in 0 .. Len(s)
    BY <1>1
  <2> QED BY <2>1
<1>3. /\ s2 \in Seq(Bytes) /\ Len(s2) = n - size
      /\ \A i \in 1 .. n - size : s2[i] = s[size + i]
  <2>1. size + 1 \in 1 .. Len(s) + 1 /\ n \in (size + 1) - 1 .. Len(s)
    BY <1>1
  <2>2. /\ s2 \in Seq(Bytes) /\ Len(s2) = n - (size + 1) + 1
        /\ \A i \in 1 .. n - (size + 1) + 1 : s2[i] = s[(size + 1) + i - 1]
    BY <2>1, Part
  <2>3. /\ n - (size + 1) + 1 = n - size
        /\ \A i \in 1 .. n - size : (size + 1) + i - 1 = size + i
    OBVIOUS
  <2> QED BY <2>2, <2>3
<1> HIDE DEF s1, s2
<1>4. /\ b1 \in [0 .. N - 1 -> Bytes]
      /\ \A i \in 1 .. size : b1[writePosition + i - 1] = s[i]
      /\ \A j \in 0 .. N - 1 : j < writePosition => b1[j] = buffer[j]
  <2>1. writePosition + Len(s1) <= N
    BY <1>1, <1>2
  <2>2. /\ b1 \in [0 .. N - 1 -> Bytes]
        /\ \A i \in 1 .. Len(s1) : b1[writePosition + i - 1] = s1[i]
        /\ \A j \in 0 .. N - 1 :
             j < writePosition \/ j >= writePosition + Len(s1) => b1[j] = buffer[j]
    BY <1>1, <1>2, <2>1, CopyInBytes
  <2> QED BY <1>2, <2>2
<1> HIDE DEF b1
<1>5. /\ buffer' \in [0 .. N - 1 -> Bytes]
      /\ \A i \in 1 .. n - size : buffer'[0 + i - 1] = s[size + i]
      /\ \A j \in 0 .. N - 1 : j < 0 \/ j >= 0 + (n - size) => buffer'[j] = b1[j]
  <2>1. 0 + Len(s2) <= N /\ 0 \in Nat
    BY <1>1, <1>3
  <2>2. buffer' = CopyIn(b1, 0, s2)
    BY DEF b1, s1, s2
  <2>3. /\ buffer' \in [0 .. N - 1 -> Bytes]
        /\ \A i \in 1 .. Len(s2) : buffer'[0 + i - 1] = s2[i]
        /\ \A j \in 0 .. N - 1 : j < 0 \/ j >= 0 + Len(s2) => buffer'[j] = b1[j]
    <3> DEFINE z == 0
    <3>1. z \in Nat /\ z + Len(s2) <= N
      BY <2>1
    <3> HIDE DEF z
    <3>2. /\ CopyIn(b1, z, s2) \in [0 .. N - 1 -> Bytes]
          /\ \A i \in 1 .. Len(s2) : CopyIn(b1, z, s2)[z + i - 1] = s2[i]
          /\ \A j \in 0 .. N - 1 :
               j < z \/ j >= z + Len(s2) => CopyIn(b1, z, s2)[j] = b1[j]
      BY <1>3, <1>4, <3>1, CopyInBytes, Zenon
    <3>3. buffer' = CopyIn(b1, z, s2)
      BY <2>2 DEF z
    <3> HIDE DEF b1
    <3>4. /\ buffer' \in [0 .. N - 1 -> Bytes]
          /\ \A i \in 1 .. Len(s2) : buffer'[z + i - 1] = s2[i]
          /\ \A j \in 0 .. N - 1 : j < z \/ j >= z + Len(s2) => buffer'[j] = b1[j]
      BY <3>2, <3>3, Zenon
    <3> QED BY <3>4 DEF z
  <2> QED BY <1>3, <2>3
<1>6. ASSUME NEW i \in 1 .. n
      PROVE  buffer'[Wrap(writePosition + i - 1)] = s[i]
  <2>1. CASE i <= size
    <3>1. /\ writePosition + i - 1 \in 0 .. N - 1 /\ i \in 1 .. size
          /\ writePosition + i - 1 >= 0 + (n - size)
          /\ Wrap(writePosition + i - 1) = writePosition + i - 1
      BY <1>1, <2>1 DEF Wrap
    <3> QED BY <1>4, <1>5, <3>1
  <2>2. CASE ~ (i <= size)
    <3>1. /\ i - size \in 1 .. n - size /\ size + (i - size) = i
          /\ Wrap(writePosition + i - 1) = 0 + (i - size) - 1
      BY <1>1, <2>2 DEF Wrap
    <3>2. buffer'[0 + (i - size) - 1] = s[size + (i - size)]
      BY <1>5, <3>1
    <3> QED BY <3>1, <3>2
  <2> QED BY <2>1, <2>2
<1>7. ASSUME NEW j \in 0 .. N - 1,
             \A i \in 1 .. n : j # Wrap(writePosition + i - 1)
      PROVE  buffer'[j] = buffer[j]
  <2>1. ~ (j >= writePosition)
    <3>1. CASE j >= writePosition
      <4>1. /\ j - writePosition + 1 \in 1 .. n
            /\ Wrap(writePosition + (j - writePosition + 1) - 1) = j
        BY <1>1, <3>1 DEF Wrap
      <4> QED BY <1>7, <4>1
    <3> QED BY <3>1
  <2>2. ~ (j < n - size)
    <3>1. CASE j < n - size
      <4>1. /\ size + j + 1 \in 1 .. n
            /\ Wrap(writePosition + (size + j + 1) - 1) = j
        BY <1>1, <3>1 DEF Wrap
      <4> QED BY <1>7, <4>1
    <3> QED BY <3>1
  <2> QED BY <1>1, <1>4, <1>5, <2>1, <2>2
<1> QED BY <1>5, <1>6, <1>7

\* write() accepts as much of s as there is room for.
LEMMA WriteStep ==
  ASSUME Inv, NEW s \in Arguments, Write(s)
  PROVE  Inv' /\ (FIFO!Refuse \/ FIFO!Put)
<1> DEFINE n == WriteSize(Len(s))
           size == N - writePosition
           wraps == writePosition >= readPosition /\ size <= Len(s)
           d == SubSeq(s, 1, n)
<1>1. s \in Seq(Bytes) /\ Len(s) \in Nat
  BY ConstantsAssumption
<1>2. CASE RefuseWrite("write", Len(s))
  BY <1>2, Refusals DEF Calls
<1>3. CASE /\ ~ (canRead /\ writePosition = readPosition) /\ Len(s) > 0
           /\ Answer("write", n, d)
           /\ canRead' = TRUE
           /\ IF wraps
                THEN /\ buffer' = CopyIn(CopyIn(buffer, writePosition, SubSeq(s, 1, size)),
                                         0, SubSeq(s, size + 1, n))
                     /\ writePosition' = n - size
                ELSE /\ buffer' = CopyIn(buffer, writePosition, d)
                     /\ writePosition' = writePosition + n
           /\ UNCHANGED readPosition
  <2>1. n \in 0 .. Len(s) /\ n = Least(Len(s), AvailableToWrite)
    BY <1>1, <1>3, WriteBounds
  <2>2. AvailableToWrite \in 0 .. N
    BY Available
  <2>3. n \in Nat /\ n <= Len(s) /\ n <= AvailableToWrite
    <3> HIDE DEF n
    <3> QED BY <1>1, <2>1, <2>2, ConstantsAssumption DEF Least
  <2>4. d \in Seq(Bytes) /\ Len(d) = n /\ \A i \in 1 .. n : d[i] = s[i]
    <3> HIDE DEF n
    <3> QED BY <1>1, <2>1
  <2>5. n > 0 \/ readPosition # writePosition
    BY <1>1, <1>3, ConstantsAssumption DEF WriteSize, Least, Inv, TypeOK
  <2>6. Accepts(d)
    <3>1. CASE wraps
      <4>1. /\ size \in Nat /\ size <= n /\ n - size <= readPosition
            /\ writePosition >= readPosition
        BY <1>1, <1>3, <3>1, ConstantsAssumption
           DEF WriteSize, Least, Inv, TypeOK
      <4>2. /\ writePosition' = writePosition + n - N
            /\ writePosition' \in 0 .. N /\ ~ (writePosition < readPosition)
        <5>1. writePosition' = n - size /\ n - size >= 0
          BY <1>3, <2>3, <3>1, <4>1
        <5> QED BY <2>3, <4>1, <5>1, ConstantsAssumption DEF Inv, TypeOK
      <4>3. buffer' = CopyIn(CopyIn(buffer, writePosition, SubSeq(s, 1, size)),
                             0, SubSeq(s, size + 1, n))
        BY <1>3, <3>1
      <4> HIDE DEF n
      <4>4. size = N - writePosition
        OBVIOUS
      <4> HIDE DEF size
      <4>5. /\ buffer' \in [0 .. N - 1 -> Bytes]
            /\ \A i \in 1 .. n : buffer'[Wrap(writePosition + i - 1)] = s[i]
            /\ \A j \in 0 .. N - 1 :
                 (\A i \in 1 .. n : j # Wrap(writePosition + i - 1))
                   => buffer'[j] = buffer[j]
        BY <1>1, <2>3, <4>1, <4>3, <4>4, WriteWraps, Zenon
      <4>6. \A i \in 1 .. n : buffer'[Wrap(writePosition + i - 1)] = d[i]
        BY <2>4, <4>5
      <4>7. canRead' = TRUE /\ readPosition' = readPosition
        BY <1>3
      <4> HIDE DEF d
      <4> QED BY <2>3, <2>4, <2>5, <4>2, <4>5, <4>6, <4>7, Zenon DEF Accepts
    <3>2. CASE ~ wraps
      <4>1. writePosition' = writePosition + n /\ buffer' = CopyIn(buffer, writePosition, d)
        BY <1>3, <3>2
      <4>2. writePosition + n <= N /\ writePosition + n < N + 1
        BY <1>1, <1>3, <3>2, ConstantsAssumption
           DEF WriteSize, Least, Inv, TypeOK
      <4> HIDE DEF n, size, wraps
      <4>3. writePosition \in Nat /\ writePosition + n \in 0 .. N
        BY <2>3, <4>2, ConstantsAssumption DEF Inv, TypeOK
      <4> HIDE DEF d
      <4>4. /\ CopyIn(buffer, writePosition, d) \in [0 .. N - 1 -> Bytes]
            /\ \A i \in 1 .. Len(d) : CopyIn(buffer, writePosition, d)[writePosition + i - 1] = d[i]
            /\ \A j \in 0 .. N - 1 :
                 j < writePosition \/ j >= writePosition + Len(d)
                   => CopyIn(buffer, writePosition, d)[j] = buffer[j]
        <5>1. buffer \in [0 .. N - 1 -> Bytes] /\ writePosition + Len(d) <= N
          BY <2>4, <4>2 DEF Inv, TypeOK
        <5> QED BY <2>4, <4>3, <5>1, CopyInBytes, Zenon
      <4>5. \A i \in 1 .. n : Wrap(writePosition + i - 1) = writePosition + i - 1
        BY <2>3, <4>2, <4>3, ConstantsAssumption DEF Wrap
      <4>6. \A i \in 1 .. n : buffer'[Wrap(writePosition + i - 1)] = d[i]
        BY <2>4, <4>1, <4>4, <4>5
      <4>7. ASSUME NEW j \in 0 .. N - 1,
                   \A i \in 1 .. n : j # Wrap(writePosition + i - 1)
            PROVE  buffer'[j] = buffer[j]
        <5>1. CASE writePosition <= j /\ j < writePosition + n
          <6>1. /\ j - writePosition + 1 \in 1 .. n
                /\ j = writePosition + (j - writePosition + 1) - 1
            BY <2>3, <4>3, <5>1, ConstantsAssumption
          <6> QED BY <4>5, <4>7, <6>1
        <5>2. CASE ~ (writePosition <= j /\ j < writePosition + n)
          <6>1. j < writePosition \/ j >= writePosition + Len(d)
            BY <2>3, <2>4, <4>3, <5>2, ConstantsAssumption
          <6> QED BY <4>1, <4>4, <6>1
        <5> QED BY <5>1, <5>2
      <4>8. canRead' = TRUE /\ readPosition' = readPosition
        BY <1>3
      <4>9. buffer' \in [0 .. N - 1 -> Bytes] /\ writePosition' \in 0 .. N
        BY <4>1, <4>3, <4>4
      <4> QED BY <2>3, <2>4, <2>5, <4>1, <4>6, <4>7, <4>8, <4>9, Zenon
         DEF Accepts
    <3> QED BY <3>1, <3>2
  <2>7. Answer("write", Len(d), d)
    BY <1>3, <2>4
  <2> HIDE DEF d
  <2> QED BY <2>6, <2>7, PutStep
<1> QED BY <1>2, <1>3 DEF Write

\* A flush shows the stream the first bytes and, unless it failed
\* asynchronously, forgets them all.
LEMMA FlushStep ==
  ASSUME Inv, FlushToStream \/ FlushToStreamAsync
  PROVE  Inv' /\ (FIFO!Refuse \/ FIFO!Flush \/ FIFO!FlushFails)
<1>1. CASE Answer("flush", 0, <<>>) /\ UNCHANGED ring
  BY <1>1, Refusal DEF Calls, RetryRead, RetryWrite
<1>2. AvailableToRead \in 0 .. N
  BY Available
<1>3. ASSUME canRead, NEW n \in 0 .. AvailableToRead
      PROVE  /\ Copied(n) \in Seq(Bytes) /\ Len(Copied(n)) = n
             /\ Len(Copied(n)) <= Len(Contents)
             /\ Copied(n) = SubSeq(Contents, 1, Len(Copied(n)))
  <2>1. n \in Nat /\ n <= AvailableToRead
    BY <1>2
  <2>2. ReadSize(n) = n
    BY <1>2, <1>3, <2>1, ReadBounds DEF Least
  <2>3. /\ Copied(n) \in Seq(Bytes)
        /\ Len(Copied(n)) = ReadSize(n)
        /\ ReadSize(n) \in 0 .. Len(Contents)
        /\ Copied(n) = SubSeq(Contents, 1, Len(Copied(n)))
    BY <1>3, <2>1, CopiedFirst
  <2> QED BY <2>2, <2>3
<1>4. ASSUME canRead, NEW n \in 0 .. AvailableToRead,
             Answer("flush", n, Copied(n)), SetBufferPosition(0, 0, FALSE)
      PROVE  Inv' /\ FIFO!Flush
  <2>1. /\ Copied(n) \in Seq(Bytes) /\ Len(Copied(n)) = n
        /\ Len(Copied(n)) <= Len(Contents)
        /\ Copied(n) = SubSeq(Contents, 1, Len(Copied(n)))
    BY <1>3, <1>4
  <2>2. call' = "flush" /\ result' = n /\ data' = Copied(n)
    BY <1>4 DEF Answer
  <2>3. /\ readPosition' = 0 /\ writePosition' = 0 /\ ~ canRead' /\ buffer' = buffer
        /\ canRead' = FALSE
    BY <1>4 DEF SetBufferPosition
  <2>4. Inv'
    <3>1. 0 \in 0 .. N /\ n \in Int
      BY <1>2, ConstantsAssumption
    <3>2. /\ data' \in Seq(Bytes) /\ result' \in Int
          /\ call' \in {"none", "peek", "read", "write", "writeToStream",
                         "readFromStream", "flush"}
      BY <2>1, <2>2, <3>1
    <3>3. buffer' \in [0 .. N - 1 -> Bytes]
      BY <2>3 DEF Inv, TypeOK
    <3> QED BY <2>3, <3>1, <3>2, <3>3, Zenon DEF Inv, TypeOK
  <2>5. Contents' = <<>>
    <3>1. AvailableToRead' = 0
      BY <2>3 DEF AvailableToRead
    <3>2. Contents' \in Seq(Bytes) /\ Len(Contents') = 0
      BY <2>4, <3>1, ContentsBytesNext DEF ContentsAre
    <3> QED BY <3>2
  <2> QED BY <2>1, <2>2, <2>4, <2>5 DEF FIFO!Flush, FIFO!First
<1>5. ASSUME canRead, NEW n \in 0 .. AvailableToRead,
             Answer("flush", Broken, Copied(n)), UNCHANGED ring
      PROVE  Inv' /\ FIFO!FlushFails
  <2>1. /\ Copied(n) \in Seq(Bytes) /\ Len(Copied(n)) <= Len(Contents)
        /\ Copied(n) = SubSeq(Contents, 1, Len(Copied(n)))
    BY <1>3, <1>5
  <2>2. call' = "flush" /\ result' = Broken /\ data' = Copied(n)
    BY <1>5 DEF Answer
  <2>3. Broken \in Int /\ Broken < 0
    BY DEF Broken
  <2>4. Inv'
    BY <1>5, <2>1, <2>2, <2>3, Unmoved DEF Inv, TypeOK
  <2>5. Contents' = Contents
    BY <1>5, Unmoved
  <2> QED BY <2>1, <2>2, <2>3, <2>4, <2>5 DEF FIFO!FlushFails, FIFO!First
<1>6. CASE FlushToStream
  BY <1>1, <1>4, <1>6 DEF FlushToStream
<1>7. CASE FlushToStreamAsync
  <2>1. CASE \E n \in 0 .. AvailableToRead - 1 :
               canRead /\ Answer("flush", Broken, Copied(n)) /\ UNCHANGED ring
    <3>1. PICK n \in 0 .. AvailableToRead - 1 :
                 canRead /\ Answer("flush", Broken, Copied(n)) /\ UNCHANGED ring
      BY <2>1
    <3>2. n \in 0 .. AvailableToRead
      BY <1>2
    <3> QED BY <1>5, <3>1, <3>2
  <2>2. CASE /\ canRead
             /\ Answer("flush", AvailableToRead, Copied(AvailableToRead))
             /\ SetBufferPosition(0, 0, FALSE)
    <3>1. AvailableToRead \in 0 .. AvailableToRead
      BY <1>2
    <3> QED BY <1>4, <2>2, <3>1
  <2> QED BY <1>1, <1>7, <2>1, <2>2 DEF FlushToStreamAsync
<1> QED BY <1>6, <1>7

\* Every step keeps the invariant and is a step of the bounded queue.
LEMMA StepInv == Inv /\ [Next]_vars => Inv' /\ [FIFO!Next]_FIFO!vars
<1> SUFFICES ASSUME Inv, [Next]_vars
             PROVE  Inv' /\ [FIFO!Next]_FIFO!vars
  OBVIOUS
<1>1. CASE UNCHANGED vars
  <2>1. UNCHANGED ring /\ UNCHANGED <<call, data, result>>
    BY <1>1 DEF vars
  <2> QED BY <2>1, Unmoved DEF Inv, TypeOK, FIFO!vars
<1>2. ASSUME NEW count \in Counts, Peek(count)
      PROVE  Inv' /\ FIFO!Next
  BY <1>2, PeekStep, Zenon DEF FIFO!Next
<1>3. ASSUME NEW count \in Counts, Read(count)
      PROVE  Inv' /\ FIFO!Next
  BY <1>3, ReadStep, Zenon DEF FIFO!Next
<1>4. ASSUME NEW count \in Counts, ReadAndWriteToStream(count)
      PROVE  Inv' /\ FIFO!Next
  BY <1>4, ToStreamStep, Zenon DEF FIFO!Next
<1>5. ASSUME NEW s \in Arguments, Write(s)
      PROVE  Inv' /\ FIFO!Next
  BY <1>5, WriteStep, Zenon DEF FIFO!Next
<1>6. ASSUME NEW s \in Arguments, NEW count \in Counts,
             ReadFromStreamAndWrite(s, count)
      PROVE  Inv' /\ FIFO!Next
  BY <1>6, FromStreamStep, Zenon DEF FIFO!Next
<1>7. ASSUME FlushToStream \/ FlushToStreamAsync
      PROVE  Inv' /\ FIFO!Next
  BY <1>7, FlushStep, Zenon DEF FIFO!Next
<1> QED BY <1>1, <1>2, <1>3, <1>4, <1>5, <1>6, <1>7 DEF Next

-----------------------------------------------------------------------------
(* Theorems *)

\* Inv holds in every reachable state.
THEOREM Invariance == Spec => []Inv
<1>1. Init => Inv
  BY InitInv
<1>2. Inv /\ [Next]_vars => Inv'
  BY StepInv
<1> QED BY <1>1, <1>2, PTL DEF Spec

\* Positions stay in 0 .. N and every call returns bytes and an integer.
THEOREM BufferTypes == Spec => []TypeOK
<1>1. Inv => TypeOK
  BY DEF Inv
<1> QED BY <1>1, Invariance, PTL

\* availableToRead() and availableToWrite() add up to the size of the buffer
\* after every sequence of calls.
THEOREM NothingLost == Spec => []AvailableSum
<1>1. Inv => AvailableSum
  BY Available DEF AvailableSum
<1> QED BY <1>1, Invariance, PTL

\* read() and write() of count bytes move exactly the bytes that there are, up
\* to count, wherever the positions are.
THEOREM SizesAreExact == Spec => []ExactSizes
<1>1. Inv => ExactSizes
  <2> SUFFICES ASSUME Inv, NEW count \in Counts \ {0}
               PROVE  /\ canRead => ReadSize(count) = Least(count, AvailableToRead)
                      /\ AvailableToWrite > 0
                           => WriteSize(count) = Least(count, AvailableToWrite)
    BY DEF ExactSizes
  <2>1. count \in Nat
    BY ConstantsAssumption
  <2>2. AvailableToWrite > 0 => ~ (canRead /\ writePosition = readPosition)
    BY DEF AvailableToWrite
  <2> QED BY <2>1, <2>2, ReadBounds, WriteBounds
<1> QED BY <1>1, Invariance, PTL

\* FIFOBuffer implements the bounded queue: whatever the order of the calls and
\* however little the streams accept, no byte is lost, doubled or reordered.
THEOREM Refinement == Spec => ImplementsFIFO
<1>1. Init => FIFO!Init
  BY InitInv
<1>2. Inv /\ [Next]_vars => [FIFO!Next]_FIFO!vars
  BY StepInv
<1> QED BY <1>1, <1>2, Invariance, PTL DEF Spec, ImplementsFIFO, FIFO!Spec
================================================================================
