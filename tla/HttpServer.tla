------------------------------ MODULE HttpServer ------------------------------
(***************************************************************************)
(* oatpp::network::Server with an HTTP connection handler and the tasks    *)
(* that serve its connections.                                             *)
(*                                                                         *)
(* run() turns its caller, or with run(true) a thread of the server, into  *)
(* the main loop, which takes connections from the provider and hands them *)
(* to the handler.  The handler starts a task for each: a thread           *)
(* (HttpConnectionHandler) whose Task object exists when handleConnection  *)
(* returns, or a coroutine (AsyncHttpConnectionHandler) whose object a     *)
(* processor makes later.  Server::stop, the handler's stop and the        *)
(* provider's stop are called by other threads, in any order.              *)
(*                                                                         *)
(* Server::m_mutex covers run() until the loop starts and the whole of     *)
(* stop(); the loop changes m_status without it.                           *)
(***************************************************************************)
EXTENDS Naturals, TLAPS

CONSTANTS
  Callers,  \* threads that call run(), once each
  Calls,    \* how they may call it: a set of functions from Callers to Ways
  Own,      \* Server::m_thread
  Arrivals  \* bound: how many connections clients open

Loops == Callers \cup {Own}
Ways == {"plain", "conditional", "threaded"}
Connections == 1 .. Arrivals
None == 0

ASSUME ServerAssumption ==
  Own \notin Callers /\ Calls \subseteq [Callers -> Ways] /\ Arrivals \in Nat

VARIABLES
  async,       \* whether the handler is an AsyncHttpConnectionHandler
  way,         \* how each caller calls run()
  status,      \* Server::m_status
  threaded,    \* Server::m_threaded
  pc,          \* what each thread does next in run() or in the main loop
  cur,         \* the connection a main loop holds
  stopper,     \* what the thread in Server::stop() does next
  open,        \* whether the connection provider still accepts
  conn,        \* what has become of each connection
  valid,       \* whether a connection has not been invalidated
  connections, \* m_connections of the handler
  continue,    \* m_continue of the handler
  closer       \* what the thread in the handler's stop() does next

server == <<status, threaded, stopper>>
loops == <<pc, cur>>
handler == <<conn, valid, connections, continue, closer>>
modes == <<async, way>>
vars == <<modes, server, loops, open, handler>>

\* A thread in the main loop; the states in which it has found RUNNING.
Running == {"condition", "halt", "get", "check", "recheck", "handle", "construct"}
Active == {"start", "while", "finish"} \cup Running

TypeOK ==
  /\ async \in BOOLEAN /\ way \in [Callers -> Ways]
  /\ status \in {"CREATED", "STARTING", "RUNNING", "STOPPING", "DONE"}
  /\ threaded \in BOOLEAN
  /\ pc \in [Loops -> {"idle", "refused", "returned"} \cup Active]
  /\ cur \in [Loops -> Connections \cup {None}]
  /\ stopper \in {"idle", "store", "join", "returned"}
  /\ open \in BOOLEAN
  /\ conn \in [Connections -> {"waiting", "accepted", "queued", "serving", "closed"}]
  /\ valid \in [Connections -> BOOLEAN]
  /\ connections \subseteq Connections
  /\ continue \in BOOLEAN
  /\ closer \in {"idle", "invalidate", "wait", "returned"}

Init ==
  /\ async \in BOOLEAN /\ way \in Calls
  /\ status = "CREATED" /\ threaded = FALSE
  /\ pc = [l \in Loops |-> "idle"] /\ cur = [l \in Loops |-> None]
  /\ stopper = "idle" /\ open = TRUE
  /\ conn = [c \in Connections |-> "waiting"]
  /\ valid = [c \in Connections |-> TRUE]
  /\ connections = {} /\ continue = TRUE /\ closer = "idle"

Goto(l, from, to) == pc[l] = from /\ pc' = [pc EXCEPT ![l] = to]

Conditional(l) == l \in Callers /\ way[l] = "conditional"

\* stop() keeps m_mutex while it joins the thread.
MutexFree == stopper \notin {"store", "join"}

-----------------------------------------------------------------------------
(* run() and the main loop *)

\* Mutant: a server that has been stopped is started once more.
MutRunAgain(r) ==
  /\ MutexFree /\ pc[r] = "idle"
  /\ IF status \in {"STARTING", "RUNNING"}
     THEN pc' = [pc EXCEPT ![r] = "refused"] /\ UNCHANGED <<status, threaded>>
     ELSE /\ way[r] = "threaded" => pc[Own] = "idle"
          /\ threaded' = (way[r] = "threaded")
          /\ status' = "STARTING"
          /\ pc' = IF way[r] = "threaded"
                   THEN [pc EXCEPT ![r] = "returned", ![Own] = "start"]
                   ELSE [pc EXCEPT ![r] = "start"]
  /\ UNCHANGED <<modes, cur, stopper, open, handler>>

\* A call is refused while the server starts or runs; a server that was
\* stopped before is not started again but goes through an empty loop.  (To
\* assign to m_thread while it is joinable ends the program: nobody does.)
Run(r) ==
  /\ MutexFree /\ pc[r] = "idle"
  /\ IF status \in {"STARTING", "RUNNING"}
     THEN pc' = [pc EXCEPT ![r] = "refused"] /\ UNCHANGED <<status, threaded>>
     ELSE /\ way[r] = "threaded" => pc[Own] = "idle"
          /\ threaded' = (way[r] = "threaded")
          /\ status' = IF status = "CREATED" THEN "STARTING" ELSE status
          /\ pc' = IF way[r] = "threaded"
                   THEN [pc EXCEPT ![r] = "returned", ![Own] = "start"]
                   ELSE [pc EXCEPT ![r] = "start"]
  /\ UNCHANGED <<modes, cur, stopper, open, handler>>

\* The loop begins, unless stop() was faster.
Start(l) ==
  /\ Goto(l, "start", "while")
  /\ status' = IF status = "STARTING" THEN "RUNNING" ELSE status
  /\ UNCHANGED <<modes, cur, threaded, stopper, open, handler>>

While(l) ==
  /\ Goto(l, "while", IF status # "RUNNING" THEN "finish"
                      ELSE IF Conditional(l) THEN "condition" ELSE "get")
  /\ UNCHANGED <<modes, server, cur, open, handler>>

\* m_condition() says whether to go on.
Condition(l) ==
  /\ Goto(l, "condition", "get") \/ Goto(l, "condition", "halt")
  /\ UNCHANGED <<modes, server, cur, open, handler>>

Halt(l) ==
  /\ Goto(l, "halt", "while")
  /\ status' = "STOPPING"
  /\ UNCHANGED <<modes, cur, threaded, stopper, open, handler>>

\* The provider has a connection, the oldest that waits ...
Get(l) ==
  /\ open /\ Goto(l, "get", "check")
  /\ \E c \in Connections :
       /\ conn[c] = "waiting" /\ \A d \in 1 .. c - 1 : conn[d] # "waiting"
       /\ cur' = [cur EXCEPT ![l] = c]
       /\ conn' = [conn EXCEPT ![c] = "accepted"]
  /\ UNCHANGED <<modes, server, open, valid, connections, continue, closer>>

\* ... or returns nothing, at the latest when it has been stopped.
GetNothing(l) ==
  /\ Goto(l, "get", "while")
  /\ UNCHANGED <<modes, server, cur, open, handler>>

\* The loop closes the connection that it holds.
Drop(l) ==
  /\ cur' = [cur EXCEPT ![l] = None]
  /\ conn' = [conn EXCEPT ![cur[l]] = "closed"]
  /\ UNCHANGED <<valid, connections, continue, closer>>

Check(l) ==
  /\ \/ /\ status = "RUNNING"
        /\ Goto(l, "check", IF Conditional(l) THEN "recheck" ELSE "handle")
        /\ UNCHANGED <<cur, handler>>
     \/ /\ status # "RUNNING"
        /\ Goto(l, "check", "while") /\ Drop(l)
  /\ UNCHANGED <<modes, server, open>>

\* m_condition() once more, now that there is a connection.
Recheck(l) ==
  /\ \/ Goto(l, "recheck", "handle") /\ UNCHANGED <<cur, handler>>
     \/ Goto(l, "recheck", "halt") /\ Drop(l)
  /\ UNCHANGED <<modes, server, open>>

Finish(l) ==
  /\ Goto(l, "finish", "returned")
  /\ status' = "DONE"
  /\ UNCHANGED <<modes, cur, threaded, stopper, open, handler>>

-----------------------------------------------------------------------------
(* The connection handler and its tasks *)

\* handleConnection() looks at m_continue; a connection that comes too late
\* is closed.
Handle(l) ==
  /\ \/ continue /\ Goto(l, "handle", "construct") /\ UNCHANGED <<cur, handler>>
     \/ ~ continue /\ Goto(l, "handle", "while") /\ Drop(l)
  /\ UNCHANGED <<modes, server, open>>

\* Mutant: the task does not look at m_continue.
MutOnTaskStart(c) ==
  /\ connections' = connections \cup {c}
  /\ UNCHANGED valid

\* The task registers its connection and looks at m_continue again.
OnTaskStart(c) ==
  /\ connections' = connections \cup {c}
  /\ valid' = [valid EXCEPT ![c] = @ /\ continue]

\* A Task is made and moved into its thread.
StartThread(l) ==
  /\ ~ async /\ Goto(l, "construct", "while")
  /\ OnTaskStart(cur[l])
  /\ conn' = [conn EXCEPT ![cur[l]] = "serving"]
  /\ cur' = [cur EXCEPT ![l] = None]
  /\ UNCHANGED <<modes, server, open, continue, closer>>

\* The executor gets a coroutine to make ...
Execute(l) ==
  /\ async /\ Goto(l, "construct", "while")
  /\ conn' = [conn EXCEPT ![cur[l]] = "queued"]
  /\ cur' = [cur EXCEPT ![l] = None]
  /\ UNCHANGED <<modes, server, open, valid, connections, continue, closer>>

\* ... and one of its processors makes it.
StartCoroutine(c) ==
  /\ conn[c] = "queued"
  /\ OnTaskStart(c)
  /\ conn' = [conn EXCEPT ![c] = "serving"]
  /\ UNCHANGED <<modes, server, loops, open, continue, closer>>

\* The task ends: the client left, the exchange is over, or the connection was
\* invalidated and reading or writing it fails.
OnTaskEnd(c) ==
  /\ conn[c] = "serving"
  /\ conn' = [conn EXCEPT ![c] = "closed"]
  /\ connections' = connections \ {c}
  /\ UNCHANGED <<modes, server, loops, open, valid, continue, closer>>

-----------------------------------------------------------------------------
(* Stopping *)

\* Server::stop() does nothing for a server that was not run.
StopServer ==
  /\ stopper = "idle"
  /\ stopper' = CASE status = "CREATED" -> "returned"
                  [] status \in {"STARTING", "RUNNING"} -> "store"
                  [] OTHER -> "join"
  /\ UNCHANGED <<modes, status, threaded, loops, open, handler>>

\* It has seen STARTING or RUNNING; the loop may have gone further since.
StoreStopping ==
  /\ stopper = "store" /\ stopper' = "join"
  /\ status' = "STOPPING"
  /\ UNCHANGED <<modes, threaded, loops, open, handler>>

\* A joinable thread has to end first.
Join ==
  /\ stopper = "join" /\ stopper' = "returned"
  /\ \/ threaded /\ Goto(Own, "returned", "idle")
     \/ (threaded => pc[Own] = "idle") /\ UNCHANGED pc
  /\ UNCHANGED <<modes, status, threaded, cur, open, handler>>

StopProvider ==
  /\ open /\ open' = FALSE
  /\ UNCHANGED <<modes, server, loops, handler>>

StopHandler ==
  /\ closer = "idle" /\ closer' = "invalidate"
  /\ continue' = FALSE
  /\ UNCHANGED <<modes, server, loops, open, conn, valid, connections>>

\* Mutant: the connections are not invalidated.
MutInvalidateAll ==
  /\ closer = "invalidate" /\ closer' = "wait"
  /\ UNCHANGED <<modes, server, loops, open, conn, valid, connections, continue>>

InvalidateAllConnections ==
  /\ closer = "invalidate" /\ closer' = "wait"
  /\ valid' = [c \in Connections |-> valid[c] /\ c \notin connections]
  /\ UNCHANGED <<modes, server, loops, open, conn, connections, continue>>

\* stop() polls the number of connections.
HandlerStopped ==
  /\ closer = "wait" /\ connections = {} /\ closer' = "returned"
  /\ UNCHANGED <<modes, server, loops, open, conn, valid, connections, continue>>

-----------------------------------------------------------------------------
\* What a thread in the main loop does without waiting for the provider.
LoopStep(l) ==
  \/ Start(l) \/ While(l) \/ Condition(l) \/ Halt(l) \/ Check(l) \/ Recheck(l)
  \/ Finish(l) \/ Handle(l) \/ StartThread(l) \/ Execute(l)

CloserStep == InvalidateAllConnections \/ HandlerStopped

Next ==
  \/ \E r \in Callers : Run(r)
  \/ \E l \in Loops : LoopStep(l) \/ Get(l) \/ GetNothing(l)
  \/ \E c \in Connections : StartCoroutine(c) \/ OnTaskEnd(c)
  \/ StopServer \/ StoreStopping \/ Join
  \/ StopProvider \/ StopHandler \/ CloserStep

Spec == Init /\ [][Next]_vars

\* Threads run and the executor makes its coroutines.  A provider that is open
\* may keep the loop waiting, and only a task whose connection is invalidated
\* has to end.  Nobody has to stop anything.
Fairness ==
  /\ \A l \in Loops : WF_vars(LoopStep(l)) /\ WF_vars(~ open /\ GetNothing(l))
  /\ \A c \in Connections :
       WF_vars(StartCoroutine(c)) /\ WF_vars(~ valid[c] /\ OnTaskEnd(c))
  /\ WF_vars(StoreStopping \/ Join) /\ WF_vars(CloserStep)

FairSpec == Spec /\ Fairness

-----------------------------------------------------------------------------
(* Properties *)

\* However run() and stop() are called, one thread at most is inside the main
\* loop of a server (Server.cpp:48-145).
OneLoop ==
  \A k, l \in Loops : pc[k] \in Running /\ pc[l] \in Running => k = l

\* From the moment the handler's stop() has gone over the connections, every
\* connection that has a task is invalid, whether the task was registered
\* before, or between the look of handleConnection() and now
\* (HttpConnectionHandler.cpp:40-62, 93-127).
StoppedInvalid ==
  closer \in {"wait", "returned"} => \A c \in Connections :
    conn[c] = "serving" => ~ valid[c]

\* The handler's stop() returns at a moment when no task serves a connection
\* (HttpConnectionHandler.cpp:129-132).
WaitedForAll ==
  [][closer = "wait" /\ closer' = "returned" =>
       \A c \in Connections : conn[c] # "serving"]_vars

\* When Server::stop() returns, the server's own thread takes no connection any
\* more, whoever else called run() meanwhile (Server.cpp:124-163).
StopJoins ==
  [][stopper = "join" /\ stopper' = "returned" => pc[Own] \notin Running]_vars

\* Server::stop() returns when the provider is stopped too.
StopReturns == stopper # "idle" /\ ~ open ~> stopper = "returned"

\* The handler's stop() returns, whatever the main loop and the clients do.
HandlerStopReturns == closer = "invalidate" ~> closer = "returned"

-----------------------------------------------------------------------------
(***************************************************************************)
(* Proofs about the server and its connection handler for any number of    *)
(* callers of run(), in any ways, and any number of connections: whatever  *)
(* the order of the calls and the three stops, there is one main loop, the *)
(* server's thread is at rest when stop() returns, and no task is left     *)
(* with a valid connection.                                                *)
(***************************************************************************)

\* A loop that is about to do something with a connection has one.
CurOK ==
  \A l \in Loops :
    pc[l] \in {"check", "recheck", "handle", "construct"} => cur[l] \in Connections

\* Only the status lets a thread into the main loop, and only one thread at a
\* time is where it could use that.
LoopInv ==
  /\ status = "CREATED" => \A l \in Loops : pc[l] \notin Active
  /\ status = "STARTING" =>
       /\ \A l \in Loops : pc[l] \notin {"while", "finish"} \cup Running
       /\ \A k, l \in Loops : pc[k] = "start" /\ pc[l] = "start" => k = l
  /\ status = "RUNNING" =>
       /\ \A l \in Loops : pc[l] \notin {"start", "finish"}
       /\ \A k, l \in Loops :
            pc[k] \in {"while"} \cup Running /\ pc[l] \in {"while"} \cup Running => k = l
  /\ OneLoop

\* m_threaded is set while the server's own thread can be in its loop, and the
\* loop of a server that is not running any more is being joined.
ThreadInv ==
  /\ status \in {"STARTING", "RUNNING"} /\ pc[Own] \in Active => threaded
  /\ pc[Own] \in Running => threaded /\ (status = "RUNNING" \/ stopper = "join")

\* Every task is registered, and m_continue says whether stop() has begun.
HandlerInv ==
  /\ \A c \in Connections : conn[c] = "serving" => c \in connections
  /\ closer # "idle" => ~ continue
  /\ StoppedInvalid

Inv == TypeOK /\ CurOK /\ LoopInv /\ ThreadInv /\ HandlerInv

-----------------------------------------------------------------------------
\* A server that has not been run.
LEMMA Initially == Init => Inv
  BY ServerAssumption
     DEF Init, Inv, TypeOK, CurOK, LoopInv, ThreadInv, HandlerInv,
     OneLoop, StoppedInvalid, Active, Running, Loops, Ways, None

\* What run() does to a call that is not refused, with m_threaded spelled out.
RunBegins(r) ==
  /\ MutexFree /\ pc[r] = "idle" /\ status \notin {"STARTING", "RUNNING"}
  /\ \/ way[r] = "threaded" /\ threaded' = TRUE
     \/ way[r] # "threaded" /\ threaded' = FALSE
  /\ status' = IF status = "CREATED" THEN "STARTING" ELSE status
  /\ pc' = IF way[r] = "threaded" THEN [pc EXCEPT ![r] = "returned", ![Own] = "start"]
                                  ELSE [pc EXCEPT ![r] = "start"]
  /\ UNCHANGED <<modes, cur, stopper, open, handler>>

\* And to a call that is.
RunRefused(r) ==
  /\ pc[r] = "idle" /\ pc' = [pc EXCEPT ![r] = "refused"]
  /\ UNCHANGED <<modes, server, cur, open, handler>>

\* run() begins, or is refused.
LEMMA RunEffect ==
  ASSUME NEW r \in Callers, Run(r)
  PROVE  RunBegins(r) \/ RunRefused(r)
<1>1. CASE status \in {"STARTING", "RUNNING"}
  BY <1>1, Zenon DEF Run, RunRefused, server
<1>2. CASE status \notin {"STARTING", "RUNNING"}
  <2>1. CASE way[r] = "threaded"
    <3>1. threaded' = TRUE BY <1>2, <2>1, Zenon DEF Run
    <3> QED BY <1>2, <2>1, <3>1, Zenon DEF Run, RunBegins
  <2>2. CASE way[r] # "threaded"
    <3>1. threaded' = FALSE BY <1>2, <2>2, Zenon DEF Run
    <3> QED BY <1>2, <2>2, <3>1, Zenon DEF Run, RunBegins
  <2> QED BY <2>1, <2>2
<1> QED BY <1>1, <1>2

\* Values keep their types, and a loop its connection.
LEMMA TypeStep ==
  ASSUME TypeOK, CurOK, [Next]_vars
  PROVE  (TypeOK /\ CurOK)'
<1>1. ASSUME NEW r \in Callers, Run(r) PROVE (TypeOK /\ CurOK)'
  <2>1. CASE RunBegins(r)
    BY <2>1, ServerAssumption
       DEF TypeOK, CurOK, Active, Running, Ways, Loops, server, loops, handler,
           modes, RunBegins, MutexFree
  <2>2. CASE RunRefused(r)
    BY <2>2, ServerAssumption
       DEF TypeOK, CurOK, Active, Running, Ways, Loops, server, loops, handler,
           modes, RunRefused
  <2> QED BY <1>1, <2>1, <2>2, RunEffect
<1>2. ASSUME NEW l \in Loops, LoopStep(l) \/ Get(l) \/ GetNothing(l)
      PROVE  (TypeOK /\ CurOK)'
  <2>1. CASE Start(l)
    BY <2>1, ServerAssumption
       DEF TypeOK, CurOK, Active, Running, Ways, Loops, server, loops, handler,
           modes, Start, Goto
  <2>2. CASE While(l)
    BY <2>2, ServerAssumption
       DEF TypeOK, CurOK, Active, Running, Ways, Loops, server, loops, handler,
           modes, While, Goto
  <2>3. CASE Condition(l)
    BY <2>3, ServerAssumption
       DEF TypeOK, CurOK, Active, Running, Ways, Loops, server, loops, handler,
           modes, Condition, Goto
  <2>4. CASE Halt(l)
    BY <2>4, ServerAssumption
       DEF TypeOK, CurOK, Active, Running, Ways, Loops, server, loops, handler,
           modes, Halt, Goto
  <2>5. CASE Check(l)
    BY <2>5, ServerAssumption
       DEF TypeOK, CurOK, Active, Running, Ways, Loops, server, loops, handler,
           modes, Check, Goto, Drop
  <2>6. CASE Recheck(l)
    BY <2>6, ServerAssumption
       DEF TypeOK, CurOK, Active, Running, Ways, Loops, server, loops, handler,
           modes, Recheck, Goto, Drop
  <2>7. CASE Finish(l)
    BY <2>7, ServerAssumption
       DEF TypeOK, CurOK, Active, Running, Ways, Loops, server, loops, handler,
           modes, Finish, Goto
  <2>8. CASE Handle(l)
    BY <2>8, ServerAssumption
       DEF TypeOK, CurOK, Active, Running, Ways, Loops, server, loops, handler,
           modes, Handle, Goto, Drop
  <2>9. CASE StartThread(l)
    BY <2>9, ServerAssumption
       DEF TypeOK, CurOK, Active, Running, Ways, Loops, server, loops, handler,
           modes, StartThread, Goto, OnTaskStart
  <2>10. CASE Execute(l)
    BY <2>10, ServerAssumption
       DEF TypeOK, CurOK, Active, Running, Ways, Loops, server, loops, handler,
           modes, Execute, Goto
  <2>11. CASE Get(l)
    BY <2>11, ServerAssumption
       DEF TypeOK, CurOK, Active, Running, Ways, Loops, server, loops, handler,
           modes, Get, Goto
  <2>12. CASE GetNothing(l)
    BY <2>12, ServerAssumption
       DEF TypeOK, CurOK, Active, Running, Ways, Loops, server, loops, handler,
           modes, GetNothing, Goto
  <2> QED BY <1>2, <2>1, <2>2, <2>3, <2>4, <2>5, <2>6, <2>7, <2>8, <2>9, <2>10,
             <2>11, <2>12
     DEF LoopStep
<1>3. ASSUME NEW c \in Connections, StartCoroutine(c) \/ OnTaskEnd(c)
      PROVE  (TypeOK /\ CurOK)'
  BY <1>3, ServerAssumption
     DEF TypeOK, CurOK, Active, Running, Ways, Loops, server, loops, handler,
         modes, StartCoroutine, OnTaskStart, OnTaskEnd
<1>4. CASE StopServer
  BY <1>4, ServerAssumption
     DEF TypeOK, CurOK, Active, Running, Ways, Loops, server, loops, handler,
         modes, StopServer
<1>5. CASE StoreStopping
  BY <1>5, ServerAssumption
     DEF TypeOK, CurOK, Active, Running, Ways, Loops, server, loops, handler,
         modes, StoreStopping
<1>6. CASE Join
  BY <1>6, ServerAssumption
     DEF TypeOK, CurOK, Active, Running, Ways, Loops, server, loops, handler,
         modes, Join, Goto
<1>7. CASE StopProvider
  BY <1>7, ServerAssumption
     DEF TypeOK, CurOK, Active, Running, Ways, Loops, server, loops, handler,
         modes, StopProvider
<1>8. CASE StopHandler
  BY <1>8, ServerAssumption
     DEF TypeOK, CurOK, Active, Running, Ways, Loops, server, loops, handler,
         modes, StopHandler
<1>9. CASE InvalidateAllConnections
  BY <1>9, ServerAssumption
     DEF TypeOK, CurOK, Active, Running, Ways, Loops, server, loops, handler,
         modes, InvalidateAllConnections
<1>10. CASE HandlerStopped
  BY <1>10, ServerAssumption
     DEF TypeOK, CurOK, Active, Running, Ways, Loops, server, loops, handler,
         modes, HandlerStopped
<1>11. CASE UNCHANGED vars
  BY <1>11
     DEF TypeOK, CurOK, Active, Running, Ways, Loops, server, loops, handler,
         modes, vars
<1> QED BY <1>1, <1>2, <1>3, <1>4, <1>5, <1>6, <1>7, <1>8, <1>9, <1>10, <1>11
   DEF Next, CloserStep

\* Nobody enters the loop beside the thread that is in it.
LEMMA LoopsStep ==
  ASSUME TypeOK, LoopInv, [Next]_vars
  PROVE  LoopInv'
<1>1. ASSUME NEW r \in Callers, Run(r) PROVE LoopInv'
  <2>1. CASE RunBegins(r)
    BY <2>1, ServerAssumption
       DEF TypeOK, LoopInv, OneLoop, Active, Running, Loops, server, loops,
           handler, modes, RunBegins, MutexFree
  <2>2. CASE RunRefused(r)
    BY <2>2, ServerAssumption
       DEF TypeOK, LoopInv, OneLoop, Active, Running, Loops, server, loops,
           handler, modes, RunRefused
  <2> QED BY <1>1, <2>1, <2>2, RunEffect
<1>2. ASSUME NEW l \in Loops, LoopStep(l) \/ Get(l) \/ GetNothing(l)
      PROVE  LoopInv'
  <2>1. CASE Start(l)
    BY <2>1, ServerAssumption
       DEF TypeOK, LoopInv, OneLoop, Active, Running, Loops, server, loops,
           handler, modes, Start, Goto
  <2>2. CASE While(l)
    BY <2>2, ServerAssumption
       DEF TypeOK, LoopInv, OneLoop, Active, Running, Loops, server, loops,
           handler, modes, While, Goto
  <2>3. CASE Condition(l)
    BY <2>3, ServerAssumption
       DEF TypeOK, LoopInv, OneLoop, Active, Running, Loops, server, loops,
           handler, modes, Condition, Goto
  <2>4. CASE Halt(l)
    BY <2>4, ServerAssumption
       DEF TypeOK, LoopInv, OneLoop, Active, Running, Loops, server, loops,
           handler, modes, Halt, Goto
  <2>5. CASE Check(l)
    BY <2>5, ServerAssumption
       DEF TypeOK, LoopInv, OneLoop, Active, Running, Loops, server, loops,
           handler, modes, Check, Goto, Drop
  <2>6. CASE Recheck(l)
    BY <2>6, ServerAssumption
       DEF TypeOK, LoopInv, OneLoop, Active, Running, Loops, server, loops,
           handler, modes, Recheck, Goto, Drop
  <2>7. CASE Finish(l)
    BY <2>7, ServerAssumption
       DEF TypeOK, LoopInv, OneLoop, Active, Running, Loops, server, loops,
           handler, modes, Finish, Goto
  <2>8. CASE Handle(l)
    BY <2>8, ServerAssumption
       DEF TypeOK, LoopInv, OneLoop, Active, Running, Loops, server, loops,
           handler, modes, Handle, Goto, Drop
  <2>9. CASE StartThread(l)
    BY <2>9, ServerAssumption
       DEF TypeOK, LoopInv, OneLoop, Active, Running, Loops, server, loops,
           handler, modes, StartThread, Goto, OnTaskStart
  <2>10. CASE Execute(l)
    BY <2>10, ServerAssumption
       DEF TypeOK, LoopInv, OneLoop, Active, Running, Loops, server, loops,
           handler, modes, Execute, Goto
  <2>11. CASE Get(l)
    BY <2>11, ServerAssumption
       DEF TypeOK, LoopInv, OneLoop, Active, Running, Loops, server, loops,
           handler, modes, Get, Goto
  <2>12. CASE GetNothing(l)
    BY <2>12, ServerAssumption
       DEF TypeOK, LoopInv, OneLoop, Active, Running, Loops, server, loops,
           handler, modes, GetNothing, Goto
  <2> QED BY <1>2, <2>1, <2>2, <2>3, <2>4, <2>5, <2>6, <2>7, <2>8, <2>9, <2>10,
             <2>11, <2>12
     DEF LoopStep
<1>3. ASSUME NEW c \in Connections, StartCoroutine(c) \/ OnTaskEnd(c)
      PROVE  LoopInv'
  BY <1>3, ServerAssumption
     DEF TypeOK, LoopInv, OneLoop, Active, Running, Loops, server, loops,
         handler, modes, StartCoroutine, OnTaskStart, OnTaskEnd
<1>4. CASE StopServer
  BY <1>4, ServerAssumption
     DEF TypeOK, LoopInv, OneLoop, Active, Running, Loops, server, loops,
         handler, modes, StopServer
<1>5. CASE StoreStopping
  BY <1>5, ServerAssumption
     DEF TypeOK, LoopInv, OneLoop, Active, Running, Loops, server, loops,
         handler, modes, StoreStopping
<1>6. CASE Join
  BY <1>6, ServerAssumption
     DEF TypeOK, LoopInv, OneLoop, Active, Running, Loops, server, loops,
         handler, modes, Join, Goto
<1>7. CASE StopProvider
  BY <1>7, ServerAssumption
     DEF TypeOK, LoopInv, OneLoop, Active, Running, Loops, server, loops,
         handler, modes, StopProvider
<1>8. CASE StopHandler
  BY <1>8, ServerAssumption
     DEF TypeOK, LoopInv, OneLoop, Active, Running, Loops, server, loops,
         handler, modes, StopHandler
<1>9. CASE InvalidateAllConnections
  BY <1>9, ServerAssumption
     DEF TypeOK, LoopInv, OneLoop, Active, Running, Loops, server, loops,
         handler, modes, InvalidateAllConnections
<1>10. CASE HandlerStopped
  BY <1>10, ServerAssumption
     DEF TypeOK, LoopInv, OneLoop, Active, Running, Loops, server, loops,
         handler, modes, HandlerStopped
<1>11. CASE UNCHANGED vars
  BY <1>11
     DEF TypeOK, LoopInv, OneLoop, Active, Running, Loops, server, loops,
         handler, modes, vars
<1> QED BY <1>1, <1>2, <1>3, <1>4, <1>5, <1>6, <1>7, <1>8, <1>9, <1>10, <1>11
   DEF Next, CloserStep

\* m_threaded is overwritten only while the server's thread is out of its loop.
LEMMA ThreadStep ==
  ASSUME TypeOK, LoopInv, ThreadInv, [Next]_vars
  PROVE  ThreadInv'
<1>1. ASSUME NEW r \in Callers, Run(r) PROVE ThreadInv'
  <2>1. CASE RunBegins(r)
    BY <2>1, ServerAssumption
       DEF TypeOK, LoopInv, OneLoop, ThreadInv, Active, Running, Loops, server,
           loops, handler, modes, RunBegins, MutexFree
  <2>2. CASE RunRefused(r)
    BY <2>2, ServerAssumption
       DEF TypeOK, LoopInv, OneLoop, ThreadInv, Active, Running, Loops, server,
           loops, handler, modes, RunRefused
  <2> QED BY <1>1, <2>1, <2>2, RunEffect
<1>2. ASSUME NEW l \in Loops, LoopStep(l) \/ Get(l) \/ GetNothing(l)
      PROVE  ThreadInv'
  <2>1. CASE Start(l)
    BY <2>1, ServerAssumption
       DEF TypeOK, LoopInv, OneLoop, ThreadInv, Active, Running, Loops, server,
           loops, handler, modes, Start, Goto
  <2>2. CASE While(l)
    BY <2>2, ServerAssumption
       DEF TypeOK, LoopInv, OneLoop, ThreadInv, Active, Running, Loops, server,
           loops, handler, modes, While, Goto
  <2>3. CASE Condition(l)
    BY <2>3, ServerAssumption
       DEF TypeOK, LoopInv, OneLoop, ThreadInv, Active, Running, Loops, server,
           loops, handler, modes, Condition, Goto
  <2>4. CASE Halt(l)
    BY <2>4, ServerAssumption
       DEF TypeOK, LoopInv, OneLoop, ThreadInv, Active, Running, Loops, server,
           loops, handler, modes, Halt, Goto
  <2>5. CASE Check(l)
    BY <2>5, ServerAssumption
       DEF TypeOK, LoopInv, OneLoop, ThreadInv, Active, Running, Loops, server,
           loops, handler, modes, Check, Goto, Drop
  <2>6. CASE Recheck(l)
    BY <2>6, ServerAssumption
       DEF TypeOK, LoopInv, OneLoop, ThreadInv, Active, Running, Loops, server,
           loops, handler, modes, Recheck, Goto, Drop
  <2>7. CASE Finish(l)
    BY <2>7, ServerAssumption
       DEF TypeOK, LoopInv, OneLoop, ThreadInv, Active, Running, Loops, server,
           loops, handler, modes, Finish, Goto
  <2>8. CASE Handle(l)
    BY <2>8, ServerAssumption
       DEF TypeOK, LoopInv, OneLoop, ThreadInv, Active, Running, Loops, server,
           loops, handler, modes, Handle, Goto, Drop
  <2>9. CASE StartThread(l)
    BY <2>9, ServerAssumption
       DEF TypeOK, LoopInv, OneLoop, ThreadInv, Active, Running, Loops, server,
           loops, handler, modes, StartThread, Goto, OnTaskStart
  <2>10. CASE Execute(l)
    BY <2>10, ServerAssumption
       DEF TypeOK, LoopInv, OneLoop, ThreadInv, Active, Running, Loops, server,
           loops, handler, modes, Execute, Goto
  <2>11. CASE Get(l)
    BY <2>11, ServerAssumption
       DEF TypeOK, LoopInv, OneLoop, ThreadInv, Active, Running, Loops, server,
           loops, handler, modes, Get, Goto
  <2>12. CASE GetNothing(l)
    BY <2>12, ServerAssumption
       DEF TypeOK, LoopInv, OneLoop, ThreadInv, Active, Running, Loops, server,
           loops, handler, modes, GetNothing, Goto
  <2> QED BY <1>2, <2>1, <2>2, <2>3, <2>4, <2>5, <2>6, <2>7, <2>8, <2>9, <2>10,
             <2>11, <2>12
     DEF LoopStep
<1>3. ASSUME NEW c \in Connections, StartCoroutine(c) \/ OnTaskEnd(c)
      PROVE  ThreadInv'
  BY <1>3, ServerAssumption
     DEF TypeOK, LoopInv, OneLoop, ThreadInv, Active, Running, Loops, server,
         loops, handler, modes, StartCoroutine, OnTaskStart, OnTaskEnd
<1>4. CASE StopServer
  BY <1>4, ServerAssumption
     DEF TypeOK, LoopInv, OneLoop, ThreadInv, Active, Running, Loops, server,
         loops, handler, modes, StopServer
<1>5. CASE StoreStopping
  BY <1>5, ServerAssumption
     DEF TypeOK, LoopInv, OneLoop, ThreadInv, Active, Running, Loops, server,
         loops, handler, modes, StoreStopping
<1>6. CASE Join
  BY <1>6, ServerAssumption
     DEF TypeOK, LoopInv, OneLoop, ThreadInv, Active, Running, Loops, server,
         loops, handler, modes, Join, Goto
<1>7. CASE StopProvider
  BY <1>7, ServerAssumption
     DEF TypeOK, LoopInv, OneLoop, ThreadInv, Active, Running, Loops, server,
         loops, handler, modes, StopProvider
<1>8. CASE StopHandler
  BY <1>8, ServerAssumption
     DEF TypeOK, LoopInv, OneLoop, ThreadInv, Active, Running, Loops, server,
         loops, handler, modes, StopHandler
<1>9. CASE InvalidateAllConnections
  BY <1>9, ServerAssumption
     DEF TypeOK, LoopInv, OneLoop, ThreadInv, Active, Running, Loops, server,
         loops, handler, modes, InvalidateAllConnections
<1>10. CASE HandlerStopped
  BY <1>10, ServerAssumption
     DEF TypeOK, LoopInv, OneLoop, ThreadInv, Active, Running, Loops, server,
         loops, handler, modes, HandlerStopped
<1>11. CASE UNCHANGED vars
  BY <1>11
     DEF TypeOK, LoopInv, OneLoop, ThreadInv, Active, Running, Loops, server,
         loops, handler, modes, vars
<1> QED BY <1>1, <1>2, <1>3, <1>4, <1>5, <1>6, <1>7, <1>8, <1>9, <1>10, <1>11
   DEF Next, CloserStep

\* A task is registered before, or invalidated with, everything that stop() sees.
LEMMA HandlerStep ==
  ASSUME TypeOK, CurOK, HandlerInv, [Next]_vars
  PROVE  HandlerInv'
<1>1. ASSUME NEW r \in Callers, Run(r) PROVE HandlerInv'
  <2>1. CASE RunBegins(r)
    BY <2>1, ServerAssumption
       DEF TypeOK, CurOK, HandlerInv, StoppedInvalid, Loops, server, loops,
           handler, modes, RunBegins, MutexFree
  <2>2. CASE RunRefused(r)
    BY <2>2, ServerAssumption
       DEF TypeOK, CurOK, HandlerInv, StoppedInvalid, Loops, server, loops,
           handler, modes, RunRefused
  <2> QED BY <1>1, <2>1, <2>2, RunEffect
<1>2. ASSUME NEW l \in Loops, LoopStep(l) \/ Get(l) \/ GetNothing(l)
      PROVE  HandlerInv'
  <2>1. CASE Start(l)
    BY <2>1, ServerAssumption
       DEF TypeOK, CurOK, HandlerInv, StoppedInvalid, Loops, server, loops,
           handler, modes, Start, Goto
  <2>2. CASE While(l)
    BY <2>2, ServerAssumption
       DEF TypeOK, CurOK, HandlerInv, StoppedInvalid, Loops, server, loops,
           handler, modes, While, Goto
  <2>3. CASE Condition(l)
    BY <2>3, ServerAssumption
       DEF TypeOK, CurOK, HandlerInv, StoppedInvalid, Loops, server, loops,
           handler, modes, Condition, Goto
  <2>4. CASE Halt(l)
    BY <2>4, ServerAssumption
       DEF TypeOK, CurOK, HandlerInv, StoppedInvalid, Loops, server, loops,
           handler, modes, Halt, Goto
  <2>5. CASE Check(l)
    BY <2>5, ServerAssumption
       DEF TypeOK, CurOK, HandlerInv, StoppedInvalid, Loops, server, loops,
           handler, modes, Check, Goto, Drop
  <2>6. CASE Recheck(l)
    BY <2>6, ServerAssumption
       DEF TypeOK, CurOK, HandlerInv, StoppedInvalid, Loops, server, loops,
           handler, modes, Recheck, Goto, Drop
  <2>7. CASE Finish(l)
    BY <2>7, ServerAssumption
       DEF TypeOK, CurOK, HandlerInv, StoppedInvalid, Loops, server, loops,
           handler, modes, Finish, Goto
  <2>8. CASE Handle(l)
    BY <2>8, ServerAssumption
       DEF TypeOK, CurOK, HandlerInv, StoppedInvalid, Loops, server, loops,
           handler, modes, Handle, Goto, Drop
  <2>9. CASE StartThread(l)
    BY <2>9, ServerAssumption
       DEF TypeOK, CurOK, HandlerInv, StoppedInvalid, Loops, server, loops,
           handler, modes, StartThread, Goto, OnTaskStart
  <2>10. CASE Execute(l)
    BY <2>10, ServerAssumption
       DEF TypeOK, CurOK, HandlerInv, StoppedInvalid, Loops, server, loops,
           handler, modes, Execute, Goto
  <2>11. CASE Get(l)
    BY <2>11, ServerAssumption
       DEF TypeOK, CurOK, HandlerInv, StoppedInvalid, Loops, server, loops,
           handler, modes, Get, Goto
  <2>12. CASE GetNothing(l)
    BY <2>12, ServerAssumption
       DEF TypeOK, CurOK, HandlerInv, StoppedInvalid, Loops, server, loops,
           handler, modes, GetNothing, Goto
  <2> QED BY <1>2, <2>1, <2>2, <2>3, <2>4, <2>5, <2>6, <2>7, <2>8, <2>9, <2>10,
             <2>11, <2>12
     DEF LoopStep
<1>3. ASSUME NEW c \in Connections, StartCoroutine(c) \/ OnTaskEnd(c)
      PROVE  HandlerInv'
  BY <1>3, ServerAssumption
     DEF TypeOK, CurOK, HandlerInv, StoppedInvalid, Loops, server, loops,
         handler, modes, StartCoroutine, OnTaskStart, OnTaskEnd
<1>4. CASE StopServer
  BY <1>4, ServerAssumption
     DEF TypeOK, CurOK, HandlerInv, StoppedInvalid, Loops, server, loops,
         handler, modes, StopServer
<1>5. CASE StoreStopping
  BY <1>5, ServerAssumption
     DEF TypeOK, CurOK, HandlerInv, StoppedInvalid, Loops, server, loops,
         handler, modes, StoreStopping
<1>6. CASE Join
  BY <1>6, ServerAssumption
     DEF TypeOK, CurOK, HandlerInv, StoppedInvalid, Loops, server, loops,
         handler, modes, Join, Goto
<1>7. CASE StopProvider
  BY <1>7, ServerAssumption
     DEF TypeOK, CurOK, HandlerInv, StoppedInvalid, Loops, server, loops,
         handler, modes, StopProvider
<1>8. CASE StopHandler
  BY <1>8, ServerAssumption
     DEF TypeOK, CurOK, HandlerInv, StoppedInvalid, Loops, server, loops,
         handler, modes, StopHandler
<1>9. CASE InvalidateAllConnections
  BY <1>9, ServerAssumption
     DEF TypeOK, CurOK, HandlerInv, StoppedInvalid, Loops, server, loops,
         handler, modes, InvalidateAllConnections
<1>10. CASE HandlerStopped
  BY <1>10, ServerAssumption
     DEF TypeOK, CurOK, HandlerInv, StoppedInvalid, Loops, server, loops,
         handler, modes, HandlerStopped
<1>11. CASE UNCHANGED vars
  BY <1>11
     DEF TypeOK, CurOK, HandlerInv, StoppedInvalid, Loops, server, loops,
         handler, modes, vars
<1> QED BY <1>1, <1>2, <1>3, <1>4, <1>5, <1>6, <1>7, <1>8, <1>9, <1>10, <1>11
   DEF Next, CloserStep

\* The invariant of the server, its loops and its handler.
THEOREM Invariance == Spec => []Inv
<1>1. Inv /\ [Next]_vars => Inv'
  BY TypeStep, LoopsStep, ThreadStep, HandlerStep DEF Inv
<1> QED BY Initially, <1>1, PTL DEF Spec

\* Type correctness of the server, its loops and its handler.
THEOREM TypeCorrect == Spec => []TypeOK
  BY Invariance, PTL DEF Inv

\* However often and from wherever run() and stop() are called, one thread at
\* most is in the main loop.
THEOREM SingleLoop == Spec => []OneLoop
<1>1. Inv => OneLoop BY DEF Inv, LoopInv
<1> QED BY Invariance, <1>1, PTL

\* Once the handler's stop() has gone over the connections no task, old or
\* late, has a valid one.
THEOREM NoValidTaskLeft == Spec => []StoppedInvalid
<1>1. Inv => StoppedInvalid BY DEF Inv, HandlerInv
<1> QED BY Invariance, <1>1, PTL

\* The handler's stop() returns only when no task serves a connection.
THEOREM TasksWaitedFor == Spec => WaitedForAll
<1>1. Inv /\ [Next]_vars =>
        (closer = "wait" /\ closer' = "returned" =>
           \A c \in Connections : conn[c] # "serving")
  <2> SUFFICES ASSUME Inv, [Next]_vars, closer = "wait", closer' = "returned"
               PROVE  \A c \in Connections : conn[c] # "serving"
    OBVIOUS
  <2>1. HandlerStopped
    BY DEF Next, CloserStep, LoopStep, Run, Start, While, Condition, Halt, Get,
       GetNothing, Check, Recheck, Finish, Handle, Drop, StartThread, Execute,
       StartCoroutine, OnTaskEnd, StopServer, StoreStopping, Join, StopProvider,
       StopHandler, InvalidateAllConnections, HandlerStopped, vars, handler
  <2> QED BY <2>1 DEF Inv, HandlerInv, HandlerStopped
<1> QED BY Invariance, <1>1, PTL DEF Spec, WaitedForAll

\* When Server::stop() returns, the server's own thread takes no connection.
THEOREM ThreadJoined == Spec => StopJoins
<1>1. Inv /\ [Next]_vars =>
        (stopper = "join" /\ stopper' = "returned" => pc[Own] \notin Running)
  <2> SUFFICES ASSUME Inv, [Next]_vars, stopper = "join", stopper' = "returned"
               PROVE  pc[Own] \notin Running
    OBVIOUS
  <2>1. Join
    BY DEF Next, CloserStep, LoopStep, Run, Start, While, Condition, Halt, Get,
       GetNothing, Check, Recheck, Finish, Handle, Drop, StartThread, Execute,
       StartCoroutine, OnTaskEnd, StopServer, StoreStopping, Join, StopProvider,
       StopHandler, InvalidateAllConnections, HandlerStopped, vars, server
  <2> QED BY <2>1 DEF Inv, ThreadInv, Join, Goto, Running
<1> QED BY Invariance, <1>1, PTL DEF Spec, StopJoins
=============================================================================
