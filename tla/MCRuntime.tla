------------------------------ MODULE MCRuntime ------------------------------
(* The threads that a program with oatpp keeps running: a server's main loop  *)
(* and tasks, the executor's workers, the monitor of connections.  A          *)
(* behaviour is one part's; the others rest in states in which none of their  *)
(* fair steps is enabled.                                                     *)
EXTENDS HttpServer, AsyncWorkers, ConnectionMonitor, TLC

CONSTANTS Parts

VARIABLES which

runtimeVars == <<which, vars, workerVars, monitorVars>>

-----------------------------------------------------------------------------
(* At rest every thread has ended. *)

ServerRests ==
  /\ async = FALSE /\ way = (CHOOSE w \in Calls : TRUE)
  /\ status = "DONE" /\ threaded = FALSE
  /\ pc = [l \in Loops |-> "returned"] /\ cur = [l \in Loops |-> None]
  /\ stopper = "returned" /\ open = FALSE
  /\ conn = [c \in Connections |-> "waiting"] /\ valid = [c \in Connections |-> TRUE]
  /\ connections = {} /\ continue = FALSE /\ closer = "returned"

WorkersRest ==
  /\ ioWorkerType = "naive" /\ m_running = [w \in Workers |-> FALSE]
  /\ m_backlog = [w \in Workers |-> <<>>] /\ m_queue = [w \in Workers |-> <<>>]
  /\ kept = <<>> /\ roundIteration = 0 /\ consumeIteration = 0
  /\ epoll = [w \in EventWorkers |->
       [added |-> {}, enabled |-> {}, trigger |-> FALSE, events |-> {}, pop |-> <<>>]]
  /\ worker = [w \in Workers |-> "stopped"]
  /\ scheduled = [c \in Handles |-> Finished]
  /\ awaits = [c \in Handles |-> "none"] /\ ready = {} /\ atProcessor = {}
  /\ mayStop = FALSE /\ stops = <<>>

\* Two coroutines where one may keep the other from being polled.
WorkersStart ==
  /\ WorkersInit
  /\ atProcessor = IF ioWorkerType = "naive" /\ ~mayStop THEN Handles
                   ELSE {CHOOSE c \in Handles : TRUE}

MonitorRests ==
  /\ configured = "max age" /\ user = [c \in Proxies |-> "destroyed"] /\ m_connections = {}
  /\ m_metricsCheckers = {} /\ m_statCollectors = {}
  /\ monitorRunning = FALSE /\ m_stopped = TRUE /\ monitorStopper = "returned"
  /\ task = "ended" /\ todo = {} /\ statsMutex = [c \in Proxies |-> "free"]
  /\ aged = {} /\ quiet = [d \in Directions |-> {}]
  /\ metricsData = [c \in Proxies |-> {}] /\ leaked = {} /\ monitorValid = Proxies

\* As MonitorInit with one proxy; two where the application has added its checker and
\* its collectors before the first connection.
MonitorStarts ==
  /\ configured \in Checkers /\ m_connections = {}
  /\ monitorRunning = TRUE /\ m_stopped = FALSE /\ monitorStopper = "none"
  /\ task = "loop" /\ todo = {}
  /\ statsMutex = [c \in Proxies |-> "free"]
  /\ aged = {} /\ quiet = [d \in Directions |-> {}]
  /\ metricsData = [c \in Proxies |-> {}] /\ leaked = {} /\ monitorValid = Proxies
  /\ LET first == CHOOSE c \in Proxies : TRUE IN
     \/ /\ user = [c \in Proxies |-> IF c = first THEN "none" ELSE "destroyed"]
        /\ m_metricsCheckers = {} /\ m_statCollectors = {}
     \/ /\ configured = "max age" /\ user = [c \in Proxies |-> "none"]
        /\ m_metricsCheckers = {configured} /\ m_statCollectors = Metrics

RuntimeInit ==
  /\ which \in Parts
  /\ IF which = "server" THEN Init ELSE ServerRests
  /\ IF which = "workers" THEN WorkersStart ELSE WorkersRest
  /\ IF which = "monitor" THEN MonitorStarts ELSE MonitorRests

RuntimeNext ==
  /\ UNCHANGED which
  /\ \/ which = "server" /\ Next /\ UNCHANGED <<workerVars, monitorVars>>
     \/ which = "workers" /\ WorkersNext /\ UNCHANGED <<vars, monitorVars>>
     \/ which = "monitor" /\ MonitorNext /\ UNCHANGED <<vars, workerVars>>

\* Each part under the fairness that its module justifies.
RuntimeSpec ==
  /\ RuntimeInit /\ [][RuntimeNext]_runtimeVars
  /\ Fairness /\ WorkersFairness /\ MonitorFairness

-----------------------------------------------------------------------------
(* Properties; OneLoop, StoppedInvalid, HandlerStopReturns, HeldOnce,         *)
(* ProxiesAccountedFor and OverdueInvalidated are those of the parts.         *)

\* An event that happened is seen by its coroutine unless the executor stops, and the
\* executor's stop ends every worker (async/Executor.cpp, async/worker).
EventsSeen == EventSeen /\ WorkersStop

-----------------------------------------------------------------------------
(* Instances *)

CONSTANTS r1, r2

TwoCallers == {r1, r2}

\* The callers are interchangeable: one order of each pair of ways is enough, and a
\* conditional loop is a plain one that may end earlier.
PairsOfWays ==
  {r1 :> w[1] @@ r2 :> w[2] :
     w \in {<<"plain", "plain">>, <<"plain", "threaded">>,
            <<"conditional", "threaded">>, <<"threaded", "threaded">>}}
=============================================================================
