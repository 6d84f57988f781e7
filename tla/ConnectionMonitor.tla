--------------------------- MODULE ConnectionMonitor ---------------------------
(* network::monitor: every connection goes through a proxy that keeps its     *)
(* statistics; a thread of the monitor goes over the proxies' addresses and   *)
(* invalidates those that a checker rejects, while their users read, write    *)
(* and destroy them.  Each proxy has one user; the three mutexes are explicit *)
(* where a step holds one and waits for another.                              *)
EXTENDS FiniteSets

CONSTANTS
  Proxies,  \* ConnectionProxy, one per connection
  Metrics   \* metrics with a StatCollector, named by a checker or added

Checkers == {"max age", "inactivity"}

Directions == {"read", "write"}

VARIABLES
  configured,       \* the checker this application adds, sooner or later
  user,             \* what the owner of each proxy does
  m_connections,    \* addresses, guarded by m_connectionsMutex
  m_metricsCheckers, m_statCollectors, \* guarded by m_checkMutex
  monitorRunning, m_stopped, \* m_running and m_stopped of the monitor
  monitorStopper,   \* the thread in stop()
  task, todo,       \* the monitor's thread and the proxies left in this round
  statsMutex,       \* whose user, or the monitor ("task"), holds each m_statsMutex
  aged, quiet,      \* time has passed since it was created; since a read, a write
  metricsData,      \* the metrics a proxy has data for
  leaked,           \* metric data nobody can free any more
  monitorValid      \* connections that were not invalidated

setVars == <<configured, m_metricsCheckers, m_statCollectors>>
stopVars == <<monitorRunning, m_stopped, monitorStopper>>
taskVars == <<task, todo>>
timeVars == <<aged, quiet>>
dataVars == <<metricsData, leaked>>

monitorVars == <<user, m_connections, statsMutex, monitorValid, setVars, stopVars,
                 taskVars, timeVars, dataVars>>

\* A proxy that is "destroyed" from the start is not used.
MonitorInit ==
  /\ configured \in Checkers
  /\ user \in [Proxies -> {"none", "destroyed"}] /\ m_connections = {}
  /\ m_metricsCheckers = {} /\ m_statCollectors = {}
  /\ monitorRunning = TRUE /\ m_stopped = FALSE /\ monitorStopper = "none"
  /\ task = "loop" /\ todo = {}
  /\ statsMutex = [c \in Proxies |-> "free"]
  /\ aged = {} /\ quiet = [d \in Directions |-> {}]
  /\ metricsData = [c \in Proxies |-> {}] /\ leaked = {} /\ monitorValid = Proxies

\* The monitor's thread holds m_connectionsMutex through a round.
ConnectionsFree == task \notin {"round", "check"}

Moves(c, from, to) == user[c] = from /\ user' = [user EXCEPT ![c] = to]

-----------------------------------------------------------------------------
(* The users: get() or getAsync(), I/O, and the proxy's destructor.           *)

\* The wrapped provider answers and the proxy is constructed.
Construct(c) ==
  /\ Moves(c, "none", "constructed")
  /\ UNCHANGED <<m_connections, statsMutex, monitorValid, setVars, stopVars, taskVars,
                 dataVars, timeVars>>

addConnection(c) ==
  /\ Moves(c, "constructed", "idle") /\ ConnectionsFree
  /\ m_connections' = m_connections \cup {c}
  /\ UNCHANGED <<statsMutex, monitorValid, setVars, stopVars, taskVars, dataVars,
                 timeVars>>

\* read() or write() on the connection is over; the statistics are locked, and
\* a transfer of bytes is time-stamped.
Transfer(c, d) ==
  /\ Moves(c, "idle", "stats")
  /\ statsMutex[c] = "free" /\ statsMutex' = [statsMutex EXCEPT ![c] = "user"]
  /\ quiet' \in {quiet, [quiet EXCEPT ![d] = @ \ {c}]}
  /\ UNCHANGED <<m_connections, aged, monitorValid, setVars, stopVars, taskVars,
                 dataVars>>

\* onConnectionRead, onConnectionWrite: every collector gets its data.
Collect(c) ==
  /\ Moves(c, "stats", "idle")
  /\ statsMutex' = [statsMutex EXCEPT ![c] = "free"]
  /\ metricsData' = [metricsData EXCEPT ![c] = @ \cup m_statCollectors]
  /\ UNCHANGED <<m_connections, leaked, monitorValid, setVars, stopVars, taskVars,
                 timeVars>>

\* The last reference goes: ~ConnectionProxy.
ReleaseProxy(c) ==
  /\ Moves(c, "idle", "removing")
  /\ UNCHANGED <<m_connections, statsMutex, monitorValid, setVars, stopVars, taskVars,
                 dataVars, timeVars>>

\* Mutant: the destructor does not wait for the monitor's round.
MutRemoveConnection(c) ==
  /\ Moves(c, "removing", "freeing")
  /\ m_connections' = m_connections \ {c}
  /\ UNCHANGED <<statsMutex, monitorValid, setVars, stopVars, taskVars, dataVars,
                 timeVars>>

removeConnection(c) ==
  /\ Moves(c, "removing", "freeing") /\ ConnectionsFree
  /\ m_connections' = m_connections \ {c}
  /\ UNCHANGED <<statsMutex, monitorValid, setVars, stopVars, taskVars, dataVars,
                 timeVars>>

\* Data of a metric without a collector is only reported.
freeConnectionStats(c) ==
  /\ Moves(c, "freeing", "destroyed") /\ statsMutex[c] = "free"
  /\ leaked' = leaked \cup (metricsData[c] \ m_statCollectors)
  /\ metricsData' = [metricsData EXCEPT ![c] = {}]
  /\ UNCHANGED <<m_connections, statsMutex, monitorValid, setVars, stopVars, taskVars,
                 timeVars>>

-----------------------------------------------------------------------------
(* The application: checkers and collectors may come while connections live.  *)

addMetricsChecker(k) ==
  /\ k = configured /\ k \notin m_metricsCheckers /\ m_metricsCheckers' = m_metricsCheckers \cup {k}
  /\ UNCHANGED <<configured, user, m_connections, m_statCollectors, statsMutex,
                 monitorValid, stopVars, taskVars, dataVars, timeVars>>

addStatCollector(m) ==
  /\ m \notin m_statCollectors /\ m_statCollectors' = m_statCollectors \cup {m}
  /\ UNCHANGED <<configured, user, m_connections, m_metricsCheckers, statsMutex,
                 monitorValid, stopVars, taskVars, dataVars, timeVars>>

invalidateAll ==
  /\ ConnectionsFree /\ monitorValid \cap m_connections # {}
  /\ monitorValid' = monitorValid \ m_connections
  /\ UNCHANGED <<user, m_connections, statsMutex, setVars, stopVars, taskVars,
                 dataVars, timeVars>>

stop ==
  /\ monitorStopper = "none" /\ monitorStopper' = "waits" /\ monitorRunning' = FALSE
  /\ UNCHANGED <<user, m_connections, m_stopped, statsMutex, monitorValid, setVars,
                 taskVars, dataVars, timeVars>>

stopReturns ==
  /\ monitorStopper = "waits" /\ m_stopped /\ monitorStopper' = "returned"
  /\ UNCHANGED <<user, m_connections, monitorRunning, m_stopped, statsMutex, monitorValid,
                 setVars, taskVars, dataVars, timeVars>>

\* Time passes for a connection, as far as the checker sees it.
Living(c) == user[c] \in {"idle", "stats"}

Ages(c) ==
  /\ configured = "max age" /\ Living(c) /\ c \notin aged
  /\ aged' = aged \cup {c}
  /\ UNCHANGED <<user, m_connections, statsMutex, quiet, monitorValid, setVars, stopVars,
                 taskVars, dataVars>>

FallsQuiet(c, d) ==
  /\ configured = "inactivity" /\ Living(c) /\ c \notin quiet[d]
  /\ quiet' = [quiet EXCEPT ![d] = @ \cup {c}]
  /\ UNCHANGED <<user, m_connections, statsMutex, aged, monitorValid, setVars, stopVars,
                 taskVars, dataVars>>

-----------------------------------------------------------------------------
(* monitorTask: a round over the addresses, under m_connectionsMutex.         *)

BeginRound ==
  /\ task = "loop" /\ monitorRunning
  /\ task' = "round" /\ todo' = m_connections
  /\ UNCHANGED <<user, m_connections, statsMutex, monitorValid, setVars, stopVars,
                 dataVars, timeVars>>

Visit(c) ==
  /\ task = "round" /\ c \in todo
  /\ statsMutex[c] = "free" /\ statsMutex' = [statsMutex EXCEPT ![c] = "task"]
  /\ task' = "check"
  /\ UNCHANGED <<user, m_connections, todo, monitorValid, setVars, stopVars, dataVars,
                 timeVars>>

\* ConnectionMaxAgeChecker, ConnectionInactivityChecker
Rejected(c) ==
  \/ "max age" \in m_metricsCheckers /\ c \in aged
  \/ "inactivity" \in m_metricsCheckers /\ \E d \in Directions : c \in quiet[d]

CheckConnection(c) ==
  /\ task = "check" /\ statsMutex[c] = "task"
  /\ monitorValid' = IF Rejected(c) THEN monitorValid \ {c} ELSE monitorValid
  /\ statsMutex' = [statsMutex EXCEPT ![c] = "free"]
  /\ todo' = todo \ {c} /\ task' = "round"
  /\ UNCHANGED <<user, m_connections, setVars, stopVars, dataVars, timeVars>>

\* The mutex is released and the thread sleeps for a second.
EndRound ==
  /\ task = "round" /\ todo = {} /\ task' = "loop"
  /\ UNCHANGED <<user, m_connections, todo, statsMutex, monitorValid, setVars, stopVars,
                 dataVars, timeVars>>

\* Mutant: the thread does not tell that it has ended.
MutTaskEnds ==
  /\ task = "loop" /\ ~monitorRunning /\ task' = "ended"
  /\ UNCHANGED <<user, m_connections, stopVars, todo, statsMutex, monitorValid, setVars,
                 dataVars, timeVars>>

TaskEnds ==
  /\ task = "loop" /\ ~monitorRunning /\ task' = "ended" /\ m_stopped' = TRUE
  /\ UNCHANGED <<user, m_connections, monitorRunning, monitorStopper, todo, statsMutex,
                 monitorValid, setVars, dataVars, timeVars>>

UserSteps(c) == \/ addConnection(c) \/ Collect(c) \/ removeConnection(c)
                \/ freeConnectionStats(c)

TaskSteps ==
  \/ BeginRound \/ EndRound \/ TaskEnds
  \/ \E c \in Proxies : Visit(c) \/ CheckConnection(c)

MonitorNext ==
  \/ \E c \in Proxies : \/ Construct(c) \/ UserSteps(c) \/ ReleaseProxy(c) \/ Ages(c)
                        \/ \E d \in Directions : Transfer(c, d) \/ FallsQuiet(c, d)
  \/ \E k \in Checkers : addMetricsChecker(k)
  \/ \E m \in Metrics : addStatCollector(m)
  \/ invalidateAll \/ stop \/ stopReturns \/ TaskSteps

\* A user that holds a mutex releases it and the monitor goes on; a busy user does not
\* keep it from the mutex of the statistics for ever.
MonitorFairness ==
  /\ \A c \in Proxies : WF_monitorVars(Collect(c)) /\ SF_monitorVars(Visit(c))
  /\ WF_monitorVars(TaskSteps) /\ WF_monitorVars(stopReturns)

MonitorSpec == MonitorInit /\ [][MonitorNext]_monitorVars /\ MonitorFairness

-----------------------------------------------------------------------------
\* The monitor dereferences only addresses of proxies whose members still exist: a round
\* keeps a proxy in its destructor's first step, and none is constructed unnoticed.
VisitsTheLiving ==
  /\ todo \subseteq m_connections
  /\ \A c \in todo \cup m_connections : user[c] \in {"idle", "stats", "removing"}

\* A collector deletes the data of every metric it created, also for connections that are
\* older than the collector.
MetricsFreed == leaked = {} /\ \A c \in Proxies : user[c] = "destroyed" => metricsData[c] = {}

\* Both: nothing of a connection is used after it, and nothing of it is left.
ProxiesAccountedFor == VisitsTheLiving /\ MetricsFreed

\* A connection beyond the maximal age is invalidated, or its owner lets it go, or the
\* monitor stops.
OverdueDropped ==
  \A c \in Proxies :
    (c \in aged /\ "max age" \in m_metricsCheckers) ~>
      (c \notin monitorValid \/ user[c] \in {"removing", "freeing", "destroyed"}
         \/ ~monitorRunning)

\* stop() returns, also in the middle of a round.
MonitorStops == monitorStopper = "waits" ~> monitorStopper = "returned"

\* Both: the rounds go on until somebody stops them, and then they end.
OverdueInvalidated == OverdueDropped /\ MonitorStops
=============================================================================
