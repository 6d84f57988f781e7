---------------------------- MODULE TcpConnections ----------------------------
(***************************************************************************)
(* The TCP side of the network: a server's provider, which accepts in one  *)
(* thread while others stop it (tcp/server/ConnectionProvider.cpp), the    *)
(* client's provider, blocking or as a coroutine that tries the addresses  *)
(* of a host one by one (tcp/client/ConnectionProvider.cpp), and the       *)
(* connections they give out (tcp/Connection.cpp).  They share the         *)
(* process's table of descriptors: a descriptor that is closed is the next *)
(* one to be given out, so that whoever keeps its number meets something   *)
(* else.                                                                   *)
(***************************************************************************)
EXTENDS Integers, FiniteSets

CONSTANTS
  TcpClients,     \* calls to the client's provider
  TcpCoroutines,  \* those that are coroutines
  Addresses,      \* how many addresses the host has
  TcpArrivals,    \* connections that reach the server (a bound)
  TcpStoppers,    \* calls to stop(), the destructor's among them
  Table           \* the descriptors, 1..n

\* Descriptors are numbers from 1, and the server's provider is none of the calls.
ASSUME TcpConstants ==
  /\ Table \subseteq Nat \ {0} /\ Addresses \in Nat /\ TcpArrivals \in Nat
  /\ TcpCoroutines \subseteq TcpClients /\ {"provider", "server"} \cap TcpClients = {}

VARIABLES
  kernel,           \* descriptor -> what it is: kind, nonblocking, shut, connected
  m_serverHandle, m_closed, \* the server's provider
  getter,           \* the thread in get(): "idle", "check", "select", "accept"
  tcpStopping,      \* stopper -> where it is in stop(): "no", "tested", "closing", "stopped"
  stopsRaced,       \* history: two were let in by the same m_closed
  backlog,          \* connections that wait to be accepted, and that have come
  tcpCall,          \* client -> pc, m_currentResult, m_clientHandle, m_isHandleOpened
  tcpConnections    \* the Connection objects: handle, m_mode, and whose

provider == <<m_serverHandle, m_closed>>
stopping == <<tcpStopping, stopsRaced>>
serverVars == <<provider, getter, stopping, backlog>>
tcpVars == <<kernel, serverVars, tcpCall, tcpConnections>>

NoHandle == 0
Entry(kind, nonblocking, state) ==
  [kind |-> kind, nonblocking |-> nonblocking, shut |-> FALSE, state |-> state]
FreeEntry == Entry("free", FALSE, "none")

IsOpen(h) == h \in Table /\ kernel[h].kind # "free"
Unused == {h \in Table : kernel[h].kind = "free"}
\* socket() and accept() give the lowest descriptor.
Lowest == CHOOSE h \in Unused : \A g \in Unused : h <= g

Connection(h, of, nonblocking) ==
  [handle |-> h, m_mode |-> IF nonblocking THEN "ASYNCHRONOUS" ELSE "BLOCKING", of |-> of]

TcpInit ==
  /\ kernel = [h \in Table |-> FreeEntry]
  /\ m_serverHandle = NoHandle /\ m_closed = FALSE
  /\ getter = "idle" /\ tcpStopping = [s \in TcpStoppers |-> "no"] /\ stopsRaced = FALSE
  /\ backlog = [waiting |-> 0, ever |-> 0]
  /\ tcpCall = [c \in TcpClients |-> [pc |-> "idle", currentResult |-> 1,
                                      clientHandle |-> NoHandle, isHandleOpened |-> FALSE]]
  /\ tcpConnections = {}

-----------------------------------------------------------------------------
(* The server's provider.                                                  *)

\* The addresses are tried until one can be bound; the others are closed again.
instantiateServer ==
  /\ m_serverHandle = NoHandle /\ Unused # {}
  /\ m_serverHandle' = Lowest
  /\ kernel' = [kernel EXCEPT ![Lowest] = Entry("listening", TRUE, "none")]
  /\ UNCHANGED <<m_closed, getter, stopping, backlog, tcpCall, tcpConnections>>

Arrives ==
  /\ IsOpen(m_serverHandle) /\ kernel[m_serverHandle].kind = "listening"
  /\ backlog.ever < TcpArrivals
  /\ backlog' = [waiting |-> backlog.waiting + 1, ever |-> backlog.ever + 1]
  /\ UNCHANGED <<kernel, provider, getter, stopping, tcpCall, tcpConnections>>

GetBegins ==
  /\ m_serverHandle # NoHandle /\ getter = "idle"
  /\ getter' = "check"
  /\ UNCHANGED <<kernel, provider, stopping, backlog, tcpCall, tcpConnections>>

GetLooks ==
  /\ getter = "check"
  /\ getter' = IF m_closed THEN "accept" ELSE "select"
  /\ UNCHANGED <<kernel, provider, stopping, backlog, tcpCall, tcpConnections>>

\* select() ends with a connection, a timeout, or an error when the handle is
\* not open any more.
Selects ==
  /\ getter = "select"
  /\ getter' = IF IsOpen(m_serverHandle) THEN "accept" ELSE "check"
  /\ UNCHANGED <<kernel, provider, stopping, backlog, tcpCall, tcpConnections>>

\* accept() of a handle that is not listening, or has nobody waiting, fails and
\* gives no connection.  An accepted descriptor is blocking.
Accepts ==
  /\ getter = "accept" /\ getter' = "idle"
  /\ \/ /\ IsOpen(m_serverHandle) /\ kernel[m_serverHandle].kind = "listening"
        /\ backlog.waiting > 0 /\ Unused # {}
        /\ backlog' = [backlog EXCEPT !.waiting = @ - 1]
        /\ kernel' = [kernel EXCEPT ![Lowest] = Entry("stream", FALSE, "connected")]
        /\ tcpConnections' = tcpConnections \union {Connection(Lowest, "server", FALSE)}
     \/ /\ \/ ~IsOpen(m_serverHandle) \/ kernel[m_serverHandle].kind # "listening"
           \/ backlog.waiting = 0 \/ Unused = {}
        /\ UNCHANGED <<kernel, backlog, tcpConnections>>
  /\ UNCHANGED <<provider, stopping, tcpCall>>

\* getExtendedConnection closes a connection of an unknown address family.
AcceptsUnknown ==
  /\ getter = "accept" /\ getter' = "idle"
  /\ IsOpen(m_serverHandle) /\ kernel[m_serverHandle].kind = "listening"
  /\ backlog.waiting > 0 /\ Unused # {}
  /\ backlog' = [backlog EXCEPT !.waiting = @ - 1]
  /\ UNCHANGED <<kernel, provider, stopping, tcpCall, tcpConnections>>

\* Mutant: every stop() closes the handle.
MutStopTests(s) ==
  /\ m_serverHandle # NoHandle /\ tcpStopping[s] = "no"
  /\ tcpStopping' = [tcpStopping EXCEPT ![s] = "tested"]
  /\ stopsRaced' = (stopsRaced \/ (~m_closed /\ \E t \in TcpStoppers : tcpStopping[t] = "tested"))
  /\ UNCHANGED <<kernel, provider, getter, backlog, tcpCall, tcpConnections>>

\* stop(): m_closed is tested, and set only then.
StopTests(s) ==
  /\ m_serverHandle # NoHandle /\ tcpStopping[s] = "no"
  /\ tcpStopping' = [tcpStopping EXCEPT ![s] = IF m_closed THEN "stopped" ELSE "tested"]
  /\ stopsRaced' = (stopsRaced \/ (~m_closed /\ \E t \in TcpStoppers : tcpStopping[t] = "tested"))
  /\ UNCHANGED <<kernel, provider, getter, backlog, tcpCall, tcpConnections>>

StopSets(s) ==
  /\ tcpStopping[s] = "tested"
  /\ tcpStopping' = [tcpStopping EXCEPT ![s] = "closing"]
  /\ m_closed' = TRUE
  /\ UNCHANGED <<kernel, m_serverHandle, getter, stopsRaced, backlog, tcpCall, tcpConnections>>

\* Whatever has the number now is closed.
StopCloses(s) ==
  /\ tcpStopping[s] = "closing"
  /\ tcpStopping' = [tcpStopping EXCEPT ![s] = "stopped"]
  /\ kernel' = [kernel EXCEPT ![m_serverHandle] = FreeEntry]
  /\ backlog' = [backlog EXCEPT !.waiting = 0]
  /\ UNCHANGED <<provider, getter, stopsRaced, tcpCall, tcpConnections>>

-----------------------------------------------------------------------------
(* The client's provider.                                                  *)

Step(c, to, result, handle, opened) ==
  tcpCall' = [tcpCall EXCEPT ![c] = [pc |-> to, currentResult |-> result,
                                     clientHandle |-> handle, isHandleOpened |-> opened]]

\* The address is not looked at when socket() fails.
iterateAddrInfoResults(c) ==
  LET me == tcpCall[c]
      after == IF me.isHandleOpened THEN [kernel EXCEPT ![me.clientHandle] = FreeEntry] ELSE kernel
      free == {h \in Table : after[h].kind = "free"}
      handle == CHOOSE h \in free : \A g \in free : h <= g
  IN /\ me.pc = "iterate"
     /\ IF me.currentResult > Addresses
        THEN /\ kernel' = after
             /\ Step(c, "failed", me.currentResult, me.clientHandle, FALSE)
        ELSE \/ /\ free = {}
                /\ kernel' = after
                /\ Step(c, "iterate", me.currentResult + 1, me.clientHandle, FALSE)
             \/ /\ free # {}
                /\ kernel' = [after EXCEPT ![handle] =
                                Entry("stream", c \in TcpCoroutines, "new")]
                /\ Step(c, "connect", me.currentResult, handle, TRUE)
     /\ UNCHANGED <<serverVars, tcpConnections>>

Begins(c) ==
  LET me == tcpCall[c]
  IN /\ me.pc = "idle"
     /\ Step(c, "iterate", me.currentResult, me.clientHandle, me.isHandleOpened)
     /\ UNCHANGED <<kernel, serverVars, tcpConnections>>

\* connect(): done, refused, or - for a coroutine - to be asked again.  A coroutine
\* takes a socket that is connected already for its own.
Connects(c) ==
  LET me == tcpCall[c]
  IN /\ me.pc = "connect" /\ IsOpen(me.clientHandle)
     /\ kernel[me.clientHandle].state = "connected" => c \in TcpCoroutines
     /\ kernel' = [kernel EXCEPT ![me.clientHandle].state = "connected"]
     /\ tcpConnections' = tcpConnections \union
          {Connection(me.clientHandle, c, kernel[me.clientHandle].nonblocking)}
     /\ Step(c, "returned", me.currentResult, me.clientHandle, me.isHandleOpened)
     /\ UNCHANGED serverVars

ConnectPends(c) ==
  /\ tcpCall[c].pc = "connect" /\ c \in TcpCoroutines
  /\ kernel[tcpCall[c].clientHandle].state = "new"
  /\ kernel' = [kernel EXCEPT ![tcpCall[c].clientHandle].state = "pending"]
  /\ UNCHANGED <<serverVars, tcpCall, tcpConnections>>

\* The blocking call closes the handle at once, the coroutine with the next step.
ConnectFails(c) ==
  LET me == tcpCall[c]
  IN /\ me.pc = "connect"
     /\ Step(c, "iterate", me.currentResult + 1, me.clientHandle, c \in TcpCoroutines)
     /\ kernel' = IF c \in TcpCoroutines THEN kernel
                  ELSE [kernel EXCEPT ![me.clientHandle] = FreeEntry]
     /\ UNCHANGED <<serverVars, tcpConnections>>

-----------------------------------------------------------------------------
(* Connections.                                                            *)

\* invalidate() only shuts the socket down: the descriptor stays open for its
\* connection, and for the workers that wait on it.
invalidate(k) ==
  /\ k \in tcpConnections /\ IsOpen(k.handle)
  /\ kernel' = [kernel EXCEPT ![k.handle].shut = TRUE]
  /\ UNCHANGED <<serverVars, tcpCall, tcpConnections>>

setStreamIOMode(k, mode) ==
  /\ k \in tcpConnections /\ IsOpen(k.handle)
  /\ kernel' = [kernel EXCEPT ![k.handle].nonblocking = (mode = "ASYNCHRONOUS")]
  /\ tcpConnections' = (tcpConnections \ {k}) \union {[k EXCEPT !.m_mode = mode]}
  /\ UNCHANGED <<serverVars, tcpCall>>

\* The destructor.
close(k) ==
  /\ k \in tcpConnections
  /\ kernel' = [kernel EXCEPT ![k.handle] = FreeEntry]
  /\ tcpConnections' = tcpConnections \ {k}
  /\ UNCHANGED <<serverVars, tcpCall>>

TcpNext ==
  \/ instantiateServer \/ Arrives
  \/ GetBegins \/ GetLooks \/ Selects \/ Accepts \/ AcceptsUnknown
  \/ \E s \in TcpStoppers : StopTests(s) \/ StopSets(s) \/ StopCloses(s)
  \/ \E c \in TcpClients :
       Begins(c) \/ iterateAddrInfoResults(c) \/ Connects(c) \/ ConnectPends(c) \/ ConnectFails(c)
  \/ \E k \in tcpConnections :
       \/ invalidate(k) \/ close(k)
       \/ \E mode \in {"BLOCKING", "ASYNCHRONOUS"} : setStreamIOMode(k, mode)

TcpSpec == TcpInit /\ [][TcpNext]_tcpVars

-----------------------------------------------------------------------------
(* Properties.                                                             *)

\* Who closes a descriptor: the server's provider, a stop() under way, a call
\* that connects, or a connection.
Holders(h) ==
  (IF h = m_serverHandle /\ ~m_closed THEN {<<"provider">>} ELSE {})
  \union {<<s, "stop">> : s \in {s \in TcpStoppers : tcpStopping[s] = "closing"
                                                    /\ h = m_serverHandle}}
  \union {<<c>> : c \in {c \in TcpClients : tcpCall[c].isHandleOpened /\ tcpCall[c].clientHandle = h
                                          /\ tcpCall[c].pc # "returned"}}
  \union {<<k, "connection">> : k \in {k \in tcpConnections : k.handle = h}}

\* Every descriptor that is open has exactly one that will close it, and nobody
\* is going to close one that is free: whoever comes by its number next would
\* lose it.
DescriptorsHaveOneHolder ==
  \A h \in Table : Cardinality(Holders(h)) = IF IsOpen(h) THEN 1 ELSE 0

\* A connection knows whether its descriptor blocks: read() and write() make the
\* caller wait or repeat by it.
ModesAgree ==
  \A k \in tcpConnections : (k.m_mode = "ASYNCHRONOUS") <=> kernel[k.handle].nonblocking

\* Both: every descriptor has one that closes it, and its connection knows how
\* it is set.  Left out are two calls of stop() that both found m_closed false:
\* each of them closes the number, which may be another's by then.  Calls that
\* follow one another, however the rest goes on between their steps, are not.
DescriptorsOwned == ~stopsRaced => DescriptorsHaveOneHolder /\ ModesAgree
=============================================================================
