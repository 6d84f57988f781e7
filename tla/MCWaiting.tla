------------------------------ MODULE MCWaiting ------------------------------
(* Those who wait for one another, through condition variables, wait lists    *)
(* and flags: the two sides of a pipe, the coroutines at a condition          *)
(* variable, the clients of a pool and of a virtual interface.  A behaviour   *)
(* is one part's; the others rest in states in which none of their fair steps *)
(* is enabled.                                                                *)
EXTENDS VirtualPipe, ConditionVariable, ResourcePool, VirtualInterface

CONSTANTS Parts

VARIABLES which

-----------------------------------------------------------------------------
(* At rest nobody has anything to do. *)

PipeRests ==
  /\ fifo = <<>> /\ open = TRUE
  /\ mode = [s \in Sides |-> "BLOCKING"] /\ pc = [s \in Sides |-> "done"]
  /\ listener = {} /\ sent = 0 /\ received = <<>> /\ closer = [c \in Closers |-> 0]

PoolRests ==
  /\ counter = 0 /\ bench = <<>> /\ running = FALSE /\ finished = TRUE
  /\ blocked = {} /\ poolList = {}
  /\ client = [c \in Clients |-> "idle"]
  /\ poolListener = [c \in PoolCoroutines |-> "none"]
  /\ lateClients = {} /\ gets = [c \in Clients |-> 0]
  /\ cleaner = "exit" /\ poolStopper = "done" /\ unannounced = FALSE

InterfaceRests ==
  /\ bound = FALSE /\ listening = FALSE /\ submissions = <<>>
  /\ valid = [c \in Peers |-> TRUE] /\ socket = [c \in Peers |-> FALSE]
  /\ peer = [c \in Peers |-> "failed"]
  /\ acceptor = "take" /\ accepting = "none" /\ accepted = <<>> /\ arrived = <<>>
  /\ unbinder = "done" /\ restarts = 0

WaitingInit ==
  /\ which \in Parts
  /\ IF which = "pipe" THEN Init ELSE PipeRests
  /\ ConditionInit
  /\ IF which = "pool" THEN PoolInit ELSE PoolRests
  /\ IF which = "interface" THEN InterfaceInit ELSE InterfaceRests

waitingVars == <<which, vars, conditionVars, poolVars, interfaceVars>>

WaitingNext ==
  /\ UNCHANGED which
  /\ \/ /\ which = "pipe" /\ Next
        /\ UNCHANGED <<conditionVars, poolVars, interfaceVars>>
     \/ /\ which = "condition" /\ ConditionNext
        /\ UNCHANGED <<vars, poolVars, interfaceVars>>
     \/ /\ which = "pool" /\ PoolNext
        /\ UNCHANGED <<vars, conditionVars, interfaceVars>>
     \/ /\ which = "interface" /\ InterfaceNext
        /\ UNCHANGED <<vars, conditionVars, poolVars>>

\* Each part under the fairness that its module justifies.
WaitingSpec ==
  /\ WaitingInit /\ [][WaitingNext]_waitingVars
  /\ Fairness /\ ConditionFairness /\ PoolFairness /\ InterfaceFairness

-----------------------------------------------------------------------------
(* Properties; PipeIsSound, WakeupsKept, PoolKeepsCount, InterfaceAgrees and  *)
(* TransfersEnd are those of the parts.                                       *)

\* Clients of a pool and of an interface get their answers, and both can be stopped.
ClientsAnswered ==
  /\ PoolAnswered /\ PoolStopReturns
  /\ PeersAnswered

\* Waits with a time point end, and items and waiters do not stay together for ever
\* (async/ConditionVariable.cpp).
WaitsEnd == TimedWaitEnds /\ ItemsTaken
=============================================================================
