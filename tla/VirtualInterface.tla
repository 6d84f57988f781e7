---------------------------- MODULE VirtualInterface ----------------------------
(***************************************************************************)
(* oatpp::network::virtual_::Interface between the two connection          *)
(* providers that use it.  A client submits itself and waits for a socket, *)
(* a thread on the submission's condition variable, a coroutine by asking  *)
(* again; the server's main loop takes the submissions in turn and makes a *)
(* pair of sockets for each; whoever stops the server's provider unbinds   *)
(* the listener, which invalidates the submissions that are left.          *)
(*                                                                         *)
(* accept() holds m_mutex while it answers a submission and never waits    *)
(* longer than 100 ms at a time, so it needs no notification.  A thread in *)
(* getSocket() holds the submission's mutex from its look at the socket    *)
(* until it waits; setSocket() takes that mutex, invalidate() does not.    *)
(***************************************************************************)
EXTENDS Naturals, Sequences, SequencesExt, TLAPS

CONSTANTS
  PeerThreads,     \* clients that call client::ConnectionProvider::get()
  PeerCoroutines,  \* clients that call getAsync()
  Restarts         \* bound: how often a new server provider binds after a stop

Peers == PeerThreads \cup PeerCoroutines

VARIABLES
  bound,        \* m_listenerLock # nullptr
  listening,    \* server::ConnectionProvider::m_open
  submissions,  \* m_submissions
  valid,        \* m_valid of each client's submission
  socket,       \* whether the submission's m_socket is set
  peer,         \* what each client does next
  acceptor,     \* what accept() does next
  accepting,    \* the submission accept() has taken, while it holds m_mutex
  accepted,     \* the clients whose peer socket the server got, in order
  arrived,      \* history: the clients in the order of their submissions
  unbinder,     \* what the thread in stop() does next
  restarts      \* binds still allowed

interfaceVars == <<bound, listening, submissions, valid, socket, peer, acceptor,
                   accepting, accepted, arrived, unbinder, restarts>>

Outcomes == {"connected", "failed"}

InterfaceTypeOK ==
  /\ bound \in BOOLEAN /\ listening \in BOOLEAN
  /\ submissions \in Seq(Peers)
  /\ valid \in [Peers -> BOOLEAN] /\ socket \in [Peers -> BOOLEAN]
  /\ peer \in [Peers -> {"idle", "push", "wait", "blocking", "blocked", "poll"}
                          \cup Outcomes]
  /\ acceptor \in {"take", "set", "notify"}
  /\ accepting \in Peers \cup {"none"}
  /\ accepted \in Seq(Peers) /\ arrived \in Seq(Peers)
  /\ unbinder \in {"idle", "unbind", "drop", "invalidate", "notify", "done"}
  /\ restarts \in 0 .. Restarts

InterfaceInit ==
  /\ bound = TRUE /\ listening = TRUE
  /\ submissions = <<>>
  /\ valid = [c \in Peers |-> TRUE] /\ socket = [c \in Peers |-> FALSE]
  /\ peer = [c \in Peers |-> "idle"]
  /\ acceptor = "take" /\ accepting = "none"
  /\ accepted = <<>> /\ arrived = <<>>
  /\ unbinder = "idle" /\ restarts = Restarts

PeerGoto(c, from, to) == peer[c] = from /\ peer' = [peer EXCEPT ![c] = to]

\* m_mutex is held across steps by accept() and by dropAllConnection().
MutexFree == acceptor = "take" /\ unbinder \notin {"invalidate", "notify"}

queue == <<submissions, arrived>>
server == <<acceptor, accepting, accepted>>
listenerVars == <<bound, listening, unbinder, restarts>>

-----------------------------------------------------------------------------
(* Clients *)

\* connect() looks at m_listenerLock without a lock.
Connect(c) ==
  /\ PeerGoto(c, "idle", IF bound THEN "push" ELSE "failed")
  /\ UNCHANGED <<queue, valid, socket, server, listenerVars>>

\* The submission joins the queue.
Push(c) ==
  /\ MutexFree
  /\ PeerGoto(c, "push", IF c \in PeerThreads THEN "wait" ELSE "poll")
  /\ arrived' = Append(arrived, c)
  /\ submissions' = Append(submissions, c)
  /\ UNCHANGED <<valid, socket, server, listenerVars>>

\* connectNonBlocking(): the mutex is taken, the coroutine tries again later.
TryLater(c) ==
  /\ c \in PeerCoroutines /\ ~ MutexFree
  /\ PeerGoto(c, "push", "idle")
  /\ UNCHANGED <<queue, valid, socket, server, listenerVars>>

\* getSocket(): look at the socket and at m_valid under the submission's mutex.
Look(c) ==
  /\ PeerGoto(c, "wait", IF socket[c] THEN "connected"
                         ELSE IF valid[c] THEN "blocking" ELSE "failed")
  /\ UNCHANGED <<queue, valid, socket, server, listenerVars>>

\* Waiting on m_condition releases the submission's mutex.
Block(c) ==
  /\ PeerGoto(c, "blocking", "blocked")
  /\ UNCHANGED <<queue, valid, socket, server, listenerVars>>

\* ConnectCoroutine::obtainSocket: it asks again every 100 ms.
Poll(c) ==
  /\ \/ ~ valid[c] /\ PeerGoto(c, "poll", "failed")
     \/ valid[c] /\ socket[c] /\ PeerGoto(c, "poll", "connected")
  /\ UNCHANGED <<queue, valid, socket, server, listenerVars>>

\* m_condition.notify of a submission.
PeerWoken(c) == [peer EXCEPT ![c] = IF @ = "blocked" THEN "wait" ELSE @]

-----------------------------------------------------------------------------
(* The server's main loop *)

\* Mutant: the submission stays in the queue.
MutTake ==
  /\ MutexFree /\ acceptor = "take"
  /\ listening /\ submissions # <<>>
  /\ accepting' = Head(submissions)
  /\ acceptor' = "set"
  /\ UNCHANGED <<queue, valid, socket, peer, accepted, listenerVars>>

\* accept() takes the oldest submission; stopped or out of time it returns
\* nothing and the main loop calls it again.
TakeSubmission ==
  /\ MutexFree /\ acceptor = "take"
  /\ listening /\ submissions # <<>>
  /\ accepting' = Head(submissions)
  /\ submissions' = Tail(submissions)
  /\ acceptor' = "set"
  /\ UNCHANGED <<arrived, valid, socket, peer, accepted, listenerVars>>

\* setSocket() under the submission's mutex.
SetSocket ==
  /\ acceptor = "set" /\ peer[accepting] # "blocking"
  /\ socket' = [socket EXCEPT ![accepting] = TRUE]
  /\ acceptor' = "notify"
  /\ UNCHANGED <<queue, valid, peer, accepting, accepted, listenerVars>>

\* The client is notified, and the server gets the other socket.
NotifySocket ==
  /\ acceptor = "notify"
  /\ peer' = PeerWoken(accepting)
  /\ accepted' = Append(accepted, accepting)
  /\ acceptor' = "take" /\ accepting' = "none"
  /\ UNCHANGED <<queue, valid, socket, listenerVars>>

-----------------------------------------------------------------------------
(* Stopping and binding again *)

\* stop(): accept() shall not wait any more.
InterfaceStop ==
  /\ unbinder = "idle"
  /\ listening' = FALSE /\ unbinder' = "unbind"
  /\ UNCHANGED <<bound, restarts, queue, valid, socket, peer, server>>

\* The ListenerLock is gone: no new submission should come.
Unbind ==
  /\ unbinder = "unbind"
  /\ bound' = FALSE /\ unbinder' = "drop"
  /\ UNCHANGED <<listening, restarts, queue, valid, socket, peer, server>>

\* dropAllConnection() takes m_mutex ...
LockToDrop ==
  /\ unbinder = "drop" /\ MutexFree
  /\ unbinder' = "invalidate"
  /\ UNCHANGED <<bound, listening, restarts, queue, valid, socket, peer, server>>

\* ... marks a submission as invalid ...
Invalidate ==
  /\ unbinder = "invalidate" /\ submissions # <<>>
  /\ valid' = [valid EXCEPT ![Head(submissions)] = FALSE]
  /\ unbinder' = "notify"
  /\ UNCHANGED <<bound, listening, restarts, queue, socket, peer, server>>

\* ... and notifies its client, which may not be waiting yet.
NotifyInvalid ==
  /\ unbinder = "notify"
  /\ peer' = PeerWoken(Head(submissions))
  /\ submissions' = Tail(submissions)
  /\ unbinder' = "invalidate"
  /\ UNCHANGED <<arrived, bound, listening, restarts, valid, socket, server>>

\* The queue is empty: m_mutex is released and stop() returns.
Dropped ==
  /\ unbinder = "invalidate" /\ submissions = <<>>
  /\ unbinder' = "done"
  /\ UNCHANGED <<bound, listening, restarts, queue, valid, socket, peer, server>>

\* A new server provider binds.
Bind ==
  /\ unbinder = "done" /\ restarts > 0
  /\ bound' = TRUE /\ listening' = TRUE
  /\ unbinder' = "idle" /\ restarts' = restarts - 1
  /\ UNCHANGED <<queue, valid, socket, peer, server>>

-----------------------------------------------------------------------------
ClientStep(c) ==
  Connect(c) \/ Push(c) \/ TryLater(c) \/ Look(c) \/ Block(c) \/ Poll(c)

ServerStep == TakeSubmission \/ SetSocket \/ NotifySocket

StopStep == Unbind \/ LockToDrop \/ Invalidate \/ NotifyInvalid \/ Dropped

InterfaceNext ==
  \/ \E c \in Peers : ClientStep(c)
  \/ ServerStep \/ InterfaceStop \/ StopStep \/ Bind

InterfaceSpec == InterfaceInit /\ [][InterfaceNext]_interfaceVars

\* Threads run, the processor polls its coroutine, the main loop goes round;
\* nobody has to stop the server.
InterfaceFairness ==
  /\ \A c \in Peers : WF_interfaceVars(ClientStep(c))
  /\ WF_interfaceVars(ServerStep) /\ WF_interfaceVars(StopStep)

-----------------------------------------------------------------------------
(* Properties *)

Waiting == {"wait", "blocking", "blocked", "poll"}

\* Both ends agree on the connections: a client has a socket exactly when the
\* server got or is getting its peer, each peer once, and no client whose
\* peer the server holds was told that it could not connect (Interface.cpp:149-161,
\* 225-227 and client/ConnectionProvider.cpp get, obtainSocket).
BothEndsAgree ==
  /\ IsInjective(accepted)
  /\ \A c \in Peers :
       /\ c \in ToSet(accepted) => socket[c] /\ peer[c] # "failed"
       /\ socket[c] => c \in ToSet(accepted) \/ (acceptor = "notify" /\ accepting = c)
       /\ peer[c] = "connected" => socket[c]

\* A submission whose client waits is in the queue, in the hands of accept(),
\* or decided; and it is nowhere twice (Interface.cpp:183-194 and 240-249).
SubmissionsKept ==
  /\ IsInjective(submissions)
  /\ \A c \in Peers :
       /\ peer[c] \in Waiting => \/ c \in ToSet(submissions) \/ accepting = c
                                 \/ socket[c] \/ ~ valid[c]
       /\ c \in ToSet(submissions) =>
            /\ peer[c] \in Waiting \/ (unbinder = "notify" /\ c = Head(submissions))
            /\ ~ socket[c] /\ accepting # c

\* Every variable has its type, and no submission is lost.
InterfaceConsistent == InterfaceTypeOK /\ SubmissionsKept

\* The server gets its clients in the order in which they submitted themselves:
\* when it has one, every earlier one was served or dropped, across stops and
\* new binds (Interface.cpp:188, 225-226, 244-247).
FirstComeFirstServed ==
  \A i, j \in DOMAIN arrived :
    i < j /\ socket[arrived[j]] => socket[arrived[i]] \/ ~ valid[arrived[i]]

\* What the interface promises to its two ends.
InterfaceAgrees == SubmissionsKept /\ BothEndsAgree /\ FirstComeFirstServed

\* As long as nobody stops the server every client gets its connection.
PeersAnswered ==
  [](unbinder = "idle" /\ restarts = Restarts) =>
    <>(\A c \in Peers : peer[c] = "connected")

\* stop() gets through, whatever the clients and the main loop do meanwhile
\* (server/ConnectionProvider.cpp:57-61, Interface.cpp:173-181).
InterfaceStopReturns == unbinder = "unbind" ~> unbinder = "done"

-----------------------------------------------------------------------------
(* Proofs, for any number of threads and coroutines and of new binds *)

\* What the theorems assume of the constants.
InterfaceConstants == "none" \notin Peers /\ Restarts \in Nat

\* How many of those that arrived have left the queue.
Left == Len(arrived) - Len(submissions)

\* accept() and dropAllConnection() exclude each other by m_mutex, and a
\* submission is invalidated while it is the first of the queue.
MutexInv ==
  /\ acceptor = "take" <=> accepting = "none"
  /\ acceptor # "take" => unbinder \notin {"invalidate", "notify"}
  /\ unbinder = "notify" => submissions # <<>> /\ ~ valid[Head(submissions)]

\* The queue is what is left of the clients that arrived, each of them once;
\* those before it are decided, but for the last, which accept() may hold.
QueueInv ==
  /\ Len(submissions) <= Len(arrived)
  /\ \A k \in 1 .. Len(submissions) : submissions[k] = arrived[Left + k]
  /\ \A i, j \in 1 .. Len(arrived) : arrived[i] = arrived[j] => i = j
  /\ \A i \in 1 .. Left : \/ socket[arrived[i]] \/ ~ valid[arrived[i]]
                          \/ acceptor = "set" /\ i = Left
  /\ acceptor # "take" => Left > 0 /\ accepting = arrived[Left]

\* Who has not arrived is untouched; who has a socket, or will get one, was
\* not invalidated and has not failed; and it is not in the queue any more.
ClientInv ==
  /\ \A c \in Peers :
       /\ peer[c] \in {"idle", "push"} =>
              /\ valid[c] /\ ~ socket[c]
              /\ \A i \in 1 .. Len(arrived) : arrived[i] # c
       /\ socket[c] => valid[c] /\ peer[c] \in Waiting \cup {"connected"}
       /\ peer[c] = "connected" => socket[c]
       /\ socket[c] <=> \/ \E i \in 1 .. Len(accepted) : accepted[i] = c
                        \/ acceptor = "notify" /\ accepting = c
       /\ acceptor = "set" /\ accepting = c => valid[c] /\ ~ socket[c] /\ peer[c] \in Waiting
       /\ acceptor = "notify" => \A i \in 1 .. Len(accepted) : accepted[i] # accepting
  /\ \A k \in 1 .. Len(submissions) :
       /\ ~ socket[submissions[k]]
       /\ (k = 1 /\ unbinder = "notify") \/ (valid[submissions[k]] /\ peer[submissions[k]] \in Waiting)
  /\ \A i, j \in 1 .. Len(accepted) : accepted[i] = accepted[j] => i = j
  /\ \A c \in Peers : peer[c] \in Waiting => \E i \in 1 .. Len(arrived) : arrived[i] = c

IInv == InterfaceTypeOK /\ MutexInv /\ QueueInv /\ ClientInv

\* What an element at the end of a sequence changes.
LEMMA AppendFacts ==
  ASSUME NEW S, NEW s \in Seq(S), NEW e \in S
  PROVE  /\ Append(s, e) \in Seq(S) /\ Len(Append(s, e)) = Len(s) + 1
         /\ \A i \in 1 .. Len(s) : Append(s, e)[i] = s[i]
         /\ Append(s, e)[Len(s) + 1] = e
  OBVIOUS

\* What a sequence is without its first element.
LEMMA TailFacts ==
  ASSUME NEW S, NEW s \in Seq(S), s # <<>>
  PROVE  /\ Len(s) \in Nat /\ Len(s) > 0 /\ Head(s) = s[1] /\ Head(s) \in S
         /\ Tail(s) \in Seq(S) /\ Len(Tail(s)) = Len(s) - 1
         /\ \A i \in 1 .. Len(s) - 1 : Tail(s)[i] = s[i + 1]
  OBVIOUS

\* Nobody has arrived yet.
LEMMA Initially ==
  ASSUME InterfaceConstants
  PROVE  InterfaceInit => IInv
  BY DEF InterfaceConstants, InterfaceInit, IInv, InterfaceTypeOK, MutexInv, QueueInv,
     ClientInv, Left, Waiting, Outcomes

\* A client that only moves on, and was not pushed, keeps the invariant.
LEMMA ClientMoves ==
  ASSUME IInv, NEW c \in Peers,
         Connect(c) \/ TryLater(c) \/ Look(c) \/ Block(c) \/ Poll(c)
  PROVE  IInv'
<1> USE DEF IInv
<1>1. InterfaceTypeOK'
  BY DEF Connect, TryLater, Look, Block, Poll, PeerGoto, InterfaceTypeOK, queue, server,
     listenerVars, Outcomes
<1>2. UNCHANGED <<submissions, arrived, valid, socket, acceptor, accepting, accepted,
                   bound, listening, unbinder, restarts>>
  BY DEF Connect, TryLater, Look, Block, Poll, queue, server, listenerVars
<1>3. MutexInv' /\ QueueInv'
  BY <1>2 DEF MutexInv, QueueInv, Left
<1>4. /\ peer[c] \in Waiting \cup {"idle", "push"}
      /\ \/ peer[c] \in {"idle", "push"} /\ peer' = [peer EXCEPT ![c] = "push"]
         \/ peer[c] \in {"idle", "push"} /\ peer' = [peer EXCEPT ![c] = "idle"]
         \/ peer[c] \in {"idle", "push"} /\ peer' = [peer EXCEPT ![c] = "failed"]
         \/ peer[c] \in Waiting /\ peer' = [peer EXCEPT ![c] = "blocking"]
         \/ peer[c] \in Waiting /\ peer' = [peer EXCEPT ![c] = "blocked"]
         \/ peer[c] \in Waiting /\ socket[c] /\ peer' = [peer EXCEPT ![c] = "connected"]
         \/ peer[c] \in Waiting /\ ~ valid[c] /\ peer' = [peer EXCEPT ![c] = "failed"]
  BY DEF Connect, TryLater, Look, Block, Poll, PeerGoto, Waiting
<1>5. ClientInv'
  <2>1. peer' = [peer EXCEPT ![c] = peer'[c]]
    BY <1>4 DEF InterfaceTypeOK
  <2>2. \A d \in Peers :
         /\ peer'[d] \in {"idle", "push"} => peer[d] \in {"idle", "push"}
         /\ peer'[d] \in Waiting => peer[d] \in Waiting
         /\ peer'[d] = "connected" => peer[d] = "connected" \/ socket[d]
         /\ peer[d] \in Waiting \cup {"connected"} =>
                peer'[d] \in Waiting \cup {"connected"} \/ ~ valid[d]
         /\ peer[d] \in Waiting => peer'[d] \in Waiting \/ socket[d] \/ ~ valid[d]
    BY <1>4 DEF InterfaceTypeOK, Waiting
  <2>3. \A d \in Peers :
         /\ peer'[d] \in {"idle", "push"} =>
                /\ valid[d] /\ ~ socket[d]
                /\ \A i \in 1 .. Len(arrived) : arrived[i] # d
         /\ socket[d] => valid[d] /\ peer'[d] \in Waiting \cup {"connected"}
         /\ peer'[d] = "connected" => socket[d]
         /\ acceptor = "set" /\ accepting = d => valid[d] /\ ~ socket[d] /\ peer'[d] \in Waiting
         /\ peer'[d] \in Waiting => \E i \in 1 .. Len(arrived) : arrived[i] = d
    BY <2>2 DEF ClientInv
  <2>4. \A k \in 1 .. Len(submissions) :
         submissions[k] \in Peers
    BY DEF InterfaceTypeOK
  <2>5. \A k \in 1 .. Len(submissions) :
         /\ ~ socket[submissions[k]]
         /\ (k = 1 /\ unbinder = "notify")
              \/ (valid[submissions[k]] /\ peer'[submissions[k]] \in Waiting)
    BY <2>2, <2>4 DEF ClientInv
  <2> QED BY <1>2, <2>3, <2>5 DEF ClientInv
<1> QED BY <1>1, <1>3, <1>5

\* A client that arrives is the last, in the queue and of all.
LEMMA Pushes ==
  ASSUME IInv, NEW c \in Peers, Push(c)
  PROVE  IInv'
<1> USE DEF IInv
<1>a. /\ arrived' = Append(arrived, c) /\ submissions' = Append(submissions, c)
      /\ arrived \in Seq(Peers) /\ submissions \in Seq(Peers)
      /\ peer[c] = "push" /\ peer' = [peer EXCEPT ![c] = IF c \in PeerThreads THEN "wait" ELSE "poll"]
      /\ UNCHANGED <<valid, socket, acceptor, accepting, accepted, bound, listening,
                     unbinder, restarts>>
  BY DEF Push, PeerGoto, InterfaceTypeOK, server, listenerVars
<1>b. /\ Len(arrived') = Len(arrived) + 1 /\ Len(submissions') = Len(submissions) + 1
      /\ \A i \in 1 .. Len(arrived) : arrived'[i] = arrived[i]
      /\ \A i \in 1 .. Len(submissions) : submissions'[i] = submissions[i]
      /\ arrived'[Len(arrived) + 1] = c /\ submissions'[Len(submissions) + 1] = c
      /\ Len(arrived) \in Nat /\ Len(submissions) \in Nat
  BY <1>a, AppendFacts
<1>c. MutexFree /\ unbinder # "notify" /\ acceptor = "take"
  BY DEF Push, MutexFree
<1>1. InterfaceTypeOK'
  BY <1>a, AppendFacts DEF InterfaceTypeOK, Peers
<1>2. MutexInv'
  BY <1>a, <1>c DEF MutexInv
<1>d. Left' = Left /\ Left \in Nat
  BY <1>b DEF Left, QueueInv
<1>3. QueueInv'
  <2>1. Len(submissions') <= Len(arrived')
    BY <1>b DEF QueueInv
  <2>2. \A k \in 1 .. Len(submissions') : submissions'[k] = arrived'[Left + k]
    <3>1. \A k \in 1 .. Len(submissions) : Left + k \in 1 .. Len(arrived)
      BY <1>b, <1>d DEF Left
    <3>2. Left + Len(submissions) + 1 = Len(arrived) + 1
      BY <1>b, <1>d DEF Left
    <3>3. \A k \in 1 .. Len(submissions) : submissions'[k] = arrived'[Left + k]
      BY <1>b, <3>1 DEF QueueInv
    <3>4. submissions'[Len(submissions) + 1] = arrived'[Left + (Len(submissions) + 1)]
      BY <1>b, <1>d, <3>2
    <3>5. \A k \in 1 .. Len(submissions') :
           k \in 1 .. Len(submissions) \/ k = Len(submissions) + 1
      BY <1>b
    <3> QED BY <3>3, <3>4, <3>5
  <2>3. \A i, j \in 1 .. Len(arrived') : arrived'[i] = arrived'[j] => i = j
    BY <1>a, <1>b DEF QueueInv, ClientInv
  <2>4. \A i \in 1 .. Left : arrived'[i] = arrived[i]
    BY <1>b, <1>d DEF Left
  <2> QED BY <1>a, <1>c, <1>d, <2>1, <2>2, <2>3, <2>4 DEF QueueInv
<1>4. ClientInv'
  <2>1. \A d \in Peers :
         /\ peer'[d] \in {"idle", "push"} =>
                /\ valid'[d] /\ ~ socket'[d]
                /\ \A i \in 1 .. Len(arrived') : arrived'[i] # d
         /\ socket'[d] => valid'[d] /\ peer'[d] \in Waiting \cup {"connected"}
         /\ peer'[d] = "connected" => socket'[d]
    BY <1>a, <1>b DEF ClientInv, InterfaceTypeOK, Waiting
  <2>2. \A k \in 1 .. Len(submissions') :
           /\ ~ socket'[submissions'[k]]
           /\ valid'[submissions'[k]] /\ peer'[submissions'[k]] \in Waiting
    BY <1>a, <1>b, <1>c DEF ClientInv, InterfaceTypeOK, Waiting
  <2>3. \A d \in Peers : peer'[d] \in Waiting => \E i \in 1 .. Len(arrived') : arrived'[i] = d
    BY <1>a, <1>b DEF ClientInv, InterfaceTypeOK, Waiting
  <2>4. /\ acceptor' = "take" /\ unbinder' # "notify"
        /\ \A d \in Peers : socket'[d] <=> \E i \in 1 .. Len(accepted') : accepted'[i] = d
        /\ \A i, j \in 1 .. Len(accepted') : accepted'[i] = accepted'[j] => i = j
    BY <1>a, <1>c DEF ClientInv
  <2> QED BY <2>1, <2>2, <2>3, <2>4 DEF ClientInv
<1> QED BY <1>1, <1>2, <1>3, <1>4

\* The queue without its first submission, which was the next of the arrived.
LEMMA Shortened ==
  ASSUME InterfaceTypeOK, QueueInv, submissions # <<>>,
         submissions' = Tail(submissions), arrived' = arrived
  PROVE  /\ Len(submissions) \in Nat /\ Len(submissions) > 0 /\ Left \in Nat
         /\ Left' = Left + 1
         /\ Left + 1 \in 1 .. Len(arrived) /\ Head(submissions) = arrived[Left + 1]
         /\ submissions' \in Seq(Peers) /\ Head(submissions) \in Peers
         /\ Head(submissions) = submissions[1]
         /\ Len(submissions') = Len(submissions) - 1 /\ Len(submissions') <= Len(arrived')
         /\ \A k \in 1 .. Len(submissions') :
              /\ submissions'[k] = submissions[k + 1] /\ k + 1 \in 1 .. Len(submissions)
              /\ submissions'[k] = arrived'[Left' + k] /\ submissions'[k] # Head(submissions)
<1>1. /\ Len(submissions) \in Nat /\ Len(submissions) > 0
      /\ Head(submissions) = submissions[1] /\ Head(submissions) \in Peers
      /\ submissions' \in Seq(Peers) /\ Len(submissions') = Len(submissions) - 1
      /\ \A i \in 1 .. Len(submissions) - 1 : submissions'[i] = submissions[i + 1]
  BY TailFacts DEF InterfaceTypeOK
<1>2. Len(arrived) \in Nat /\ Left \in Nat /\ Left' = Left + 1 /\ Left + 1 \in 1 .. Len(arrived)
  BY <1>1 DEF InterfaceTypeOK, QueueInv, Left
<1>3. Head(submissions) = arrived[Left + 1] /\ Len(submissions') <= Len(arrived')
  BY <1>1, <1>2 DEF QueueInv
<1>4. ASSUME NEW k \in 1 .. Len(submissions')
      PROVE  /\ submissions'[k] = submissions[k + 1] /\ k + 1 \in 1 .. Len(submissions)
             /\ submissions'[k] = arrived'[Left' + k] /\ submissions'[k] # Head(submissions)
  <2>1. submissions'[k] = submissions[k + 1] /\ k + 1 \in 1 .. Len(submissions)
    BY <1>1
  <2>2. submissions[k + 1] = arrived[Left + (k + 1)]
    BY <2>1 DEF QueueInv
  <2>3. Left + (k + 1) = Left' + k /\ Left' + k \in 1 .. Len(arrived) /\ Left' + k # Left + 1
    BY <1>1, <1>2 DEF Left
  <2>4. arrived[Left' + k] # arrived[Left + 1]
    BY <1>2, <2>3 DEF QueueInv
  <2> QED BY <1>3, <2>1, <2>2, <2>3, <2>4
<1> QED BY <1>1, <1>2, <1>3, <1>4

\* The first of the queue becomes the last that has left it.
LEMMA Takes ==
  ASSUME InterfaceConstants, IInv, TakeSubmission
  PROVE  IInv'
<1> USE DEF IInv
<1>a. /\ MutexFree /\ acceptor = "take" /\ submissions # <<>>
      /\ accepting' = Head(submissions) /\ submissions' = Tail(submissions)
      /\ acceptor' = "set" /\ unbinder \notin {"invalidate", "notify"}
      /\ UNCHANGED <<arrived, valid, socket, peer, accepted, bound, listening, unbinder,
                     restarts>>
  BY DEF TakeSubmission, MutexFree, listenerVars
<1>b. /\ valid[submissions[1]] /\ ~ socket[submissions[1]] /\ peer[submissions[1]] \in Waiting
      /\ Head(submissions) \in Peers /\ Head(submissions) # "none"
  BY <1>a, Shortened DEF ClientInv, InterfaceConstants
<1>1. InterfaceTypeOK'
  BY <1>a, <1>b, Shortened DEF InterfaceTypeOK
<1>2. MutexInv'
  BY <1>a, <1>b DEF MutexInv
<1>3. QueueInv'
  <2>1. \A i \in 1 .. Left' : i \in 1 .. Left \/ i = Left'
    BY <1>a, Shortened
  <2>2. \A i \in 1 .. Left' : socket[arrived[i]] \/ ~ valid[arrived[i]] \/ i = Left'
    BY <1>a, <2>1 DEF QueueInv
  <2> QED BY <1>a, <2>2, Shortened DEF QueueInv
<1>4. ClientInv'
  <2>1. \A k \in 1 .. Len(submissions') :
         /\ ~ socket[submissions'[k]]
         /\ valid[submissions'[k]] /\ peer[submissions'[k]] \in Waiting
    BY <1>a, Shortened DEF ClientInv
  <2>2. \A c \in Peers : accepting' = c => valid[c] /\ ~ socket[c] /\ peer[c] \in Waiting
    BY <1>a, <1>b, Shortened
  <2> QED BY <1>a, <2>1, <2>2 DEF ClientInv
<1> QED BY <1>1, <1>2, <1>3, <1>4

\* It gets its socket, and nobody else does.
LEMMA Sets ==
  ASSUME IInv, SetSocket
  PROVE  IInv'
<1> USE DEF IInv
<1>a. /\ acceptor = "set" /\ socket' = [socket EXCEPT ![accepting] = TRUE]
      /\ acceptor' = "notify"
      /\ UNCHANGED <<arrived, submissions, valid, peer, accepting, accepted, bound,
                     listening, unbinder, restarts>>
  BY DEF SetSocket, listenerVars, queue
<1>b. /\ accepting \in Peers /\ valid[accepting] /\ ~ socket[accepting]
      /\ peer[accepting] \in Waiting
  BY <1>a DEF InterfaceTypeOK, MutexInv, ClientInv
<1>c. \A c \in Peers : socket'[c] <=> socket[c] \/ c = accepting
  BY <1>a, <1>b DEF InterfaceTypeOK
<1>d. /\ Len(submissions) \in Nat /\ Len(arrived) \in Nat /\ Left' = Left /\ Left \in Nat
      /\ \A i \in 1 .. Len(arrived) : arrived[i] \in Peers
      /\ \A i \in 1 .. Left : i \in 1 .. Len(arrived)
  BY <1>a DEF InterfaceTypeOK, QueueInv, Left
<1>1. InterfaceTypeOK'
  BY <1>a DEF InterfaceTypeOK
<1>2. MutexInv'
  BY <1>a DEF MutexInv
<1>3. QueueInv'
  <2>1. \A i \in 1 .. Left : socket'[arrived[i]] \/ ~ valid[arrived[i]]
    BY <1>a, <1>c, <1>d DEF QueueInv
  <2> QED BY <1>a, <1>d, <2>1 DEF QueueInv
<1>e. \A k \in 1 .. Len(submissions) : submissions[k] \in Peers /\ submissions[k] # accepting
  <2> TAKE k \in 1 .. Len(submissions)
  <2>1. Left + k \in 1 .. Len(arrived) /\ Left \in 1 .. Len(arrived) /\ Left + k # Left
    BY <1>a, <1>d DEF Left, QueueInv
  <2>2. submissions[k] = arrived[Left + k] /\ accepting = arrived[Left]
    BY <1>a DEF QueueInv
  <2> QED BY <1>d, <2>1, <2>2 DEF QueueInv
<1>4. ClientInv'
  <2>1. \A k \in 1 .. Len(submissions) : ~ socket'[submissions[k]]
    BY <1>c, <1>e DEF ClientInv
  <2>2. \A c \in Peers :
         /\ peer[c] \in {"idle", "push"} => ~ socket'[c]
         /\ socket'[c] => valid[c] /\ peer[c] \in Waiting \cup {"connected"}
         /\ peer[c] = "connected" => socket'[c]
    BY <1>b, <1>c DEF ClientInv, Waiting
  <2>3. \A i \in 1 .. Len(accepted) : accepted[i] # accepting
    BY <1>a, <1>b DEF ClientInv
  <2>4. \A c \in Peers :
         socket'[c] <=> \/ \E i \in 1 .. Len(accepted) : accepted[i] = c
                        \/ accepting = c
    BY <1>a, <1>c DEF ClientInv
  <2> QED BY <1>a, <2>1, <2>2, <2>3, <2>4 DEF ClientInv
<1> QED BY <1>1, <1>2, <1>3, <1>4

\* A notification sends a blocked client back to its look at the socket.
LEMMA WakesOnly ==
  ASSUME InterfaceTypeOK, NEW c \in Peers, peer' = PeerWoken(c)
  PROVE  /\ peer' \in [Peers -> {"idle", "push", "wait", "blocking", "blocked", "poll"}
                                  \cup Outcomes]
         /\ \A d \in Peers :
              /\ peer'[d] \in Waiting <=> peer[d] \in Waiting
              /\ peer'[d] \in {"idle", "push"} <=> peer[d] \in {"idle", "push"}
              /\ peer'[d] = "connected" <=> peer[d] = "connected"
  BY DEF InterfaceTypeOK, PeerWoken, Waiting

\* The server gets the other end of it, for the first time.
LEMMA Notifies ==
  ASSUME IInv, NotifySocket
  PROVE  IInv'
<1> USE DEF IInv
<1>a. /\ acceptor = "notify" /\ peer' = PeerWoken(accepting)
      /\ accepted' = Append(accepted, accepting) /\ acceptor' = "take" /\ accepting' = "none"
      /\ UNCHANGED <<submissions, arrived, valid, socket, bound, listening, unbinder,
                     restarts>>
  BY DEF NotifySocket, listenerVars, queue
<1>b. accepting \in Peers /\ socket[accepting]
  BY <1>a DEF InterfaceTypeOK, MutexInv, ClientInv
<1>c. /\ accepted' \in Seq(Peers) /\ Len(accepted) \in Nat
      /\ Len(accepted') = Len(accepted) + 1
      /\ \A i \in 1 .. Len(accepted) : accepted'[i] = accepted[i]
      /\ accepted'[Len(accepted) + 1] = accepting
  BY <1>a, <1>b, AppendFacts DEF InterfaceTypeOK
<1>1. InterfaceTypeOK'
  BY <1>a, <1>b, <1>c, WakesOnly DEF InterfaceTypeOK
<1>2. MutexInv'
  BY <1>a DEF MutexInv
<1>3. QueueInv'
  BY <1>a DEF QueueInv, Left
<1>4. ClientInv'
  <2>1. \A d \in Peers :
         (\E i \in 1 .. Len(accepted') : accepted'[i] = d)
           <=> (\E i \in 1 .. Len(accepted) : accepted[i] = d) \/ accepting = d
    BY <1>c
  <2>2. \A d \in Peers : socket[d] <=> \E i \in 1 .. Len(accepted') : accepted'[i] = d
    BY <1>a, <2>1 DEF ClientInv
  <2>3. \A i, j \in 1 .. Len(accepted') : accepted'[i] = accepted'[j] => i = j
    BY <1>a, <1>b, <1>c DEF ClientInv
  <2>4. \A k \in 1 .. Len(submissions) : submissions[k] \in Peers
    BY DEF InterfaceTypeOK
  <2>5. \A k \in 1 .. Len(submissions) :
         /\ ~ socket[submissions[k]]
         /\ (k = 1 /\ unbinder = "notify")
              \/ (valid[submissions[k]] /\ peer'[submissions[k]] \in Waiting)
    BY <1>a, <1>b, <2>4, WakesOnly DEF ClientInv
  <2>6. \A d \in Peers :
         /\ peer'[d] \in {"idle", "push"} =>
                /\ valid[d] /\ ~ socket[d]
                /\ \A i \in 1 .. Len(arrived) : arrived[i] # d
         /\ socket[d] => valid[d] /\ peer'[d] \in Waiting \cup {"connected"}
         /\ peer'[d] = "connected" => socket[d]
         /\ peer'[d] \in Waiting => \E i \in 1 .. Len(arrived) : arrived[i] = d
    BY <1>a, <1>b, WakesOnly DEF ClientInv
  <2> QED BY <1>a, <2>2, <2>3, <2>5, <2>6 DEF ClientInv
<1> QED BY <1>1, <1>2, <1>3, <1>4

\* What of stopping and binding does not touch the submissions.
LEMMA StopsAndBinds ==
  ASSUME InterfaceConstants, IInv, InterfaceStop \/ Unbind \/ LockToDrop \/ Dropped \/ Bind
  PROVE  IInv'
<1> USE DEF IInv
<1>1. UNCHANGED <<queue, valid, socket, peer, server>>
  BY DEF InterfaceStop, Unbind, LockToDrop, Dropped, Bind
<1>2. /\ unbinder # "notify" /\ unbinder' # "notify"
      /\ unbinder' = "invalidate" => acceptor = "take"
  BY DEF InterfaceStop, Unbind, LockToDrop, Dropped, Bind, MutexFree
<1>3. InterfaceTypeOK'
  <2>1. /\ bound' \in BOOLEAN /\ listening' \in BOOLEAN
        /\ unbinder' \in {"idle", "unbind", "drop", "invalidate", "notify", "done"}
    BY DEF InterfaceStop, Unbind, LockToDrop, Dropped, Bind, InterfaceTypeOK
  <2>2. restarts' \in 0 .. Restarts
    BY DEF InterfaceConstants, InterfaceStop, Unbind, LockToDrop, Dropped, Bind,
       InterfaceTypeOK
  <2> QED BY <1>1, <2>1, <2>2 DEF InterfaceTypeOK, queue, server
<1>4. MutexInv' /\ QueueInv'
  BY <1>1, <1>2 DEF MutexInv, QueueInv, Left, queue, server
<1>5. ClientInv'
  BY <1>1, <1>2 DEF ClientInv, queue, server
<1> QED BY <1>3, <1>4, <1>5

\* The first of the queue, which has no socket, is invalidated in its place.
LEMMA Invalidates ==
  ASSUME IInv, Invalidate
  PROVE  IInv'
<1> USE DEF IInv
<1>a. /\ unbinder = "invalidate" /\ submissions # <<>> /\ unbinder' = "notify"
      /\ valid' = [valid EXCEPT ![Head(submissions)] = FALSE]
      /\ UNCHANGED <<arrived, submissions, socket, peer, acceptor, accepting, accepted,
                     bound, listening, restarts>>
  BY DEF Invalidate, queue, server
<1>b. /\ Head(submissions) = submissions[1] /\ Head(submissions) \in Peers
      /\ Len(submissions) \in Nat /\ Len(submissions) > 0
  BY <1>a, TailFacts DEF InterfaceTypeOK
<1>c. ~ socket[submissions[1]] /\ peer[submissions[1]] \in Waiting /\ acceptor = "take"
  BY <1>a, <1>b DEF ClientInv, MutexInv
<1>d. \A c \in Peers : valid'[c] <=> valid[c] /\ c # submissions[1]
  BY <1>a, <1>b DEF InterfaceTypeOK
<1>1. InterfaceTypeOK'
  BY <1>a, <1>b DEF InterfaceTypeOK
<1>2. MutexInv'
  BY <1>a, <1>b, <1>c, <1>d DEF MutexInv
<1>3. QueueInv'
  <2>1. \A i \in 1 .. Left : arrived[i] \in Peers
    BY <1>b DEF InterfaceTypeOK, Left, QueueInv
  <2> QED BY <1>a, <1>d, <2>1 DEF QueueInv, Left
<1>4. ClientInv'
  <2>1. \A k \in 1 .. Len(submissions) :
         k # 1 => submissions[k] \in Peers /\ submissions[k] # submissions[1]
    <3> TAKE k \in 1 .. Len(submissions)
    <3> HAVE k # 1
    <3>1. submissions[k] = arrived[Left + k] /\ submissions[1] = arrived[Left + 1]
      BY <1>b DEF QueueInv
    <3>2. Left + k \in 1 .. Len(arrived) /\ Left + 1 \in 1 .. Len(arrived) /\ Left + k # Left + 1
      BY <1>b DEF QueueInv, Left, InterfaceTypeOK
    <3> QED BY <3>1, <3>2 DEF QueueInv, InterfaceTypeOK
  <2>2. \A k \in 1 .. Len(submissions) :
         /\ ~ socket[submissions[k]]
         /\ k = 1 \/ (valid'[submissions[k]] /\ peer[submissions[k]] \in Waiting)
    BY <1>a, <1>d, <2>1 DEF ClientInv
  <2>3. \A c \in Peers : c = submissions[1] => peer[c] \notin {"idle", "push"} /\ ~ socket[c]
    BY <1>c DEF Waiting
  <2> QED BY <1>a, <1>c, <1>d, <2>2, <2>3 DEF ClientInv
<1> QED BY <1>1, <1>2, <1>3, <1>4

\* It leaves the queue decided.
LEMMA NotifiesInvalid ==
  ASSUME IInv, NotifyInvalid
  PROVE  IInv'
<1> USE DEF IInv
<1>a. /\ unbinder = "notify" /\ peer' = PeerWoken(Head(submissions)) /\ submissions' = Tail(submissions)
      /\ unbinder' = "invalidate" /\ submissions # <<>> /\ ~ valid[Head(submissions)]
      /\ acceptor = "take"
      /\ UNCHANGED <<arrived, valid, socket, acceptor, accepting, accepted,
                     bound, listening, restarts>>
  BY DEF NotifyInvalid, server, MutexInv
<1>b. Head(submissions) \in Peers
  BY <1>a, Shortened
<1>1. InterfaceTypeOK'
  BY <1>a, <1>b, WakesOnly, Shortened DEF InterfaceTypeOK
<1>2. MutexInv'
  BY <1>a DEF MutexInv
<1>3. QueueInv'
  <2>1. \A i \in 1 .. Left' : i \in 1 .. Left \/ i = Left + 1
    BY <1>a, Shortened
  <2>2. ~ valid[arrived[Left + 1]]
    BY <1>a, Shortened
  <2>3. \A i \in 1 .. Left : socket[arrived[i]] \/ ~ valid[arrived[i]]
    BY <1>a DEF QueueInv
  <2>4. \A i \in 1 .. Left' : socket[arrived[i]] \/ ~ valid[arrived[i]]
    BY <2>1, <2>2, <2>3
  <2> QED BY <1>a, <2>4, Shortened DEF QueueInv
<1>4. ClientInv'
  <2>1. \A k \in 1 .. Len(submissions') :
         /\ ~ socket[submissions'[k]] /\ submissions'[k] \in Peers
         /\ valid[submissions'[k]] /\ peer[submissions'[k]] \in Waiting
    BY <1>a, Shortened DEF ClientInv, InterfaceTypeOK
  <2>2. \A k \in 1 .. Len(submissions') : peer'[submissions'[k]] \in Waiting
    BY <1>a, <1>b, <2>1, WakesOnly
  <2>3. \A d \in Peers :
         /\ peer'[d] \in {"idle", "push"} =>
                /\ valid[d] /\ ~ socket[d]
                /\ \A i \in 1 .. Len(arrived) : arrived[i] # d
         /\ socket[d] => valid[d] /\ peer'[d] \in Waiting \cup {"connected"}
         /\ peer'[d] = "connected" => socket[d]
         /\ peer'[d] \in Waiting => \E i \in 1 .. Len(arrived) : arrived[i] = d
    BY <1>a, <1>b, WakesOnly DEF ClientInv
  <2> QED BY <1>a, <2>1, <2>2, <2>3 DEF ClientInv
<1> QED BY <1>1, <1>2, <1>3, <1>4

\* A step of another component.
LEMMA Stuttering ==
  ASSUME IInv, UNCHANGED interfaceVars
  PROVE  IInv'
  BY DEF IInv, InterfaceTypeOK, MutexInv, QueueInv, ClientInv, Left, Waiting,
     interfaceVars

\* The invariant holds in every state.
LEMMA Inductive ==
  ASSUME InterfaceConstants
  PROVE  InterfaceSpec => []IInv
<1>1. IInv /\ [InterfaceNext]_interfaceVars => IInv'
  BY ClientMoves, Pushes, Takes, Sets, Notifies, StopsAndBinds, Invalidates, NotifiesInvalid,
     Stuttering
     DEF InterfaceNext, ClientStep, ServerStep, StopStep
<1> QED BY <1>1, Initially, PTL DEF InterfaceSpec

\* A submission has one place: nobody who waits is forgotten, and nobody is answered twice,
\* for any number of clients and of stops (Interface.cpp:183-249).
THEOREM SubmissionsAreKept ==
  ASSUME InterfaceConstants
  PROVE  InterfaceSpec => []InterfaceConsistent
<1>1. IInv => InterfaceConsistent
  <2> SUFFICES ASSUME IInv PROVE InterfaceConsistent
    OBVIOUS
  <2> USE DEF IInv
  <2>1. /\ Len(submissions) \in Nat /\ Len(arrived) \in Nat /\ Left \in Nat
        /\ DOMAIN submissions = 1 .. Len(submissions)
        /\ \A k \in 1 .. Len(submissions) : Left + k \in 1 .. Len(arrived)
        /\ submissions # <<>> => Head(submissions) = submissions[1]
    BY DEF InterfaceTypeOK, QueueInv, Left
  <2>2. IsInjective(submissions)
    <3>1. ASSUME NEW i \in 1 .. Len(submissions), NEW j \in 1 .. Len(submissions),
                 submissions[i] = submissions[j]
          PROVE  i = j
      <4>1. arrived[Left + i] = arrived[Left + j]
        BY <3>1 DEF QueueInv
      <4>2. Left + i = Left + j
        BY <2>1, <4>1 DEF QueueInv
      <4> QED BY <2>1, <4>2
    <3> QED BY <2>1, <3>1 DEF IsInjective
  <2>3. ASSUME NEW c \in Peers, peer[c] \in Waiting
        PROVE  c \in ToSet(submissions) \/ accepting = c \/ socket[c] \/ ~ valid[c]
    <3>1. PICK i \in 1 .. Len(arrived) : arrived[i] = c
      BY <2>3 DEF ClientInv
    <3>2. CASE i \in 1 .. Left
      BY <3>1, <3>2 DEF QueueInv
    <3>3. CASE i \notin 1 .. Left
      <4>1. i - Left \in 1 .. Len(submissions) /\ Left + (i - Left) = i
        BY <2>1, <3>3 DEF Left
      <4>2. submissions[i - Left] = c
        BY <3>1, <4>1 DEF QueueInv
      <4> QED BY <2>1, <4>1, <4>2 DEF ToSet
    <3> QED BY <3>2, <3>3
  <2>4. ASSUME NEW c \in Peers, c \in ToSet(submissions)
        PROVE  /\ peer[c] \in Waiting \/ (unbinder = "notify" /\ c = Head(submissions))
               /\ ~ socket[c] /\ accepting # c
    <3>1. PICK k \in 1 .. Len(submissions) : submissions[k] = c
      BY <2>1, <2>4 DEF ToSet
    <3>2. ~ socket[c] /\ (peer[c] \in Waiting \/ (unbinder = "notify" /\ k = 1))
      BY <3>1 DEF ClientInv
    <3>3. accepting # c
      <4>1. CASE acceptor = "take"
        BY <4>1 DEF MutexInv, InterfaceConstants
      <4>2. CASE acceptor # "take"
        <5>1. accepting = arrived[Left] /\ Left \in 1 .. Len(arrived) /\ Left # Left + k
          BY <2>1, <4>2 DEF QueueInv
        <5>2. c = arrived[Left + k] /\ Left + k \in 1 .. Len(arrived)
          BY <2>1, <3>1 DEF QueueInv
        <5> QED BY <5>1, <5>2 DEF QueueInv
      <4> QED BY <4>1, <4>2
    <3>4. k = 1 => c = Head(submissions)
      BY <2>1, <3>1
    <3> QED BY <3>2, <3>3, <3>4
  <2> QED BY <2>2, <2>3, <2>4 DEF InterfaceConsistent, SubmissionsKept
<1> QED BY <1>1, Inductive, PTL

\* Client and server agree on who is connected, whatever the order of the client's look,
\* accept() and a stop of the server (Interface.cpp:149-161, 225-227).
THEOREM BothEnds ==
  ASSUME InterfaceConstants
  PROVE  InterfaceSpec => []BothEndsAgree
<1>1. IInv => BothEndsAgree
  <2> SUFFICES ASSUME IInv PROVE BothEndsAgree
    OBVIOUS
  <2>1. DOMAIN accepted = 1 .. Len(accepted)
    BY DEF IInv, InterfaceTypeOK
  <2>2. IsInjective(accepted)
    BY <2>1 DEF IInv, ClientInv, IsInjective
  <2>3. \A c \in Peers :
         c \in ToSet(accepted) <=> \E i \in 1 .. Len(accepted) : accepted[i] = c
    BY <2>1 DEF ToSet
  <2> QED BY <2>2, <2>3 DEF IInv, ClientInv, BothEndsAgree, Waiting
<1> QED BY <1>1, Inductive, PTL

\* Clients are served in the order of their submissions, across stops and new binds
\* (Interface.cpp:188, 225-226, 244-247).
THEOREM ServedInOrder ==
  ASSUME InterfaceConstants
  PROVE  InterfaceSpec => []FirstComeFirstServed
<1>1. IInv => FirstComeFirstServed
  <2> SUFFICES ASSUME IInv, NEW i \in DOMAIN arrived, NEW j \in DOMAIN arrived,
                      i < j, socket[arrived[j]]
               PROVE  socket[arrived[i]] \/ ~ valid[arrived[i]]
    BY DEF FirstComeFirstServed
  <2> USE DEF IInv
  <2>1. /\ Len(submissions) \in Nat /\ Len(arrived) \in Nat /\ Left \in Nat
        /\ i \in 1 .. Len(arrived) /\ j \in 1 .. Len(arrived)
    BY DEF InterfaceTypeOK, QueueInv, Left
  <2>2. j <= Left
    <3> SUFFICES ASSUME j > Left PROVE FALSE
      BY <2>1
    <3>1. j - Left \in 1 .. Len(submissions) /\ Left + (j - Left) = j
      BY <2>1 DEF Left
    <3>2. submissions[j - Left] = arrived[j]
      BY <3>1 DEF QueueInv
    <3> QED BY <3>1, <3>2 DEF ClientInv
  <2>3. i \in 1 .. Left /\ i # Left
    BY <2>1, <2>2
  <2> QED BY <2>3 DEF QueueInv
<1> QED BY <1>1, Inductive, PTL

\* Together: no submission is lost, both ends agree on who is connected, and the clients
\* come in order, for any number of clients, binds and stops (Interface.cpp:149-249).
THEOREM InterfaceIsSound ==
  ASSUME InterfaceConstants
  PROVE  InterfaceSpec => []InterfaceAgrees
<1>1. InterfaceConsistent /\ BothEndsAgree /\ FirstComeFirstServed => InterfaceAgrees
  BY DEF InterfaceConsistent, InterfaceAgrees
<1> QED BY <1>1, SubmissionsAreKept, BothEnds, ServedInOrder, PTL
=============================================================================
