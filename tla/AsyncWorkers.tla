----------------------------- MODULE AsyncWorkers ------------------------------
(* The co-workers of the asynchronous processors (async/worker) and the       *)
(* Executor that links, stops and joins them: the timer, the naive I/O worker *)
(* that polls, and the reader and writer behind a foreman that wait for       *)
(* events with epoll.  A coroutine waits on one handle, its connection's, and *)
(* hands itself from worker to worker by the actions its code returns.  The   *)
(* processor is the environment: AsyncProcessor models it.                    *)
EXTENDS Integers, Sequences, FiniteSets, Functions

CONSTANTS
  Handles,      \* the coroutines (CoroutineHandle), one connection each
  RoundEvery,   \* IO_REPEATs of one coroutine before the queue is rounded (10)
  ConsumeEvery  \* turns of the naive worker before it looks at its backlog (100)

Workers == {"timer", "naive", "reader", "writer"}
EventWorkers == {"reader", "writer"}

VARIABLES
  ioWorkerType,  \* "naive" or "event", chosen when the Executor is built
  m_running,     \* of every worker
  m_backlog,     \* of every worker, guarded by its m_backlogLock
  m_queue,       \* of the timer and the naive worker
  kept,          \* the entries of the timer's queue it has passed in this round
  roundIteration, consumeIteration,
  epoll,         \* of the event workers: registered handles, enabled ones,
                 \* the wake-up trigger, events at hand, those to hand over
  worker,        \* where each worker's thread is
  scheduled,     \* _SCH_A of every coroutine
  awaits,        \* the event a coroutine asked for with its last action
  ready,         \* coroutines whose awaited event is there and not yet seen
  atProcessor,   \* coroutines the processor has
  mayStop,       \* somebody will stop the executor
  stops          \* workers that Executor::stop() has still to stop

workerVars == <<ioWorkerType, m_running, m_backlog, m_queue, kept, roundIteration,
                consumeIteration, epoll, worker, scheduled, awaits, ready, atProcessor,
                mayStop, stops>>

WaitRepeat(due) == [type |-> "wait repeat", event |-> "none", due |-> due]
Other == [type |-> "other", event |-> "none", due |-> FALSE]
Finished == [Other EXCEPT !.type = "finished"]

IsIO(a) == a.type \in {"io wait", "io repeat"}
IOActions == [type : {"io wait", "io repeat"}, event : EventWorkers, due : {FALSE}]

Used == {"timer"} \cup (IF ioWorkerType = "naive" THEN {"naive"} ELSE EventWorkers)

WorkersInit ==
  /\ ioWorkerType \in {"naive", "event"}
  /\ m_running = [w \in Workers |-> TRUE]
  /\ m_backlog = [w \in Workers |-> <<>>] /\ m_queue = [w \in Workers |-> <<>>]
  /\ kept = <<>> /\ roundIteration = 0 /\ consumeIteration = 0
  /\ epoll = [w \in EventWorkers |->
       [added |-> {}, enabled |-> {}, trigger |-> FALSE, events |-> {}, pop |-> <<>>]]
  /\ worker = [w \in Workers |-> "loop"]
  /\ atProcessor \in SUBSET Handles \ {{}}
  /\ scheduled = [c \in Handles |-> IF c \in atProcessor THEN Other ELSE Finished]
  /\ awaits = [c \in Handles |-> "none"] /\ ready = {}
  /\ mayStop \in BOOLEAN /\ stops = <<>>

-----------------------------------------------------------------------------
(* iterate() of a coroutine: it sees its event if it is there, and returns    *)
(* any action; without the event it may have to wait on.                      *)

Answers(c) ==
  {Other, WaitRepeat(FALSE)} \cup
  IF c \in ready THEN {a \in IOActions : a.type = "io repeat" \/ a.event # awaits[c]}
                 ELSE IOActions

Asks(c, a) == awaits' = [awaits EXCEPT ![c] = IF IsIO(a) THEN a.event ELSE "none"]

Iterated(c, a) == ready' = ready \ {c} /\ Asks(c, a)

SetScheduled(c, a) == scheduled' = [scheduled EXCEPT ![c] = a]

\* Processor::pushOneTask
ToProcessor(c) == atProcessor' = atProcessor \cup {c}

\* FastQueue::moveAll and round
MovedAll(from, to) == to \o from
Rounded(q) == Tail(q) \o <<Head(q)>>

-----------------------------------------------------------------------------
(* pushOneTask and pushTasks: a backlog grows and its worker is woken.        *)

\* The naive worker takes all I/O; the foreman gives it to the one for the event.
WorkerFor(a) == IF a.type = "wait repeat" THEN "timer"
                ELSE IF ioWorkerType = "naive" THEN "naive" ELSE a.event

\* Mutant: nobody wakes the worker.
MutPushTo(w, tasks, ep) ==
  m_backlog' = [m_backlog EXCEPT ![w] = MovedAll(tasks, @)] /\ epoll' = ep

PushTo(w, tasks, ep) ==
  /\ m_backlog' = [m_backlog EXCEPT ![w] = MovedAll(tasks, @)]
  /\ epoll' = IF w \in EventWorkers /\ tasks # <<>> THEN [ep EXCEPT ![w].trigger = TRUE] ELSE ep

\* The processor iterates a coroutine, or takes its action and hands it over.
ProcessorIterates(c) ==
  /\ c \in atProcessor /\ scheduled[c].type = "other"
  /\ \E a \in {WaitRepeat(FALSE)} \cup IOActions : SetScheduled(c, a) /\ Asks(c, a)
  /\ UNCHANGED <<ioWorkerType, m_running, m_backlog, m_queue, kept, roundIteration,
                 consumeIteration, epoll, worker, ready, atProcessor, mayStop, stops>>

ProcessorHandsOver(c) ==
  /\ c \in atProcessor /\ scheduled[c].type # "other"
  /\ atProcessor' = atProcessor \ {c}
  /\ PushTo(WorkerFor(scheduled[c]), <<c>>, epoll)
  /\ UNCHANGED <<ioWorkerType, m_running, m_queue, kept, roundIteration,
                 consumeIteration,
                 worker, scheduled, awaits, ready, mayStop, stops>>

\* The coroutine ends.
ProcessorFinishes(c) ==
  /\ c \in atProcessor /\ scheduled[c].type = "other"
  /\ atProcessor' = atProcessor \ {c} /\ SetScheduled(c, Finished)
  /\ UNCHANGED <<ioWorkerType, m_running, m_backlog, m_queue, kept, roundIteration,
                 consumeIteration, epoll, worker, awaits, ready, mayStop, stops>>

\* The event a coroutine waits on happens; the time point of a wait passes.
EventHappens(c) ==
  /\ c \notin atProcessor \cup ready /\ awaits[c] # "none"
  /\ ready' = ready \cup {c}
  /\ UNCHANGED <<ioWorkerType, m_running, m_backlog, m_queue, kept, roundIteration,
                 consumeIteration, epoll, worker, scheduled, awaits, atProcessor,
                 mayStop, stops>>

TimePasses(c) ==
  /\ scheduled[c] = WaitRepeat(FALSE) /\ SetScheduled(c, WaitRepeat(TRUE))
  /\ UNCHANGED <<ioWorkerType, m_running, m_backlog, m_queue, kept, roundIteration,
                 consumeIteration, epoll, worker, awaits, ready, atProcessor, mayStop,
                 stops>>

-----------------------------------------------------------------------------
(* TimerWorker::run: the backlog joins the queue, then one round over it.     *)

AtLoop(w) == w \in Used /\ worker[w] = "loop"

Exits(w) ==
  /\ AtLoop(w) /\ ~m_running[w] /\ worker' = [worker EXCEPT ![w] = "stopped"]
  /\ UNCHANGED <<ioWorkerType, m_running, m_backlog, m_queue, kept, roundIteration,
                 consumeIteration, epoll, scheduled, awaits, ready, atProcessor,
                 mayStop, stops>>

TimerConsumes ==
  /\ AtLoop("timer") /\ m_running["timer"]
  /\ m_backlog["timer"] # <<>> \/ m_queue["timer"] # <<>>
  /\ m_queue' = [m_queue EXCEPT !["timer"] = MovedAll(m_backlog["timer"], @)]
  /\ m_backlog' = [m_backlog EXCEPT !["timer"] = <<>>]
  /\ worker' = [worker EXCEPT !["timer"] = "round"]
  /\ UNCHANGED <<ioWorkerType, m_running, kept, roundIteration, consumeIteration, epoll,
                 scheduled, awaits, ready, atProcessor, mayStop, stops>>

TimerKeeps(c) == kept' = Append(kept, c)

TimerVisits ==
  /\ worker["timer"] = "round" /\ m_queue["timer"] # <<>>
  /\ m_queue' = [m_queue EXCEPT !["timer"] = Tail(@)]
  /\ LET c == Head(m_queue["timer"]) IN
     \/ ~scheduled[c].due /\ TimerKeeps(c) /\ UNCHANGED <<scheduled, awaits, ready,
                                                          atProcessor>>
     \/ /\ scheduled[c].due
        /\ \E a \in Answers(c) :
             /\ Iterated(c, a)
             /\ \/ a.type = "wait repeat" /\ SetScheduled(c, a) /\ TimerKeeps(c)
                   /\ UNCHANGED atProcessor
                \/ a.type = "io wait" /\ SetScheduled(c, WaitRepeat(TRUE)) /\ TimerKeeps(c)
                   /\ UNCHANGED atProcessor
                \/ a.type \in {"io repeat", "other"} /\ SetScheduled(c, a) /\ ToProcessor(c)
                   /\ UNCHANGED kept
  /\ UNCHANGED <<ioWorkerType, m_running, m_backlog, roundIteration, consumeIteration,
                 epoll, worker, mayStop, stops>>

TimerSleeps ==
  /\ worker["timer"] = "round" /\ m_queue["timer"] = <<>>
  /\ m_queue' = [m_queue EXCEPT !["timer"] = kept] /\ kept' = <<>>
  /\ worker' = [worker EXCEPT !["timer"] = "loop"]
  /\ UNCHANGED <<ioWorkerType, m_running, m_backlog, roundIteration, consumeIteration,
                 epoll, scheduled, awaits, ready, atProcessor, mayStop, stops>>

-----------------------------------------------------------------------------
(* IOWorker::run: the head of the queue is polled; one that has waited for a  *)
(* second goes back to the processor, and from there to the timer.            *)

NaiveQueue == m_queue["naive"]

NaiveConsumes ==
  /\ AtLoop("naive") /\ m_running["naive"]
  /\ NaiveQueue = <<>> /\ m_backlog["naive"] # <<>>
  /\ m_queue' = [m_queue EXCEPT !["naive"] = m_backlog["naive"]]
  /\ m_backlog' = [m_backlog EXCEPT !["naive"] = <<>>]
  /\ UNCHANGED <<ioWorkerType, m_running, kept, roundIteration, consumeIteration, epoll,
                 worker, scheduled, awaits, ready, atProcessor, mayStop, stops>>

\* What the answer of the head does to the queue.
NaiveTakes(c, a) ==
  \/ /\ a.type = "io repeat" /\ SetScheduled(c, a)
     /\ roundIteration' = (roundIteration + 1) % RoundEvery
     /\ m_queue' = [m_queue EXCEPT !["naive"] = IF roundIteration' = 0 THEN Rounded(@) ELSE @]
     /\ UNCHANGED atProcessor
  \/ /\ a.type = "io wait" /\ roundIteration' = 0
     /\ IF scheduled[c].type = "wait repeat" /\ scheduled[c].due
        THEN /\ m_queue' = [m_queue EXCEPT !["naive"] = Tail(@)]
             /\ SetScheduled(c, WaitRepeat(TRUE)) /\ ToProcessor(c)
        ELSE /\ m_queue' = [m_queue EXCEPT !["naive"] = Rounded(@)]
             /\ IF scheduled[c].type = "wait repeat" THEN UNCHANGED scheduled
                                                   ELSE SetScheduled(c, WaitRepeat(FALSE))
             /\ UNCHANGED atProcessor
  \/ /\ a.type \in {"wait repeat", "other"} /\ roundIteration' = 0
     /\ m_queue' = [m_queue EXCEPT !["naive"] = Tail(@)]
     /\ SetScheduled(c, a) /\ ToProcessor(c)

\* Every ConsumeEvery turns the backlog is taken, if its lock is free.
NaiveLooks ==
  /\ AtLoop("naive") /\ m_running["naive"] /\ consumeIteration = ConsumeEvery
  /\ consumeIteration' = 0
  /\ m_queue' = [m_queue EXCEPT !["naive"] = MovedAll(m_backlog["naive"], @)]
  /\ m_backlog' = [m_backlog EXCEPT !["naive"] = <<>>]
  /\ UNCHANGED <<ioWorkerType, m_running, kept, roundIteration, epoll, worker, scheduled,
                 awaits, ready, atProcessor, mayStop, stops>>

\* try_to_lock fails: a processor is pushing.
NaiveMisses ==
  /\ AtLoop("naive") /\ m_running["naive"] /\ consumeIteration = ConsumeEvery
  /\ consumeIteration' = 0
  /\ \E c \in atProcessor : WorkerFor(scheduled[c]) = "naive"
  /\ UNCHANGED <<ioWorkerType, m_running, m_backlog, m_queue, kept, roundIteration,
                 epoll,
                 worker, scheduled, awaits, ready, atProcessor, mayStop, stops>>

NaivePolls ==
  /\ AtLoop("naive") /\ m_running["naive"] /\ NaiveQueue # <<>>
  /\ consumeIteration < ConsumeEvery /\ consumeIteration' = consumeIteration + 1
  /\ LET c == Head(NaiveQueue) IN
     \E a \in Answers(c) : Iterated(c, a) /\ NaiveTakes(c, a)
  /\ UNCHANGED <<ioWorkerType, m_running, m_backlog, kept, epoll, worker, mayStop, stops>>

-----------------------------------------------------------------------------
(* IOEventWorker::run over epoll: one-shot registrations, the trigger and the *)
(* coroutines that change from reading to writing.                            *)

Peer(w) == CHOOSE v \in EventWorkers : v # w

\* consumeBacklog: EPOLL_CTL_ADD for everyone.
EventConsumes(w) ==
  /\ AtLoop(w) /\ m_running[w]
  /\ epoll' = [epoll EXCEPT ![w].added = @ \cup Range(m_backlog[w]),
                            ![w].enabled = @ \cup Range(m_backlog[w])]
  /\ m_backlog' = [m_backlog EXCEPT ![w] = <<>>]
  /\ worker' = [worker EXCEPT ![w] = "wait"]
  /\ UNCHANGED <<ioWorkerType, m_running, m_queue, kept, roundIteration,
                 consumeIteration,
                 scheduled, awaits, ready, atProcessor, mayStop, stops>>

\* waitEvents: epoll_wait disables what it reports and the trigger is read.
EventArrives(w) ==
  /\ worker[w] = "wait"
  /\ LET fired == {c \in epoll[w].enabled : c \in ready /\ scheduled[c].event = w} IN
     /\ epoll[w].trigger \/ fired # {}
     /\ epoll' = [epoll EXCEPT ![w].events = fired, ![w].enabled = @ \ fired,
                               ![w].trigger = FALSE]
  /\ worker' = [worker EXCEPT ![w] = "events"]
  /\ UNCHANGED <<ioWorkerType, m_running, m_backlog, m_queue, kept, roundIteration,
                 consumeIteration, scheduled, awaits, ready, atProcessor, mayStop,
                 stops>>

\* Mutant: a coroutine that changes workers stays registered where it was.
MutEventTakes(w, c, a) ==
  LET handled == [epoll[w] EXCEPT !.events = @ \ {c}]
      becomes(r) == epoll' = [epoll EXCEPT ![w] = r]
  IN  \/ /\ IsIO(a) /\ a.event = w
         /\ becomes([handled EXCEPT !.enabled = @ \cup {c}]) /\ UNCHANGED atProcessor
      \/ /\ IsIO(a) /\ a.event # w
         /\ becomes([handled EXCEPT !.pop = Append(@, c)]) /\ UNCHANGED atProcessor
      \/ ~IsIO(a) /\ becomes([handled EXCEPT !.added = @ \ {c}]) /\ ToProcessor(c)

\* EPOLL_CTL_MOD if it goes on waiting here, EPOLL_CTL_DEL if not.
EventTakes(w, c, a) ==
  LET handled == [epoll[w] EXCEPT !.events = @ \ {c}]
      becomes(r) == epoll' = [epoll EXCEPT ![w] = r]
  IN  \/ /\ IsIO(a) /\ a.event = w
         /\ becomes([handled EXCEPT !.enabled = @ \cup {c}]) /\ UNCHANGED atProcessor
      \/ /\ IsIO(a) /\ a.event # w
         /\ becomes([handled EXCEPT !.added = @ \ {c}, !.pop = Append(@, c)])
         /\ UNCHANGED atProcessor
      \/ ~IsIO(a) /\ becomes([handled EXCEPT !.added = @ \ {c}]) /\ ToProcessor(c)

EventIterates(w) ==
  /\ worker[w] = "events"
  /\ \E c \in epoll[w].events : \E a \in Answers(c) :
       Iterated(c, a) /\ EventTakes(w, c, a) /\ SetScheduled(c, a)
  /\ UNCHANGED <<ioWorkerType, m_running, m_backlog, m_queue, kept, roundIteration,
                 consumeIteration, worker, mayStop, stops>>

\* The others go through the foreman to the other worker.
EventHandsOver(w) ==
  /\ worker[w] = "events" /\ epoll[w].events = {}
  /\ PushTo(Peer(w), epoll[w].pop, [epoll EXCEPT ![w].pop = <<>>])
  /\ worker' = [worker EXCEPT ![w] = "loop"]
  /\ UNCHANGED <<ioWorkerType, m_running, m_queue, kept, roundIteration,
                 consumeIteration,
                 scheduled, awaits, ready, atProcessor, mayStop, stops>>

-----------------------------------------------------------------------------
(* Executor::stop: one worker after the other, the foreman's writer first.    *)

ExecutorStopBegins ==
  /\ mayStop /\ stops = <<>> /\ \A w \in Used : m_running[w]
  /\ stops' = (IF ioWorkerType = "naive" THEN <<"naive">> ELSE <<"writer", "reader">>)
              \o <<"timer">>
  /\ UNCHANGED <<ioWorkerType, m_running, m_backlog, m_queue, kept, roundIteration,
                 consumeIteration, epoll, worker, scheduled, awaits, ready, atProcessor,
                 mayStop>>

StopWorker ==
  /\ stops # <<>> /\ stops' = Tail(stops)
  /\ LET w == Head(stops) IN
     /\ m_running' = [m_running EXCEPT ![w] = FALSE]
     /\ epoll' = IF w \in EventWorkers THEN [epoll EXCEPT ![w].trigger = TRUE] ELSE epoll
  /\ UNCHANGED <<ioWorkerType, m_backlog, m_queue, kept, roundIteration,
                 consumeIteration,
                 worker, scheduled, awaits, ready, atProcessor, mayStop>>

TimerSteps == TimerConsumes \/ TimerVisits \/ TimerSleeps \/ Exits("timer")
NaiveSteps == NaiveConsumes \/ NaiveLooks \/ NaiveMisses \/ NaivePolls \/ Exits("naive")
EventSteps(w) == \/ EventConsumes(w) \/ EventArrives(w) \/ EventIterates(w)
                 \/ EventHandsOver(w) \/ Exits(w)

ProcessorSteps(c) == ProcessorIterates(c) \/ ProcessorHandsOver(c) \/ ProcessorFinishes(c)

WorkersNext ==
  \/ \E c \in Handles : ProcessorSteps(c) \/ EventHappens(c) \/ TimePasses(c)
  \/ TimerSteps \/ NaiveSteps \/ \E w \in EventWorkers : EventSteps(w)
  \/ ExecutorStopBegins \/ StopWorker

\* Every thread runs on, time passes, a coroutine the processor hands over arrives, and
\* the naive worker does not find its backlog's lock taken every time it looks.
WorkersFairness ==
  /\ WF_workerVars(TimerSteps) /\ WF_workerVars(NaiveSteps) /\ SF_workerVars(NaiveLooks)
  /\ \A w \in EventWorkers : WF_workerVars(EventSteps(w))
  /\ \A c \in Handles :
       WF_workerVars(TimePasses(c)) /\ WF_workerVars(ProcessorHandsOver(c))
  /\ WF_workerVars(StopWorker)

WorkersSpec == WorkersInit /\ [][WorkersNext]_workerVars /\ WorkersFairness

-----------------------------------------------------------------------------
\* How often coroutine c is held: by the processor, in a backlog, in a queue, registered,
\* on the way to the other event worker.
Held(c) ==
  LET in(s) == Cardinality({i \in DOMAIN s : s[i] = c})
      one(b) == IF b THEN 1 ELSE 0
      of(w) == in(m_backlog[w]) + in(m_queue[w])
      at(w) == one(c \in epoll[w].added) + in(epoll[w].pop)
  IN one(c \in atProcessor) + in(kept) + of("timer") + of("naive") + of("reader")
     + of("writer") + at("reader") + at("writer")

\* A coroutine that has not finished is in one place, whatever it hands itself over to
\* (a second epoll_ctl ADD, or a MOD or DEL of nothing, would throw out of the thread).
HeldInOnePlace == \A c \in Handles : Held(c) = IF scheduled[c] = Finished THEN 0 ELSE 1

\* A registration that is enabled, or an event at hand, belongs to a registered handle
\* whose coroutine waits for that worker's kind of event.
ArmedForItsEvent ==
  \A w \in EventWorkers : \A c \in epoll[w].enabled \cup epoll[w].events :
    c \in epoll[w].added /\ IsIO(scheduled[c]) /\ scheduled[c].event = w

\* Both: whoever holds a coroutine is the only one, and waits for its event.
HeldOnce == HeldInOnePlace /\ ArmedForItsEvent

Stopping == stops # <<>> \/ \E w \in Used : ~m_running[w]

\* An event that happened is seen by its coroutine unless the executor stops: no push, poll,
\* one-shot registration or hand-over to the other worker loses it.
EventSeen == \A c \in Handles : c \in ready ~> (c \notin ready \/ Stopping)

\* A coroutine whose time has come is iterated unless the executor stops.
TimerFires ==
  \A c \in Handles : scheduled[c] = WaitRepeat(TRUE) /\ c \notin atProcessor ~>
                       (scheduled[c] # WaitRepeat(TRUE) \/ c \in atProcessor \/ Stopping)

\* Executor::stop and join: every thread ends.
WorkersStop == stops # <<>> ~> \A w \in Used : worker[w] = "stopped"
=============================================================================
