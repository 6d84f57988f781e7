---------------------------- MODULE AsyncProcessor ----------------------------
(***************************************************************************)
(* oatpp::async::Processor with a CoroutineWaitList: the thread that runs  *)
(* coroutines (SubmissionProcessor::run), the thread that times sleeping   *)
(* coroutines out (checkCoroutinesSleep), threads that notify the wait     *)
(* list, co-workers that hand coroutines back, and the thread that stops   *)
(* the executor.                                                           *)
(*                                                                         *)
(* m_taskLock is a leaf lock, its critical sections are single actions,    *)
(* and so is a notification of m_taskCondition with the push before it:    *)
(* the waiter tests its predicate under m_taskLock.  m_sleepMutex and      *)
(* CoroutineWaitList::m_lock are nested in both orders and are modelled.   *)
(* What a coroutine does when it is iterated is any of Outcomes.           *)
(***************************************************************************)
EXTENDS Integers, Sequences, FiniteSets

CONSTANTS
  Coroutines,
  Timed,        \* the coroutines whose waits carry a time point
  Notifiers,    \* threads that call notifyFirst and notifyAll
  Iterations,   \* numIterations of iterate(); 100 in the code
  MayStop,      \* whether the executor is stopped at all
  NoOne

ASSUME ConstantsAssumption ==
  /\ Timed \subseteq Coroutines
  /\ Iterations \in Nat \ {0}
  /\ MayStop \in BOOLEAN
  /\ NoOne \notin Coroutines \cup Notifiers
  /\ Notifiers \cap {"processor", "checker", "stopper"} = {}

ASSUME FiniteAssumption == IsFiniteSet(Coroutines)

Actors == Notifiers \cup {"processor", "checker", "stopper"}

\* What takeAction leaves to the scheduler: run again (repeat, yield, start of
\* a child), finished, go to a co-worker (I/O or timer), sleep on the list.
Outcomes == {"none", "finish", "worker", "wait"}

VARIABLES
  status,     \* each coroutine: "new", "counted", "live", "finished", "gone"
  schA,       \* CoroutineHandle::_SCH_A
  due,        \* the sleepers and sleepers-to-be whose time point has passed
  counter,    \* m_tasksCounter
  taskList,   \* m_taskList
  pushList,   \* m_pushList
  tmpList,    \* the local list of pushQueues
  queue,      \* m_queue
  popQueue,   \* m_ioPopQueues and m_timerPopQueues
  atWorker,   \* coroutines the co-workers hold
  sleepers,   \* m_sleepNoTimeSet and, for Timed, m_sleepTimeSet
  list,       \* CoroutineWaitList::m_coroutines
  sleepLock,  \* owner of m_sleepMutex
  listLock,   \* owner of CoroutineWaitList::m_lock
  pc, cur,    \* of each actor: next step, coroutine in hand
  back,       \* where the processor continues after a wait-list insertion
  round,      \* the loop variable of iterate
  todo,       \* the sleepers the checker's scan has not looked at yet
  all,        \* notifiers inside notifyAll
  isRunning,  \* SubmissionProcessor::m_isRunning
  mRunning    \* Processor::m_running

tasks == <<status, schA, counter>>
sleep == <<due, sleepers, list>>
lists == <<taskList, pushList, tmpList, queue, popQueue, atWorker>>
locks == <<sleepLock, listLock>>
local == <<back, round, todo, all>>
flags == <<isRunning, mRunning>>
vars  == <<tasks, sleep, lists, locks, pc, cur, local, flags>>

Statuses == {"new", "counted", "live", "finished", "gone"}
Labels == {"run", "wait", "waiting", "push", "distribute", "iterate", "sleep",
           "list", "popTasks", "more", "lock", "check", "block", "blocked",
           "relock", "scan", "forget", "pause", "idle", "pick", "wake",
           "running", "notify", "join", "exit"}

TypeOK ==
  /\ status \in [Coroutines -> Statuses]
  /\ schA \in [Coroutines -> Outcomes]
  /\ due \subseteq Coroutines
  /\ counter \in 0 .. Cardinality(Coroutines)
  /\ taskList \in Seq(Coroutines) /\ pushList \in Seq(Coroutines)
  /\ tmpList \in Seq(Coroutines) /\ queue \in Seq(Coroutines)
  /\ popQueue \subseteq Coroutines /\ atWorker \subseteq Coroutines
  /\ sleepers \subseteq Coroutines /\ list \subseteq Coroutines
  /\ sleepLock \in {NoOne, "checker"}
  /\ listLock \in Notifiers \cup {NoOne}
  /\ pc \in [Actors -> Labels]
  /\ cur \in [Actors -> Coroutines \cup {NoOne}]
  /\ back \in {"distribute", "iterate"}
  /\ round \in 0 .. Iterations
  /\ todo \subseteq Coroutines
  /\ all \subseteq Notifiers
  /\ isRunning \in BOOLEAN /\ mRunning \in BOOLEAN

Init ==
  /\ status = [c \in Coroutines |-> "new"]
  /\ schA = [c \in Coroutines |-> "none"]
  /\ due = {} /\ counter = 0
  /\ taskList = <<>> /\ pushList = <<>> /\ tmpList = <<>> /\ queue = <<>>
  /\ popQueue = {} /\ atWorker = {} /\ sleepers = {} /\ list = {}
  /\ sleepLock = NoOne /\ listLock = NoOne
  /\ pc = [a \in Actors |-> CASE a = "processor" -> "run"
                              [] a = "checker"   -> "lock"
                              [] OTHER           -> "idle"]
  /\ cur = [a \in Actors |-> NoOne]
  /\ back = "iterate" /\ round = 0 /\ todo = {} /\ all = {}
  /\ isRunning = TRUE /\ mRunning = TRUE

At(a, label)  == pc[a] = label
Goto(a, from, to) == pc[a] = from /\ pc' = [pc EXCEPT ![a] = to]

\* Where an actor's next step takes it when it also notifies m_taskCondition.
GotoNotifying(a, from, to) ==
  /\ pc[a] = from
  /\ pc' = [pc EXCEPT ![a] = to,
                      !["processor"] = IF @ = "waiting" THEN "wait" ELSE @]

NotifyProcessor ==
  pc' = [pc EXCEPT !["processor"] = IF @ = "waiting" THEN "wait" ELSE @]

-----------------------------------------------------------------------------
(* Submission *)

\* execute() counts the task before it is visible to the processor.
Count(c) ==
  /\ status[c] = "new"
  /\ status' = [status EXCEPT ![c] = "counted"]
  /\ counter' = counter + 1
  /\ UNCHANGED <<schA, sleep, lists, locks, pc, cur, local, flags>>

Submit(c) ==
  /\ status[c] = "counted"
  /\ status' = [status EXCEPT ![c] = "live"]
  /\ taskList' = Append(taskList, c)
  /\ NotifyProcessor
  /\ UNCHANGED <<schA, counter, sleep, pushList, tmpList, queue, popQueue,
                 atWorker, locks, cur, local, flags>>

-----------------------------------------------------------------------------
(* The processor's thread *)

Run ==
  /\ Goto("processor", "run", IF isRunning THEN "wait" ELSE "exit")
  /\ UNCHANGED <<tasks, sleep, lists, locks, cur, local, flags>>

\* Mutant of WaitForTasks: the predicate does not look at m_pushList.
MutWaitForSubmissions ==
  /\ Goto("processor", "wait",
          IF taskList = <<>> /\ mRunning THEN "waiting" ELSE "push")
  /\ UNCHANGED <<tasks, sleep, lists, locks, cur, local, flags>>

WaitForTasks ==
  /\ Goto("processor", "wait",
          IF pushList = <<>> /\ taskList = <<>> /\ mRunning
            THEN "waiting" ELSE "push")
  /\ UNCHANGED <<tasks, sleep, lists, locks, cur, local, flags>>

PushQueues ==
  /\ Goto("processor", "push", "distribute")
  /\ queue' = queue \o taskList
  /\ taskList' = <<>>
  /\ tmpList' = pushList
  /\ pushList' = <<>>
  /\ UNCHANGED <<tasks, sleep, popQueue, atWorker, locks, cur, local, flags>>

\* Coroutine c, already taken off its queue so that q is left, does what its
\* action says.  from is the processor's loop.
Schedule(c, action, q, from) ==
  /\ schA' = [schA EXCEPT ![c] = action]
  /\ \/ /\ action \in {"none", "finish"}
        /\ queue' = Append(q, c)
        /\ status' = [status EXCEPT ![c] =
                        IF action = "finish" THEN "finished" ELSE @]
        /\ UNCHANGED <<due, popQueue, pc, cur, back>>
     \/ /\ action = "worker"
        /\ popQueue' = popQueue \cup {c}
        /\ queue' = q
        /\ UNCHANGED <<status, due, pc, cur, back>>
     \/ /\ action = "wait"
        /\ queue' = q
        /\ due' = due \ {c}
        /\ pc' = [pc EXCEPT !["processor"] = "sleep"]
        /\ cur' = [cur EXCEPT !["processor"] = c]
        /\ back' = from
        /\ UNCHANGED <<status, popQueue>>

\* addCoroutine, for the coroutines the pushed list brought back.
AddCoroutine ==
  /\ At("processor", "distribute")
  /\ tmpList # <<>>
  /\ tmpList' = Tail(tmpList)
  /\ Schedule(Head(tmpList), schA[Head(tmpList)], queue, "distribute")
  /\ UNCHANGED <<counter, sleepers, list, taskList, pushList, atWorker, locks,
                 round, todo, all, flags>>

StartIterating ==
  /\ tmpList = <<>>
  /\ Goto("processor", "distribute", "iterate")
  /\ round' = 0
  /\ UNCHANGED <<tasks, sleep, lists, locks, cur, back, todo, all, flags>>

\* Mutant of Remove: the deleted task is still counted.
MutRemove ==
  /\ At("processor", "iterate")
  /\ round < Iterations
  /\ queue # <<>> /\ status[Head(queue)] = "finished"
  /\ queue' = Tail(queue)
  /\ status' = [status EXCEPT ![Head(queue)] = "gone"]
  /\ round' = round + 1
  /\ UNCHANGED <<schA, counter, sleep, taskList, pushList, tmpList, popQueue,
                 atWorker, locks, pc, cur, back, todo, all, flags>>

\* iterate() meets a finished coroutine: it is deleted.
Remove ==
  /\ At("processor", "iterate")
  /\ round < Iterations
  /\ queue # <<>> /\ status[Head(queue)] = "finished"
  /\ queue' = Tail(queue)
  /\ counter' = counter - 1
  /\ status' = [status EXCEPT ![Head(queue)] = "gone"]
  /\ round' = round + 1
  /\ UNCHANGED <<schA, sleep, taskList, pushList, tmpList, popQueue, atWorker,
                 locks, pc, cur, back, todo, all, flags>>

Iterate ==
  /\ At("processor", "iterate")
  /\ round < Iterations
  /\ queue # <<>> /\ status[Head(queue)] # "finished"
  /\ \E action \in Outcomes :
       Schedule(Head(queue), action, Tail(queue), "iterate")
  /\ round' = round + 1
  /\ UNCHANGED <<counter, sleepers, list, taskList, pushList, tmpList,
                 atWorker, locks, todo, all, flags>>

StopIterating ==
  /\ round = Iterations \/ queue = <<>>
  /\ Goto("processor", "iterate", "popTasks")
  /\ UNCHANGED <<tasks, sleep, lists, locks, cur, local, flags>>

\* Mutant of PutToSleep: the checker is not notified.
MutPutToSleep ==
  /\ sleepLock = NoOne
  /\ Goto("processor", "sleep", "list")
  /\ sleepers' = sleepers \cup {cur["processor"]}
  /\ UNCHANGED <<tasks, due, list, lists, locks, cur, local, flags>>

\* putCoroutineToSleep; a coroutine with a time point wakes the checker.
PutToSleep ==
  LET c == cur["processor"] IN
  /\ At("processor", "sleep")
  /\ sleepLock = NoOne
  /\ sleepers' = sleepers \cup {c}
  /\ pc' = [pc EXCEPT !["processor"] = "list",
                      !["checker"] =
                         IF c \in Timed /\ @ = "blocked" THEN "relock" ELSE @]
  /\ UNCHANGED <<tasks, due, list, lists, locks, cur, local, flags>>

\* Mutant of AddToList: the coroutine is not inserted.
MutAddToList ==
  /\ listLock = NoOne
  /\ Goto("processor", "list", back)
  /\ cur' = [cur EXCEPT !["processor"] = NoOne]
  /\ UNCHANGED <<tasks, sleep, lists, locks, local, flags>>

\* CoroutineWaitList::add
AddToList ==
  /\ listLock = NoOne
  /\ Goto("processor", "list", back)
  /\ list' = list \cup {cur["processor"]}
  /\ cur' = [cur EXCEPT !["processor"] = NoOne]
  /\ UNCHANGED <<tasks, due, sleepers, lists, locks, local, flags>>

PopTasks ==
  /\ Goto("processor", "popTasks", "more")
  /\ atWorker' = atWorker \cup popQueue
  /\ popQueue' = {}
  /\ UNCHANGED <<tasks, sleep, taskList, pushList, tmpList, queue, locks, cur,
                 local, flags>>

\* iterate() returns; run() calls it again or goes to wait.
More ==
  /\ Goto("processor", "more",
          IF queue # <<>> \/ pushList # <<>> \/ taskList # <<>>
            THEN "push" ELSE "run")
  /\ UNCHANGED <<tasks, sleep, lists, locks, cur, local, flags>>

ProcessorStep ==
  \/ Run \/ WaitForTasks \/ PushQueues \/ AddCoroutine \/ StartIterating
  \/ Remove \/ Iterate \/ StopIterating \/ PopTasks \/ More

\* A co-worker is done with a coroutine and leaves it the next action.
WorkerReturns(c) ==
  /\ c \in atWorker
  /\ atWorker' = atWorker \ {c}
  /\ \E action \in Outcomes : schA' = [schA EXCEPT ![c] = action]
  /\ pushList' = Append(pushList, c)
  /\ NotifyProcessor
  /\ UNCHANGED <<status, counter, sleep, taskList, tmpList, queue, popQueue,
                 locks, cur, local, flags>>

-----------------------------------------------------------------------------
(* Notifying the wait list *)

BeginNotify(n) ==
  /\ listLock = NoOne
  /\ listLock' = n
  /\ Goto(n, "idle", "pick")
  /\ all' \in {all, all \cup {n}}
  /\ UNCHANGED <<tasks, sleep, lists, sleepLock, cur, back, round, todo,
                 flags>>

\* removeCoroutine erases any element, the list is an unordered_set.
Pick(n) ==
  /\ \E c \in list :
       /\ list' = list \ {c}
       /\ cur' = [cur EXCEPT ![n] = c]
  /\ Goto(n, "pick", "wake")
  /\ UNCHANGED <<tasks, due, sleepers, lists, locks, local, flags>>

\* Mutant of Wake: the coroutine stays in the sleep set.
MutWake(n) ==
  LET c == cur[n] IN
  /\ At(n, "wake")
  /\ schA' = [schA EXCEPT ![c] = "none"]
  /\ pushList' = Append(pushList, c)
  /\ cur' = [cur EXCEPT ![n] = NoOne]
  /\ IF n \in all
       THEN GotoNotifying(n, "wake", "pick") /\ UNCHANGED listLock
       ELSE GotoNotifying(n, "wake", "idle") /\ listLock' = NoOne
  /\ UNCHANGED <<status, counter, sleep, taskList, tmpList, queue, popQueue,
                 atWorker, sleepLock, local, flags>>

\* wakeCoroutine, with the list's lock held.
Wake(n) ==
  LET c == cur[n] IN
  /\ At(n, "wake")
  /\ sleepLock = NoOne
  /\ sleepers' = sleepers \ {c}
  /\ schA' = [schA EXCEPT ![c] = "none"]
  /\ pushList' = Append(pushList, c)
  /\ cur' = [cur EXCEPT ![n] = NoOne]
  /\ IF n \in all
       THEN GotoNotifying(n, "wake", "pick") /\ UNCHANGED listLock
       ELSE GotoNotifying(n, "wake", "idle") /\ listLock' = NoOne
  /\ UNCHANGED <<status, counter, due, list, taskList, tmpList, queue,
                 popQueue, atWorker, sleepLock, local, flags>>

EndNotify(n) ==
  /\ list = {}
  /\ Goto(n, "pick", "idle")
  /\ listLock' = NoOne
  /\ all' = all \ {n}
  /\ UNCHANGED <<tasks, sleep, lists, sleepLock, cur, back, round, todo,
                 flags>>

NotifierStep(n) == Pick(n) \/ EndNotify(n)

-----------------------------------------------------------------------------
(* checkCoroutinesSleep *)

\* The clock passes the time point of a waiting coroutine.
Elapse(c) ==
  /\ c \in Timed \ due
  /\ schA[c] = "wait"
  /\ due' = due \cup {c}
  /\ UNCHANGED <<tasks, sleepers, list, lists, locks, pc, cur, local, flags>>

CheckerLoop ==
  /\ Goto("checker", "pause", IF mRunning THEN "lock" ELSE "exit")
  /\ UNCHANGED <<tasks, sleep, lists, locks, cur, local, flags>>

CheckerLock ==
  /\ Goto("checker", "lock", "check") \/ Goto("checker", "relock", "check")
  /\ sleepLock = NoOne
  /\ sleepLock' = "checker"
  /\ UNCHANGED <<tasks, sleep, lists, listLock, cur, local, flags>>

\* The predicate of m_sleepCV; m_running may change right after it.
CheckSleepers ==
  /\ IF mRunning /\ sleepers \cap Timed = {}
       THEN Goto("checker", "check", "block") /\ UNCHANGED todo
       ELSE Goto("checker", "check", "scan") /\ todo' = sleepers \cap Timed
  /\ UNCHANGED <<tasks, sleep, lists, locks, cur, back, round, all, flags>>

Block ==
  /\ Goto("checker", "block", "blocked")
  /\ sleepLock' = NoOne
  /\ UNCHANGED <<tasks, sleep, lists, listLock, cur, local, flags>>

\* One element of m_sleepTimeSet: left alone, or erased when it is due.
Scan(c) ==
  /\ At("checker", "scan")
  /\ c \in todo
  /\ todo' = todo \ {c}
  /\ IF c \in due
       THEN /\ Goto("checker", "scan", "forget")
            /\ sleepers' = sleepers \ {c}
            /\ cur' = [cur EXCEPT !["checker"] = c]
       ELSE UNCHANGED <<sleepers, pc, cur>>
  /\ UNCHANGED <<tasks, due, list, lists, locks, back, round, all, flags>>

\* forgetCoroutine, with m_sleepMutex held, and the push that follows.
Forget ==
  LET c == cur["checker"] IN
  /\ At("checker", "forget")
  /\ listLock = NoOne
  /\ GotoNotifying("checker", "forget", "scan")
  /\ list' = list \ {c}
  /\ schA' = [schA EXCEPT ![c] = "none"]
  /\ pushList' = Append(pushList, c)
  /\ cur' = [cur EXCEPT !["checker"] = NoOne]
  /\ UNCHANGED <<status, counter, due, sleepers, taskList, tmpList, queue,
                 popQueue, atWorker, locks, local, flags>>

EndScan ==
  /\ todo = {}
  /\ Goto("checker", "scan", "pause")
  /\ sleepLock' = NoOne
  /\ UNCHANGED <<tasks, sleep, lists, listLock, cur, local, flags>>

CheckerStep ==
  \/ CheckerLoop \/ CheckSleepers \/ Block \/ (\E c \in Coroutines : Scan(c))
  \/ EndScan

-----------------------------------------------------------------------------
(* SubmissionProcessor::stop and Processor::stop *)

StopRequested ==
  /\ MayStop
  /\ Goto("stopper", "idle", "running")
  /\ isRunning' = FALSE
  /\ UNCHANGED <<tasks, sleep, lists, locks, cur, local, mRunning>>

StopProcessor ==
  /\ GotoNotifying("stopper", "running", "notify")
  /\ mRunning' = FALSE
  /\ UNCHANGED <<tasks, sleep, lists, locks, cur, local, isRunning>>

\* m_sleepCV is notified without m_sleepMutex.
NotifyChecker ==
  /\ At("stopper", "notify")
  /\ pc' = [pc EXCEPT !["stopper"] = "join",
                      !["checker"] = IF @ = "blocked" THEN "relock" ELSE @]
  /\ UNCHANGED <<tasks, sleep, lists, locks, cur, local, flags>>

JoinChecker ==
  /\ At("checker", "exit")
  /\ Goto("stopper", "join", "exit")
  /\ UNCHANGED <<tasks, sleep, lists, locks, cur, local, flags>>

StopperStep == StopProcessor \/ NotifyChecker \/ JoinChecker

-----------------------------------------------------------------------------

\* Nothing is left to do: the threads wait for work or have returned, and the
\* coroutines are deleted, or sleep without a time point.
Quiescent ==
  /\ pc["processor"] \in {"waiting", "exit"}
  /\ pc["checker"] \in {"blocked", "exit"}
  /\ pc["stopper"] \in {"idle", "exit"}
  /\ \A n \in Notifiers : At(n, "idle")
  /\ UNCHANGED vars

Next ==
  \/ \E c \in Coroutines :
       Count(c) \/ Submit(c) \/ WorkerReturns(c) \/ Elapse(c)
  \/ ProcessorStep \/ PutToSleep \/ AddToList
  \/ \E n \in Notifiers : BeginNotify(n) \/ Wake(n) \/ NotifierStep(n)
  \/ CheckerStep \/ CheckerLock \/ Forget
  \/ StopRequested \/ StopperStep
  \/ Quiescent

Spec == Init /\ [][Next]_vars

\* Every thread runs, the clock advances, and a thread that waits for a mutex
\* that is released again and again gets it.  Nothing is assumed of clients,
\* co-workers, notifiers that have not begun, or of the stop request.
Fairness ==
  /\ WF_vars(ProcessorStep) /\ SF_vars(PutToSleep) /\ SF_vars(AddToList)
  /\ WF_vars(CheckerStep) /\ SF_vars(CheckerLock) /\ SF_vars(Forget)
  /\ \A n \in Notifiers : WF_vars(NotifierStep(n)) /\ SF_vars(Wake(n))
  /\ \A c \in Coroutines : WF_vars(Submit(c)) /\ WF_vars(Elapse(c))
  /\ WF_vars(StopperStep)

FairSpec == Spec /\ Fairness

-----------------------------------------------------------------------------
(* Properties *)

Occurrences(s, c) == Cardinality({i \in DOMAIN s : s[i] = c})
Membership(S, c)  == IF c \in S THEN 1 ELSE 0

\* How many owners have coroutine c: queues, co-workers, the sleep set, and
\* threads that have it in hand while it is in none of these.
Owners(c) ==
  Occurrences(taskList \o pushList \o tmpList \o queue, c)
    + Membership(popQueue, c) + Membership(atWorker, c)
    + Membership(sleepers, c)
    + Membership({d \in {cur["processor"]} : At("processor", "sleep")}, c)
    + Membership({cur["checker"]}, c)

\* A coroutine that is submitted and not yet deleted has exactly one owner:
\* no interleaving of iteration, notification, time-out and co-workers loses
\* it or schedules it twice (the queues are intrusive lists, a second push
\* would corrupt them).
SingleOwner ==
  \A c \in Coroutines :
    Owners(c) = IF status[c] \in {"live", "finished"} THEN 1 ELSE 0

\* getTasksCount() is exact: it counts what execute() was called for and what
\* is not deleted yet, also while a task is with a co-worker or asleep.
TasksCounted ==
  counter = Cardinality({c \in Coroutines : status[c] \notin {"new", "gone"}})

\* The list holds "coroutines waiting to be notified": whatever it holds
\* sleeps or is being timed out, so that a notification never reaches a
\* coroutine that is scheduled, running or deleted.
ListedSleep == list \subseteq sleepers \cup {cur["checker"]}

\* Every variable has its type, and the wait list and the sets agree.
Consistent == TypeOK /\ ListedSleep

\* Every sleeping coroutine can be reached by a notification, unless a thread
\* is moving it.
SleepersReachable ==
  \A c \in sleepers : c \in list \/ \E a \in Actors : cur[a] = c

\* Once the processor is stopped its thread does not block any more.
StoppedAwake == ~ mRunning => ~ At("processor", "waiting")

\* What is submitted or pushed back to the processor is taken over by it: its
\* thread does not sleep through the notification.
WorkTaken ==
  /\ taskList # <<>> ~> taskList = <<>>
  /\ pushList # <<>> ~> pushList = <<>>

\* A timed wait ends after its time point.
TimeoutWakes ==
  \A c \in Timed : (c \in sleepers /\ c \in due) ~> c \notin sleepers

\* A thread that notifies the list returns from the call.
NotifyReturns == \A n \in Notifiers : ~ At(n, "idle") ~> At(n, "idle")

\* stop() returns.
StopReturns == ~ At("stopper", "idle") ~> At("stopper", "exit")
=============================================================================
