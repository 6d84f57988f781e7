------------------------------ MODULE FastQueue -------------------------------
(* async/utils/FastQueue: intrusive lists of coroutine handles.  An entry has *)
(* one _ref, whichever queue it is in, and keeps an old one when a queue is   *)
(* dropped by clearing its ends, as the event workers do with their backlog.  *)
EXTENDS Integers, Sequences

CONSTANTS Entries, Queues, NoEntry

ASSUME QueueConstants == NoEntry \notin Entries

VARIABLES first, last, count, _ref

queueVars == <<first, last, count, _ref>>

QueueInit ==
  /\ first = [q \in Queues |-> NoEntry] /\ last = [q \in Queues |-> NoEntry]
  /\ count = [q \in Queues |-> 0]
  /\ _ref = [e \in Entries |-> NoEntry]

\* The first n entries that a walk from start along ref meets.
WalkFrom(start, ref, n) ==
  LET walk[k \in 0 .. n] ==
        IF k = 0 THEN <<>>
        ELSE Append(walk[k - 1], IF k = 1 THEN start ELSE ref[walk[k - 1][k - 1]])
  IN walk[n]

Walk(q) == WalkFrom(first[q], _ref, count[q])

In(q) == {Walk(q)[i] : i \in 1 .. count[q]}

\* Entries are handles that their owner has taken out of every other queue.
Detached(e) == \A q \in Queues : e \notin In(q)

pushFront(q, entry) ==
  /\ Detached(entry)
  /\ _ref' = [_ref EXCEPT ![entry] = first[q]]
  /\ first' = [first EXCEPT ![q] = entry]
  /\ last' = [last EXCEPT ![q] = IF @ = NoEntry THEN entry ELSE @]
  /\ count' = [count EXCEPT ![q] = @ + 1]

pushBack(q, entry) ==
  /\ Detached(entry)
  /\ _ref' = IF last[q] = NoEntry THEN [_ref EXCEPT ![entry] = NoEntry]
             ELSE [_ref EXCEPT ![entry] = NoEntry, ![last[q]] = entry]
  /\ first' = [first EXCEPT ![q] = IF last[q] = NoEntry THEN entry ELSE @]
  /\ last' = [last EXCEPT ![q] = entry]
  /\ count' = [count EXCEPT ![q] = @ + 1]

round(q) ==
  /\ count[q] > 1
  /\ LET linked == [_ref EXCEPT ![last[q]] = first[q]] IN
     /\ first' = [first EXCEPT ![q] = linked[@]]
     /\ _ref' = [linked EXCEPT ![first[q]] = NoEntry]
  /\ last' = [last EXCEPT ![q] = first[q]]
  /\ UNCHANGED count

\* Mutant: the last entry leaves its address behind.
MutPopFront(q) ==
  /\ count[q] > 0
  /\ first' = [first EXCEPT ![q] = _ref[@]]
  /\ count' = [count EXCEPT ![q] = @ - 1]
  /\ UNCHANGED <<_ref, last>>

\* popFront and popFrontNoData, which its callers use on a queue with entries.
popFront(q) ==
  /\ count[q] > 0
  /\ first' = [first EXCEPT ![q] = _ref[@]]
  /\ last' = [last EXCEPT ![q] = IF _ref[first[q]] = NoEntry THEN NoEntry ELSE @]
  /\ count' = [count EXCEPT ![q] = @ - 1]
  /\ UNCHANGED _ref

moveAll(fromQueue, toQueue) ==
  /\ fromQueue # toQueue /\ count[fromQueue] > 0
  /\ IF last[toQueue] = NoEntry
     THEN first' = [first EXCEPT ![toQueue] = first[fromQueue], ![fromQueue] = NoEntry]
          /\ UNCHANGED _ref
     ELSE _ref' = [_ref EXCEPT ![last[toQueue]] = first[fromQueue]]
          /\ first' = [first EXCEPT ![fromQueue] = NoEntry]
  /\ last' = [last EXCEPT ![toQueue] = last[fromQueue], ![fromQueue] = NoEntry]
  /\ count' = [count EXCEPT ![toQueue] = @ + count[fromQueue], ![fromQueue] = 0]

\* cutEntry with the entry's predecessor, which the caller's walk remembers.
cutEntry(q, i) ==
  \/ i = 1 /\ popFront(q)
  \/ /\ i > 1
     /\ LET entry == Walk(q)[i]
            prevEntry == Walk(q)[i - 1] IN
        /\ _ref' = [_ref EXCEPT ![prevEntry] = _ref[entry]]
        /\ last' = [last EXCEPT ![q] = IF _ref[entry] = NoEntry THEN prevEntry ELSE @]
     /\ count' = [count EXCEPT ![q] = @ - 1]
     /\ UNCHANGED first

\* IOEventWorker::consumeBacklog and clear(): the ends are reset.
drop(q) ==
  /\ first' = [first EXCEPT ![q] = NoEntry] /\ last' = [last EXCEPT ![q] = NoEntry]
  /\ count' = [count EXCEPT ![q] = 0]
  /\ UNCHANGED _ref

QueueNext ==
  \E q \in Queues :
    \/ \E e \in Entries : pushFront(q, e) \/ pushBack(q, e)
    \/ round(q) \/ popFront(q) \/ drop(q)
    \/ \E i \in 1 .. count[q] : cutEntry(q, i)
    \/ \E p \in Queues : moveAll(p, q)

QueueSpec == QueueInit /\ [][QueueNext]_queueVars

-----------------------------------------------------------------------------
\* The linked lists implement queues: entries keep their order, stale _refs of entries that
\* were popped, cut or dropped never show, and last and count agree with the walk.
QueueContents == [q \in Queues |-> Walk(q)]

Abstract == INSTANCE EntryQueues WITH contents <- QueueContents

EndsAgree ==
  \A q \in Queues :
    /\ (count[q] = 0) <=> (first[q] = NoEntry)
    /\ last[q] = IF count[q] = 0 THEN NoEntry ELSE Walk(q)[count[q]]
    /\ count[q] > 0 => _ref[last[q]] = NoEntry

\* Both: the ends and counts are those of the walk, and every operation does to the walk
\* what its name says (oatpp/async/utils/FastQueue.hpp).
ListsAreQueues ==
  /\ Abstract!Init /\ EndsAgree
  /\ [][queueVars' # queueVars => EndsAgree' /\ [Abstract!Next]_QueueContents]_queueVars
=============================================================================
