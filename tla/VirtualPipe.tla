------------------------------ MODULE VirtualPipe ------------------------------
(***************************************************************************)
(* oatpp::network::virtual_::Pipe with the loops that move a given number  *)
(* of bytes through it (data::stream::WriteCallback and ReadCallback).     *)
(* Each side is either a thread, which blocks on the side's condition      *)
(* variable, or a coroutine, which sleeps on the side's wait list; anybody *)
(* may close the pipe, as often as they like.                              *)
(*                                                                         *)
(* m_mutex guards m_fifo and m_open, so what happens under it is one       *)
(* action; the two notifications that follow are made without it.  m_fifo  *)
(* is the bounded queue that HandoverProofs shows it to be.                *)
(***************************************************************************)
EXTENDS Integers, Sequences

CONSTANTS
  Capacity,  \* m_fifo's size
  Total,     \* bound: bytes the writer is asked to transfer
  Wanted,    \* bound: bytes the reader asks for, at most Total
  MaxRead,   \* m_maxAvailableToRead, or Wanted for -1
  MaxWrite,  \* m_maxAvailableToWrtie, or Total for -1
  Closers    \* callers of close()

ASSUME SizesAssumption ==
  /\ Capacity \in Nat \ {0} /\ Total \in Nat \ {0}
  /\ Wanted \in 1 .. Total
  /\ MaxRead \in Nat \ {0} /\ MaxWrite \in Nat \ {0}

\* A byte is its number in the stream the writer passes on.
Bytes == 1 .. Total

Sides == {"reader", "writer"}
Opposite(s) == CHOOSE t \in Sides : t # s

VARIABLES
  fifo,      \* m_fifo: the bytes in it
  open,      \* m_open
  mode,      \* m_ioMode of each side
  pc,        \* what each side does next
  listener,  \* sides whose onNewItem call is due
  sent,      \* bytes the writing loop has passed on
  received,  \* bytes the reading loop has got, in order
  closer     \* what each caller of close() does next

vars == <<fifo, open, mode, pc, listener, sent, received, closer>>

Ended == {"done", "broken"}

TypeOK ==
  /\ fifo \in Seq(Bytes) /\ Len(fifo) <= Capacity
  /\ open \in BOOLEAN
  /\ mode \in [Sides -> {"BLOCKING", "ASYNCHRONOUS"}]
  /\ pc \in [Sides -> {"call", "blocked", "add", "listed", "notify",
                       "notifyList"} \cup Ended]
  /\ listener \subseteq Sides
  /\ sent \in 0 .. Total
  /\ received \in Seq(Bytes) /\ Len(received) <= Wanted
  /\ closer \in [Closers -> 0 .. 4]

Init ==
  /\ fifo = <<>> /\ open = TRUE
  /\ mode \in [Sides -> {"BLOCKING", "ASYNCHRONOUS"}]
  /\ pc = [s \in Sides |-> "call"]
  /\ listener = {}
  /\ sent = 0 /\ received = <<>>
  /\ closer = [c \in Closers |-> 0]

Goto(s, from, to) == pc[s] = from /\ pc' = [pc EXCEPT ![s] = to]
Smaller(a, b) == IF a < b THEN a ELSE b

AvailableToWrite == Capacity - Len(fifo)
Available(s) == IF s = "reader" THEN fifo # <<>> ELSE AvailableToWrite > 0

data == <<fifo, sent, received>>

-----------------------------------------------------------------------------
(* Reading and writing *)

\* Nothing can be moved yet: block, or return the wait-list action.
Wait(s) ==
  /\ open /\ ~ Available(s)
  /\ Goto(s, "call", IF mode[s] = "BLOCKING" THEN "blocked" ELSE "add")
  /\ UNCHANGED <<data, open, mode, listener, closer>>

\* IOError::BROKEN_PIPE ends the loop.
Break(s) ==
  /\ Goto(s, "call", "broken")
  /\ UNCHANGED <<data, open, mode, listener, closer>>

Read ==
  LET n == Smaller(Smaller(MaxRead, Wanted - Len(received)), Len(fifo)) IN
  /\ fifo # <<>>
  /\ Goto("reader", "call", "notify")
  /\ received' = received \o SubSeq(fifo, 1, n)
  /\ fifo' = SubSeq(fifo, n + 1, Len(fifo))
  /\ UNCHANGED <<sent, open, mode, listener, closer>>

\* A closed pipe can be read to its end.
ReaderCall ==
  /\ "reader" \notin listener
  /\ \/ Read
     \/ Wait("reader")
     \/ ~ open /\ fifo = <<>> /\ Break("reader")

\* What m_fifo takes of the bytes that are left.
Writable == Smaller(Smaller(MaxWrite, Total - sent), AvailableToWrite)

\* n bytes enter the pipe, the loop advances by done bytes.
Put(n, done) ==
  /\ AvailableToWrite > 0
  /\ Goto("writer", "call", "notify")
  /\ fifo' = fifo \o [i \in 1 .. n |-> sent + i]
  /\ sent' = sent + done
  /\ UNCHANGED <<received, open, mode, listener, closer>>

\* Mutant: the loop skips what was offered, not what was taken.
MutWriteOffered == open /\ Put(Writable, Smaller(MaxWrite, Total - sent))

Write == open /\ Put(Writable, Writable)

WriterCall ==
  /\ "writer" \notin listener
  /\ \/ Write
     \/ Wait("writer")
     \/ ~ open /\ Break("writer")

-----------------------------------------------------------------------------
(* Waking *)

\* A thread that is notified evaluates its predicate again, a coroutine runs
\* act() again.
Woken(s, where) == [pc EXCEPT ![s] = IF @ = where THEN "call" ELSE @]

\* The processor inserts the coroutine and calls onNewItem; until it returns
\* the coroutine does not run.
AddToList(s) ==
  /\ Goto(s, "add", "listed")
  /\ listener' = listener \cup {s}
  /\ UNCHANGED <<data, open, mode, closer>>

\* Mutant: the listener does not ask whether the pipe is closed.
MutOnNewItem(s) ==
  /\ s \in listener
  /\ listener' = listener \ {s}
  /\ pc' = IF Available(s) THEN Woken(s, "listed") ELSE pc
  /\ UNCHANGED <<data, open, mode, closer>>

OnNewItem(s) ==
  /\ s \in listener
  /\ listener' = listener \ {s}
  /\ pc' = IF Available(s) \/ ~ open THEN Woken(s, "listed") ELSE pc
  /\ UNCHANGED <<data, open, mode, closer>>

NotifyCondition(s) ==
  /\ pc[s] = "notify"
  /\ pc' = [Woken(Opposite(s), "blocked") EXCEPT ![s] = "notifyList"]
  /\ UNCHANGED <<data, open, mode, listener, closer>>

BytesLeft(s) == IF s = "reader" THEN Wanted - Len(received) ELSE Total - sent

\* The call returns; the loop goes on while there are bytes left.
NotifyWaitList(s) ==
  /\ pc[s] = "notifyList"
  /\ pc' = [Woken(Opposite(s), "listed") EXCEPT
               ![s] = IF BytesLeft(s) = 0 THEN "done" ELSE "call"]
  /\ UNCHANGED <<data, open, mode, listener, closer>>

-----------------------------------------------------------------------------
(* Closing *)

Close(c) ==
  /\ closer[c] = 0
  /\ open' = FALSE
  /\ closer' = [closer EXCEPT ![c] = 1]
  /\ UNCHANGED <<data, mode, pc, listener>>

\* Whom close() notifies after its n-th step, and where they wait.
CloseNotifies == <<<<"reader", "blocked">>, <<"reader", "listed">>,
                   <<"writer", "blocked">>, <<"writer", "listed">>>>

\* Mutant: only the reader is told.
MutCloseNotify(c) ==
  /\ closer[c] > 0
  /\ pc' = IF closer[c] < 3 THEN Woken("reader", CloseNotifies[closer[c]][2])
                            ELSE pc
  /\ closer' = [closer EXCEPT ![c] = (@ + 1) % 5]
  /\ UNCHANGED <<data, open, mode, listener>>

CloseNotify(c) ==
  /\ closer[c] > 0
  /\ pc' = Woken(CloseNotifies[closer[c]][1], CloseNotifies[closer[c]][2])
  /\ closer' = [closer EXCEPT ![c] = (@ + 1) % 5]
  /\ UNCHANGED <<data, open, mode, listener>>

-----------------------------------------------------------------------------
SideStep(s) ==
  \/ s = "reader" /\ ReaderCall
  \/ s = "writer" /\ WriterCall
  \/ AddToList(s) \/ OnNewItem(s) \/ NotifyCondition(s) \/ NotifyWaitList(s)

Next ==
  \/ \E s \in Sides : SideStep(s)
  \/ \E c \in Closers : Close(c) \/ CloseNotify(c)

Spec == Init /\ [][Next]_vars

\* Threads and processors run; nobody has to close the pipe, but a call of
\* close() is carried through.
Fairness ==
  /\ \A s \in Sides : WF_vars(SideStep(s))
  /\ \A c \in Closers : WF_vars(CloseNotify(c))

FairSpec == Spec /\ Fairness

-----------------------------------------------------------------------------
(* Properties *)

\* What has been read, followed by what is in the pipe, is what has been
\* written: no byte is lost, repeated or overtaken, however the calls cut the
\* stream into pieces (Pipe.cpp:43-84 and 114-157, Stream.cpp:55 and 148).
InOrder == received \o fifo = [i \in 1 .. sent |-> i]

\* Some call is going to notify the thread that waits for s ...
ConditionDue(s) ==
  \/ pc[Opposite(s)] = "notify"
  \/ \E c \in Closers : closer[c] \in 1 .. IF s = "reader" THEN 1 ELSE 3

\* ... or the coroutine on the wait list of s.
WaitListDue(s) ==
  \/ s \in listener
  \/ pc[Opposite(s)] \in {"notify", "notifyList"}
  \/ \E c \in Closers : closer[c] \in 1 .. IF s = "reader" THEN 2 ELSE 4

\* A side waits only while it has nothing to do, or somebody is on the way to
\* wake it: the notifications made without m_mutex, and the insertion in the
\* wait list that follows the look at the pipe, leave no gap (Pipe.cpp:78,
\* 151 and 194, Pipe.hpp:68 and 162).
NoLostWakeup ==
  \A s \in Sides : (Available(s) \/ ~ open) =>
    /\ pc[s] = "blocked" => ConditionDue(s)
    /\ pc[s] = "listed" => WaitListDue(s)

\* The reader is told BROKEN_PIPE only when the pipe is closed and every byte
\* that was written has been read (Pipe.cpp:58-65 and 71-75).
DrainedBeforeBroken ==
  /\ pc["reader"] = "broken" => ~ open /\ Len(received) = sent
  /\ pc["writer"] = "broken" => ~ open

\* What the pipe promises to its two sides.
PipeIsSound == InOrder /\ DrainedBeforeBroken /\ NoLostWakeup

\* Nothing enters a closed pipe, not even from a writer that was blocked
\* when it was closed (Pipe.cpp:141-145).
ClosedStaysClosed == [][~ open => ~ open' /\ sent' = sent]_vars

\* The reader gets what it asked for or finds the pipe closed, and closing the
\* pipe ends both loops; a writer whose reader wants no more waits until then.
TransfersEnd ==
  /\ <>(pc["reader"] \in Ended)
  /\ ~ open ~> \A s \in Sides : pc[s] \in Ended
=============================================================================
