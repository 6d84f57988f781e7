----------------------------- MODULE NetworkProofs -----------------------------
(***************************************************************************)
(* Proofs about what connections are made of: VirtualPipe, for a pipe of   *)
(* any size, transfers of any length, any limits on what a call moves and  *)
(* any callers of close(); ConnectionMonitor, for any number of            *)
(* connections and metrics; TcpConnections, for any table of descriptors,  *)
(* any calls and any number of addresses; and about what messages are made *)
(* in: MemoryStreams, for memory and calls of any sizes that numbers hold, *)
(* LazyStringMap, for any texts and any number of puts, and                *)
(* ContentMappers, for any mappers and headers.                            *)
(***************************************************************************)
EXTENDS VirtualPipe, ConnectionMonitor, TcpConnections, MemoryStreams,
        LazyStringMap, ContentMappers, SequenceTheorems, FiniteSetTheorems,
        FunctionTheorems, TLAPS

\* A side that found the pipe broken: closed for good, and drained if it was
\* the reader.
BrokenIsClosed ==
  /\ pc["reader"] = "broken" => ~ open /\ fifo = <<>>
  /\ pc["writer"] = "broken" => ~ open

Inv == TypeOK /\ InOrder /\ BrokenIsClosed /\ NoLostWakeup

-----------------------------------------------------------------------------
(* Sides and sequences *)

\* There are two sides.
LEMMA OppositeSide ==
  /\ Opposite("reader") = "writer" /\ Opposite("writer") = "reader"
  /\ \A s \in Sides : Opposite(s) \in Sides /\ Opposite(s) # s
BY DEF Opposite, Sides

\* Concatenation is associative.
LEMMA Associative ==
  \A a, b, c \in Seq(Bytes) : (a \o b) \o c = a \o (b \o c)
OBVIOUS

\* Concatenation of two sequences, element by element.
LEMMA Concatenated ==
  \A a, b \in Seq(Bytes) :
    /\ a \o b \in Seq(Bytes) /\ Len(a \o b) = Len(a) + Len(b)
    /\ \A i \in 1 .. Len(a) + Len(b) :
         (a \o b)[i] = IF i <= Len(a) THEN a[i] ELSE b[i - Len(a)]
OBVIOUS

\* Moving the first n elements of one sequence to the end of another keeps
\* their concatenation.
LEMMA MovePrefix ==
  ASSUME NEW a \in Seq(Bytes), NEW b \in Seq(Bytes), NEW n \in 0 .. Len(b)
  PROVE  /\ a \o SubSeq(b, 1, n) \in Seq(Bytes)
         /\ Len(a \o SubSeq(b, 1, n)) = Len(a) + n
         /\ SubSeq(b, n + 1, Len(b)) \in Seq(Bytes)
         /\ Len(SubSeq(b, n + 1, Len(b))) = Len(b) - n
         /\ (a \o SubSeq(b, 1, n)) \o SubSeq(b, n + 1, Len(b)) = a \o b
<1> DEFINE p == SubSeq(b, 1, n)
           q == SubSeq(b, n + 1, Len(b))
<1>1. /\ p \in Seq(Bytes) /\ Len(p) = n
      /\ q \in Seq(Bytes) /\ Len(q) = Len(b) - n
  OBVIOUS
<1>2. p \o q = b
  <2>1. 1 \in 1 .. Len(b) + 1 /\ n \in 1 - 1 .. Len(b) /\ Len(b) \in n .. Len(b)
    OBVIOUS
  <2>2. \A i \in 1 .. Len(b) + 1 : \A k \in i - 1 .. Len(b) : \A j \in k .. Len(b) :
          SubSeq(b, i, k) \o SubSeq(b, k + 1, j) = SubSeq(b, i, j)
    BY ConcatAdjacentSubSeq, Zenon
  <2>3. SubSeq(b, 1, Len(b)) = b
    BY SubSeqFull, Zenon
  <2> QED BY <2>1, <2>2, <2>3, Zenon
<1> HIDE DEF p, q
<1>3. (a \o p) \o q = a \o (p \o q)
  BY <1>1, Associative
<1>4. a \o p \in Seq(Bytes) /\ Len(a \o p) = Len(a) + Len(p)
  BY <1>1, Concatenated
<1> QED BY <1>1, <1>2, <1>3, <1>4 DEF p, q

\* The first k bytes of the stream.
FirstBytes(k) == [i \in 1 .. k |-> i]

\* Appending the next n bytes to a queue keeps the stream in order.
LEMMA AppendNext ==
  ASSUME received \in Seq(Bytes), fifo \in Seq(Bytes), sent \in Nat,
         NEW c \in Seq(Bytes), NEW n \in Nat, sent + n <= Total,
         Len(c) = n, \A i \in 1 .. n : c[i] = sent + i,
         received \o fifo = FirstBytes(sent)
  PROVE  received \o (fifo \o c) = FirstBytes(sent + n)
<1>1. received \o (fifo \o c) = (received \o fifo) \o c
  BY ONLY received \in Seq(Bytes), fifo \in Seq(Bytes), c \in Seq(Bytes), Associative
<1>2. received \o fifo \in Seq(Bytes)
  BY ONLY received \in Seq(Bytes), fifo \in Seq(Bytes), Concatenated
<1> DEFINE d == received \o fifo
           e == FirstBytes(sent + n)
<1>3. d \in Seq(Bytes) /\ Len(d) = sent /\ \A i \in 1 .. sent : d[i] = i
  BY <1>2 DEF FirstBytes
<1>4. e \in Seq(Bytes) /\ Len(e) = sent + n /\ \A i \in 1 .. sent + n : e[i] = i
  <2>1. sent + n \in Nat
    OBVIOUS
  <2>2. e \in [1 .. sent + n -> Bytes] /\ \A i \in 1 .. sent + n : e[i] = i
    BY SizesAssumption DEF FirstBytes, Bytes
  <2> QED BY <2>1, <2>2, SeqDef
<1> HIDE DEF d, e
<1>5. /\ d \o c \in Seq(Bytes) /\ Len(d \o c) = Len(d) + Len(c)
      /\ \A i \in 1 .. Len(d) + Len(c) :
           (d \o c)[i] = IF i <= Len(d) THEN d[i] ELSE c[i - Len(d)]
  <2>1. d \in Seq(Bytes)
    BY <1>3
  <2> QED BY ONLY <2>1, c \in Seq(Bytes), Concatenated
<1>6. ASSUME NEW i \in 1 .. sent + n PROVE (d \o c)[i] = e[i]
  <2>1. (d \o c)[i] = IF i <= sent THEN d[i] ELSE c[i - sent]
    BY <1>3, <1>5
  <2>2. CASE i <= sent
    BY <1>3, <1>4, <2>1, <2>2
  <2>3. CASE ~ (i <= sent)
    <3>1. i - sent \in 1 .. n /\ sent + (i - sent) = i
      BY <2>3
    <3> QED BY <1>4, <2>1, <2>3, <3>1
  <2> QED BY <2>2, <2>3
<1>7. Len(d \o c) = Len(e) /\ \A i \in 1 .. Len(d \o c) : (d \o c)[i] = e[i]
  BY <1>3, <1>4, <1>5, <1>6
<1>8. d \o c = e
  BY <1>4, <1>5, <1>7, SeqEqual, Zenon
<1> QED BY <1>1, <1>8 DEF d, e

-----------------------------------------------------------------------------
(* Bytes *)

\* What a call may read, or write, is a part of what there is, and what is left.
LEMMA ReadSizes ==
  ASSUME TypeOK, fifo # <<>>
  PROVE  Smaller(Smaller(MaxRead, Wanted - Len(received)), Len(fifo)) \in 0 .. Len(fifo)
BY SizesAssumption DEF TypeOK, Smaller

\* What a write takes fits.
LEMMA WriteSizes ==
  ASSUME TypeOK, AvailableToWrite > 0
  PROVE  /\ Writable \in Nat /\ sent + Writable <= Total
         /\ Len(fifo) + Writable <= Capacity
BY SizesAssumption DEF TypeOK, Smaller, Writable, AvailableToWrite

\* A read keeps the stream in order.
LEMMA ReadKeepsOrder ==
  ASSUME TypeOK, InOrder, Read
  PROVE  /\ InOrder'
         /\ fifo' \in Seq(Bytes) /\ Len(fifo') <= Capacity
         /\ received' \in Seq(Bytes) /\ Len(received') <= Wanted
<1> DEFINE n == Smaller(Smaller(MaxRead, Wanted - Len(received)), Len(fifo))
<1>1. n \in 0 .. Len(fifo) /\ n <= Wanted - Len(received)
  BY ReadSizes, SizesAssumption DEF Read, TypeOK, Smaller
<1>2. /\ received' = received \o SubSeq(fifo, 1, n)
      /\ fifo' = SubSeq(fifo, n + 1, Len(fifo))
      /\ sent' = sent
  BY DEF Read
<1> HIDE DEF n
<1>3. /\ received \in Seq(Bytes) /\ fifo \in Seq(Bytes)
      /\ Len(fifo) <= Capacity
  BY DEF TypeOK
<1>4. /\ received \o SubSeq(fifo, 1, n) \in Seq(Bytes)
      /\ Len(received \o SubSeq(fifo, 1, n)) = Len(received) + n
      /\ SubSeq(fifo, n + 1, Len(fifo)) \in Seq(Bytes)
      /\ Len(SubSeq(fifo, n + 1, Len(fifo))) = Len(fifo) - n
      /\ (received \o SubSeq(fifo, 1, n)) \o SubSeq(fifo, n + 1, Len(fifo))
           = received \o fifo
  BY <1>1, <1>3, MovePrefix, Zenon
<1>5. /\ received' \in Seq(Bytes) /\ fifo' \in Seq(Bytes)
      /\ Len(fifo') = Len(fifo) - n
      /\ Len(received') = Len(received) + n
      /\ received' \o fifo' = received \o fifo
  BY <1>2, <1>4, Zenon
<1>6. Len(fifo') <= Capacity /\ Len(received') <= Wanted
  BY <1>1, <1>3, <1>5, SizesAssumption
<1> QED BY <1>2, <1>5, <1>6 DEF InOrder

\* So does a write.
LEMMA WriteKeepsOrder ==
  ASSUME TypeOK, InOrder, Write
  PROVE  /\ InOrder'
         /\ fifo' \in Seq(Bytes) /\ Len(fifo') <= Capacity
         /\ sent' \in 0 .. Total
<1> DEFINE n == Writable
           c == [i \in 1 .. n |-> sent + i]
<1>1. n \in Nat /\ sent + n <= Total /\ Len(fifo) + n <= Capacity
  BY WriteSizes DEF Write, Put
<1>2. fifo' = fifo \o c /\ sent' = sent + n /\ received' = received
  BY DEF Write, Put
<1>3. /\ received \in Seq(Bytes) /\ fifo \in Seq(Bytes)
      /\ sent \in Nat /\ Total \in Nat
  BY SizesAssumption DEF TypeOK
<1> HIDE DEF n
<1>4. c \in Seq(Bytes) /\ Len(c) = n /\ \A i \in 1 .. n : c[i] = sent + i
  <2>1. c \in [1 .. n -> Bytes]
    BY <1>1, <1>3 DEF Bytes
  <2> QED BY <1>1, <2>1, SeqDef
<1> HIDE DEF c
<1>5. received \o (fifo \o c) = FirstBytes(sent + n)
  <2>1. received \o fifo = FirstBytes(sent)
    BY DEF InOrder, FirstBytes
  <2> QED BY <1>1, <1>3, <1>4, <2>1, AppendNext, Zenon
<1>6. InOrder'
  BY <1>2, <1>5 DEF InOrder, FirstBytes
<1>7. fifo' \in Seq(Bytes) /\ Len(fifo') = Len(fifo) + n
  BY <1>2, <1>3, <1>4, Concatenated
<1> QED BY <1>1, <1>2, <1>3, <1>6, <1>7

-----------------------------------------------------------------------------
(* The invariant is inductive *)

\* It holds when the pipe is made.
LEMMA InitInv == Init => Inv
<1> SUFFICES ASSUME Init PROVE Inv
  OBVIOUS
<1>1. TypeOK
  BY SizesAssumption DEF Init, TypeOK, Sides
<1>2. InOrder
  BY DEF Init, InOrder
<1>3. BrokenIsClosed /\ NoLostWakeup
  BY DEF Init, BrokenIsClosed, NoLostWakeup, Sides
<1> QED BY <1>1, <1>2, <1>3 DEF Inv

\* Steps that move no byte keep the stream as it is.
LEMMA DataKept ==
  ASSUME InOrder, UNCHANGED data
  PROVE  InOrder'
BY DEF data, InOrder

\* A side begins to wait while the pipe is open and it has nothing to do.
LEMMA WaitStep ==
  ASSUME Inv, NEW s \in Sides, Wait(s)
  PROVE  Inv'
<1> USE OppositeSide DEF Inv, Wait, Goto, data, Sides
<1>1. TypeOK'
  BY DEF TypeOK
<1>2. InOrder'
  BY DataKept
<1>3. BrokenIsClosed'
  BY DEF BrokenIsClosed, TypeOK
<1>4. NoLostWakeup'
  BY DEF NoLostWakeup, TypeOK, Available, AvailableToWrite, ConditionDue,
         WaitListDue
<1> QED BY <1>1, <1>2, <1>3, <1>4

\* A side that finds the pipe broken stops; nobody counts on it.
LEMMA BreakStep ==
  ASSUME Inv, NEW s \in Sides, Break(s), ~ open, s = "reader" => fifo = <<>>
  PROVE  Inv'
<1> USE OppositeSide DEF Inv, Break, Goto, data, Sides
<1>1. TypeOK'
  BY DEF TypeOK, Ended
<1>2. InOrder'
  BY DataKept
<1>3. BrokenIsClosed'
  BY DEF BrokenIsClosed, TypeOK
<1>4. NoLostWakeup'
  BY DEF NoLostWakeup, TypeOK, Available, AvailableToWrite, ConditionDue,
         WaitListDue
<1> QED BY <1>1, <1>2, <1>3, <1>4

\* A read makes room and is about to say so.
LEMMA ReadStep ==
  ASSUME Inv, Read
  PROVE  Inv'
<1> USE OppositeSide DEF Inv, Goto, Sides
<1>0. /\ InOrder'
      /\ fifo' \in Seq(Bytes) /\ Len(fifo') <= Capacity
      /\ received' \in Seq(Bytes) /\ Len(received') <= Wanted
  BY ReadKeepsOrder
<1>a. /\ pc["reader"] = "call" /\ pc' = [pc EXCEPT !["reader"] = "notify"]
      /\ UNCHANGED <<sent, open, mode, listener, closer>>
  BY DEF Read
<1>1. TypeOK'
  BY <1>0, <1>a DEF TypeOK
<1>2. BrokenIsClosed'
  BY <1>a DEF BrokenIsClosed, TypeOK
<1>3. NoLostWakeup'
  BY <1>a DEF NoLostWakeup, TypeOK, Available, ConditionDue, WaitListDue
<1> QED BY <1>0, <1>1, <1>2, <1>3

\* A write fills the pipe and is about to say so.
LEMMA WriteStep ==
  ASSUME Inv, Write
  PROVE  Inv'
<1> USE OppositeSide DEF Inv, Goto, Sides
<1>0. /\ InOrder'
      /\ fifo' \in Seq(Bytes) /\ Len(fifo') <= Capacity
      /\ sent' \in 0 .. Total
  BY WriteKeepsOrder
<1>a. /\ open /\ pc["writer"] = "call" /\ pc' = [pc EXCEPT !["writer"] = "notify"]
      /\ UNCHANGED <<received, open, mode, listener, closer>>
  BY DEF Write, Put
<1>1. TypeOK'
  BY <1>0, <1>a DEF TypeOK
<1>2. BrokenIsClosed'
  BY <1>a DEF BrokenIsClosed, TypeOK
<1>3. NoLostWakeup'
  BY <1>a DEF NoLostWakeup, TypeOK, Available, AvailableToWrite, ConditionDue,
              WaitListDue
<1> QED BY <1>0, <1>1, <1>2, <1>3

\* An inserted coroutine has its listener call ahead.
LEMMA AddStep ==
  ASSUME Inv, NEW s \in Sides, AddToList(s)
  PROVE  Inv'
<1> USE OppositeSide DEF Inv, AddToList, Goto, data, Sides
<1>1. TypeOK'
  BY DEF TypeOK
<1>2. InOrder'
  BY DataKept
<1>3. BrokenIsClosed'
  BY DEF BrokenIsClosed, TypeOK
<1>4. NoLostWakeup'
  BY DEF NoLostWakeup, TypeOK, Available, AvailableToWrite, ConditionDue,
         WaitListDue
<1> QED BY <1>1, <1>2, <1>3, <1>4

\* The listener looks at the pipe after the insertion.
LEMMA OnNewItemStep ==
  ASSUME Inv, NEW s \in Sides, OnNewItem(s)
  PROVE  Inv'
<1> USE OppositeSide DEF Inv, OnNewItem, Woken, data, Sides
<1>1. TypeOK'
  BY DEF TypeOK
<1>2. InOrder'
  BY DataKept
<1>3. BrokenIsClosed'
  BY DEF BrokenIsClosed, TypeOK
<1>4. NoLostWakeup'
  BY DEF NoLostWakeup, TypeOK, Available, AvailableToWrite, ConditionDue,
         WaitListDue
<1> QED BY <1>1, <1>2, <1>3, <1>4

\* Between the two notifications the list is still to be notified.
LEMMA NotifyConditionStep ==
  ASSUME Inv, NEW s \in Sides, NotifyCondition(s)
  PROVE  Inv'
<1> USE OppositeSide DEF Inv, NotifyCondition, Woken, data, Sides
<1>1. TypeOK'
  BY DEF TypeOK
<1>2. InOrder'
  BY DataKept
<1>3. BrokenIsClosed'
  BY DEF BrokenIsClosed, TypeOK
<1>4. NoLostWakeup'
  BY DEF NoLostWakeup, TypeOK, Available, AvailableToWrite, ConditionDue,
         WaitListDue
<1> QED BY <1>1, <1>2, <1>3, <1>4

\* After both nobody waits any more.
LEMMA NotifyWaitListStep ==
  ASSUME Inv, NEW s \in Sides, NotifyWaitList(s)
  PROVE  Inv'
<1> USE OppositeSide DEF Inv, NotifyWaitList, Woken, data, Sides
<1>1. TypeOK'
  BY DEF TypeOK, Ended
<1>2. InOrder'
  BY DataKept
<1>3. BrokenIsClosed'
  BY DEF BrokenIsClosed, TypeOK
<1>4. NoLostWakeup'
  BY DEF NoLostWakeup, TypeOK, Available, AvailableToWrite, ConditionDue,
         WaitListDue
<1> QED BY <1>1, <1>2, <1>3, <1>4

\* close() has its four notifications ahead.
LEMMA CloseStep ==
  ASSUME Inv, NEW c \in Closers, Close(c)
  PROVE  Inv'
<1> USE OppositeSide DEF Inv, Close, data, Sides
<1>1. TypeOK'
  <2>1. closer' \in [Closers -> 0 .. 4]
    BY DEF TypeOK
  <2>2. open' \in BOOLEAN
    BY Zenon
  <2> QED BY <2>1, <2>2 DEF TypeOK
<1>2. InOrder'
  BY DataKept
<1>3. BrokenIsClosed'
  BY DEF BrokenIsClosed, TypeOK
<1>4. NoLostWakeup'
  <2>1. closer'[c] = 1
    BY DEF TypeOK
  <2> QED BY <2>1 DEF NoLostWakeup, ConditionDue, WaitListDue
<1> QED BY <1>1, <1>2, <1>3, <1>4

\* Each of them wakes those it is for.
LEMMA CloseNotifyStep ==
  ASSUME Inv, NEW c \in Closers, CloseNotify(c)
  PROVE  Inv'
<1> USE OppositeSide DEF Inv, data, Sides
<1>1. closer[c] \in {1, 2, 3, 4}
  BY DEF CloseNotify, TypeOK
<1>2. closer' = [closer EXCEPT ![c] = IF closer[c] = 4 THEN 0 ELSE closer[c] + 1]
  <2>1. (closer[c] + 1) % 5 = IF closer[c] = 4 THEN 0 ELSE closer[c] + 1
    BY <1>1
  <2> QED BY <2>1 DEF CloseNotify
<1>3. /\ closer[c] = 1 => pc' = Woken("reader", "blocked")
      /\ closer[c] = 2 => pc' = Woken("reader", "listed")
      /\ closer[c] = 3 => pc' = Woken("writer", "blocked")
      /\ closer[c] = 4 => pc' = Woken("writer", "listed")
  BY DEF CloseNotify, CloseNotifies
<1>4. UNCHANGED <<data, open, mode, listener>>
  BY DEF CloseNotify
<1>5. TypeOK'
  <2>1. closer' \in [Closers -> 0 .. 4]
    BY <1>1, <1>2 DEF TypeOK
  <2>2. pc' \in [Sides -> {"call", "blocked", "add", "listed", "notify",
                           "notifyList"} \cup Ended]
    BY <1>1, <1>3 DEF TypeOK, Woken
  <2> QED BY <1>4, <2>1, <2>2 DEF TypeOK
<1>6. InOrder'
  BY <1>4, DataKept
<1>7. BrokenIsClosed'
  BY <1>1, <1>3, <1>4 DEF BrokenIsClosed, TypeOK, Woken
<1>8. NoLostWakeup'
  <2> USE DEF NoLostWakeup, TypeOK, Available, AvailableToWrite, ConditionDue,
              WaitListDue, Woken
  <2>a. \A d \in Closers : d # c => closer'[d] = closer[d]
    BY <1>2
  <2>1. CASE closer[c] = 1
    <3>1. closer'[c] = 2
      BY <1>2, <2>1
    <3> QED BY <1>3, <1>4, <2>a, <2>1, <3>1
  <2>2. CASE closer[c] = 2
    <3>1. closer'[c] = 3
      BY <1>2, <2>2
    <3> QED BY <1>3, <1>4, <2>a, <2>2, <3>1
  <2>3. CASE closer[c] = 3
    <3>1. closer'[c] = 4
      BY <1>2, <2>3
    <3>2. /\ pc'["reader"] = pc["reader"] /\ pc'["writer"] # "blocked"
          /\ pc'["writer"] = "listed" => pc["writer"] = "listed"
          /\ \A s \in Sides : pc[s] \in {"notify", "notifyList"} => pc'[s] = pc[s]
      BY <1>3, <2>3
    <3>3. \A s \in Sides : (Available(s) \/ ~ open)' <=> (Available(s) \/ ~ open)
      BY <1>4
    <3>4. ConditionDue("reader") => ConditionDue("reader")'
      BY <1>4, <2>a, <2>3, <3>2
    <3>5. WaitListDue("reader") => WaitListDue("reader")'
      BY <1>4, <2>a, <2>3, <3>2
    <3>6. WaitListDue("writer")'
      BY <3>1
    <3> QED BY <3>2, <3>3, <3>4, <3>5, <3>6
  <2>4. CASE closer[c] = 4
    <3>1. /\ pc'["reader"] = pc["reader"] /\ pc'["writer"] # "listed"
          /\ pc'["writer"] = "blocked" => pc["writer"] = "blocked"
          /\ \A s \in Sides : pc[s] \in {"notify", "notifyList"} => pc'[s] = pc[s]
      BY <1>3, <2>4
    <3>2. \A s \in Sides : (Available(s) \/ ~ open)' <=> (Available(s) \/ ~ open)
      BY <1>4
    <3>3. \A s \in Sides : ConditionDue(s) => ConditionDue(s)'
      BY <1>4, <2>a, <2>4, <3>1
    <3>4. WaitListDue("reader") => WaitListDue("reader")'
      BY <1>4, <2>a, <2>4, <3>1
    <3> QED BY <3>1, <3>2, <3>3, <3>4
  <2> QED BY <1>1, <2>1, <2>2, <2>3, <2>4
<1> QED BY <1>5, <1>6, <1>7, <1>8

\* Every step keeps the invariant.
LEMMA StepInv == Inv /\ [Next]_vars => Inv'
<1> SUFFICES ASSUME Inv, [Next]_vars PROVE Inv'
  OBVIOUS
<1>1. ASSUME NEW s \in Sides, SideStep(s) PROVE Inv'
  <2> USE DEF Sides
  <2>1. CASE s = "reader" /\ ReaderCall
    BY <2>1, ReadStep, WaitStep, BreakStep DEF ReaderCall
  <2>2. CASE s = "writer" /\ WriterCall
    <3>1. CASE Write
      BY <3>1, WriteStep
    <3>2. CASE Wait("writer")
      BY <3>2, WaitStep
    <3>3. CASE ~ open /\ Break("writer")
      <4>1. "writer" \in Sides /\ "writer" # "reader"
        OBVIOUS
      <4> QED BY <3>3, <4>1, BreakStep
    <3> QED BY <2>2, <3>1, <3>2, <3>3 DEF WriterCall
  <2> QED BY <1>1, <2>1, <2>2, AddStep, OnNewItemStep, NotifyConditionStep,
             NotifyWaitListStep DEF SideStep
<1>2. ASSUME NEW c \in Closers, Close(c) \/ CloseNotify(c) PROVE Inv'
  BY <1>2, CloseStep, CloseNotifyStep
<1>3. CASE UNCHANGED vars
  BY <1>3 DEF vars, Inv, TypeOK, InOrder, BrokenIsClosed, NoLostWakeup,
              Available, AvailableToWrite, ConditionDue, WaitListDue
<1> QED BY <1>1, <1>2, <1>3 DEF Next

-----------------------------------------------------------------------------
(* Theorems *)

\* The inductive invariant holds in every reachable state of a pipe.
THEOREM Invariance == Spec => []Inv
<1> QED BY InitInv, StepInv, PTL DEF Spec

\* Sizes, positions and program counters stay in their ranges.
THEOREM TypeCorrect == Spec => []TypeOK
<1>1. Inv => TypeOK
  BY DEF Inv
<1> QED BY <1>1, Invariance, PTL

\* The pipe loses, repeats and reorders no byte (Pipe::Reader::read and
\* Pipe::Writer::write with the loops of Stream.cpp).
THEOREM Order == Spec => []InOrder
<1>1. Inv => InOrder
  BY DEF Inv
<1> QED BY <1>1, Invariance, PTL

\* Whoever waits for the pipe without reason is about to be woken, thread or
\* coroutine, however many calls of close() there are.
THEOREM WakeupsNotLost == Spec => []NoLostWakeup
<1>1. Inv => NoLostWakeup
  BY DEF Inv
<1> QED BY <1>1, Invariance, PTL

\* A reader sees the end of the stream only after its last byte.
THEOREM EndOfStream == Spec => []DrainedBeforeBroken
<1>1. Inv => DrainedBeforeBroken
  <2> SUFFICES ASSUME Inv PROVE DrainedBeforeBroken
    OBVIOUS
  <2>1. fifo = <<>> => Len(received) = sent
    <3> SUFFICES ASSUME fifo = <<>> PROVE Len(received) = sent
      OBVIOUS
    <3>1. received \in Seq(Bytes) /\ sent \in Nat
      BY DEF Inv, TypeOK
    <3>2. received \o fifo = received
      BY <3>1
    <3> QED BY <3>1, <3>2 DEF Inv, InOrder
  <2> QED BY <2>1 DEF Inv, BrokenIsClosed, DrainedBeforeBroken
<1> QED BY <1>1, Invariance, PTL

\* A pipe keeps the order of its bytes, gives the last of them before it says that
\* it is closed, and wakes up whoever waits for what it has (virtual_/Pipe.cpp).
THEOREM PipeKeepsItsPromise == Spec => []PipeIsSound
<1>1. InOrder /\ DrainedBeforeBroken /\ NoLostWakeup => PipeIsSound
  BY DEF PipeIsSound
<1> QED BY <1>1, Order, EndOfStream, WakeupsNotLost, PTL

\* Nothing is written into a closed pipe, and it stays closed.
THEOREM ClosedForGood == Spec => ClosedStaysClosed
<1>1. [Next]_vars => [~ open => ~ open' /\ sent' = sent]_vars
  BY DEF Next, vars, SideStep, ReaderCall, WriterCall, Read, Write, Put, Wait,
         Break, AddToList, OnNewItem, NotifyCondition, NotifyWaitList, Close,
         CloseNotify, data
<1> QED BY <1>1, PTL DEF Spec, ClosedStaysClosed

-----------------------------------------------------------------------------
(* ConnectionMonitor: the monitor's raw addresses, the mutexes of the        *)
(* statistics and the data of the collectors.                                *)

Users == {"none", "constructed", "idle", "stats", "removing", "freeing",
          "destroyed"}

\* The variables that the invariants are about have their types.
MonitorTypes ==
  /\ user \in [Proxies -> Users]
  /\ m_connections \subseteq Proxies /\ todo \subseteq Proxies
  /\ task \in {"loop", "round", "check", "ended"}
  /\ statsMutex \in [Proxies -> {"free", "user", "task"}]
  /\ metricsData \in [Proxies -> SUBSET Metrics]
  /\ m_statCollectors \subseteq Metrics
  /\ monitorValid \subseteq Proxies

\* The addresses left in a round are registered, there are none between two
\* rounds, and what is registered has not passed removeConnection.
AddressesLive ==
  /\ todo \subseteq m_connections
  /\ ConnectionsFree => todo = {}
  /\ \A c \in m_connections : user[c] \in {"idle", "stats", "removing"}

\* The mutex of a proxy's statistics has one holder: the user in between
\* Transfer and Collect, or the monitor at one proxy of its round.
StatsExclusive ==
  \A c \in Proxies :
    /\ statsMutex[c] = "user" <=> user[c] = "stats"
    /\ statsMutex[c] = "task" =>
         /\ task = "check" /\ c \in todo
         /\ \A d \in Proxies : statsMutex[d] = "task" => d = c

\* Every metric with data has a collector, and what is freed has no data.
DataOwned ==
  /\ leaked = {}
  /\ \A c \in Proxies :
       /\ metricsData[c] \subseteq m_statCollectors
       /\ user[c] = "destroyed" => metricsData[c] = {}

MonitorInv == MonitorTypes /\ AddressesLive /\ StatsExclusive /\ DataOwned

-----------------------------------------------------------------------------
(* The invariant holds initially and is preserved by every step. *)

\* A monitor that has no connections satisfies the invariant.
LEMMA MonitorInitInv == MonitorInit => MonitorInv
BY DEF MonitorInit, MonitorInv, MonitorTypes, Users, AddressesLive, ConnectionsFree,
   StatsExclusive, DataOwned

\* The steps of a connection's owner, from get() to the proxy's destructor.
LEMMA UserInv ==
  ASSUME MonitorInv, NEW c \in Proxies,
         \/ Construct(c) \/ UserSteps(c) \/ ReleaseProxy(c)
         \/ \E d \in Directions : Transfer(c, d)
  PROVE  MonitorInv'
<1> USE DEF MonitorInv, MonitorTypes, Users, Moves, ConnectionsFree, setVars, stopVars,
        taskVars, timeVars, dataVars
<1>1. CASE Construct(c)
  BY <1>1 DEF Construct, AddressesLive, StatsExclusive, DataOwned
<1>2. CASE addConnection(c)
  BY <1>2 DEF addConnection, AddressesLive, StatsExclusive, DataOwned
<1>3. CASE \E d \in Directions : Transfer(c, d)
  BY <1>3 DEF Transfer, AddressesLive, StatsExclusive, DataOwned
<1>4. CASE Collect(c)
  BY <1>4 DEF Collect, AddressesLive, StatsExclusive, DataOwned
<1>5. CASE ReleaseProxy(c)
  BY <1>5 DEF ReleaseProxy, AddressesLive, StatsExclusive, DataOwned
<1>6. CASE removeConnection(c)
  BY <1>6 DEF removeConnection, AddressesLive, StatsExclusive, DataOwned
<1>7. CASE freeConnectionStats(c)
  BY <1>7 DEF freeConnectionStats, AddressesLive, StatsExclusive, DataOwned
<1> QED
  BY <1>1, <1>2, <1>3, <1>4, <1>5, <1>6, <1>7 DEF UserSteps

\* The steps of the monitor's thread.
LEMMA TaskInv == ASSUME MonitorInv, TaskSteps PROVE MonitorInv'
<1> USE DEF MonitorInv, MonitorTypes, ConnectionsFree, setVars, stopVars, taskVars,
        timeVars, dataVars
<1>1. CASE BeginRound
  BY <1>1 DEF BeginRound, AddressesLive, StatsExclusive, DataOwned
<1>2. CASE \E c \in Proxies : Visit(c)
  BY <1>2 DEF Visit, AddressesLive, StatsExclusive, DataOwned
<1>3. CASE \E c \in Proxies : CheckConnection(c)
  BY <1>3 DEF CheckConnection, AddressesLive, StatsExclusive, DataOwned
<1>4. CASE EndRound \/ TaskEnds
  BY <1>4 DEF EndRound, TaskEnds, AddressesLive, StatsExclusive, DataOwned
<1> QED
  BY <1>1, <1>2, <1>3, <1>4 DEF TaskSteps

\* Every step preserves the invariant.
LEMMA MonitorStepInv == MonitorInv /\ [MonitorNext]_monitorVars => MonitorInv'
<1> SUFFICES ASSUME MonitorInv, [MonitorNext]_monitorVars PROVE MonitorInv'
  OBVIOUS
<1> USE DEF setVars, stopVars, taskVars, timeVars, dataVars
<1>1. CASE \E c \in Proxies : \/ Construct(c) \/ UserSteps(c) \/ ReleaseProxy(c)
                              \/ \E d \in Directions : Transfer(c, d)
  BY <1>1, UserInv
<1>2. CASE TaskSteps
  BY <1>2, TaskInv
<1>3. CASE \E m \in Metrics : addStatCollector(m)
  BY <1>3 DEF addStatCollector, MonitorInv, MonitorTypes, Users, AddressesLive,
     ConnectionsFree, StatsExclusive, DataOwned
<1>4. CASE invalidateAll
  BY <1>4 DEF invalidateAll, MonitorInv, MonitorTypes, Users, AddressesLive,
     ConnectionsFree, StatsExclusive, DataOwned
<1>5. CASE \/ \E c \in Proxies :
                Ages(c) \/ \E d \in Directions : FallsQuiet(c, d)
           \/ \E k \in Checkers : addMetricsChecker(k)
           \/ stop \/ stopReturns
  BY <1>5 DEF Ages, FallsQuiet, addMetricsChecker, stop, stopReturns, MonitorInv,
     MonitorTypes, Users, AddressesLive, ConnectionsFree, StatsExclusive, DataOwned
<1>6. CASE UNCHANGED monitorVars
  BY <1>6 DEF monitorVars, MonitorInv, MonitorTypes, Users, AddressesLive,
     ConnectionsFree, StatsExclusive, DataOwned
<1> QED
  BY <1>1, <1>2, <1>3, <1>4, <1>5, <1>6 DEF MonitorNext

-----------------------------------------------------------------------------
(* Theorems *)

\* The invariant holds in every state.
LEMMA MonitorInvariance == MonitorSpec => []MonitorInv
<1>1. MonitorInit => MonitorInv
  BY MonitorInitInv
<1>2. MonitorInv /\ [MonitorNext]_monitorVars => MonitorInv'
  BY MonitorStepInv
<1> QED
  BY <1>1, <1>2, PTL DEF MonitorSpec

\* The thread of the monitor, which goes over raw addresses, meets no proxy
\* whose destructor has passed removeConnection, whoever destroys it and
\* whenever.
THEOREM NoDeadProxy == MonitorSpec => []VisitsTheLiving
<1>1. MonitorInv => VisitsTheLiving
  BY DEF MonitorInv, AddressesLive, VisitsTheLiving
<1> QED
  BY <1>1, MonitorInvariance, PTL

\* The user and the monitor are never both inside one proxy's statistics.
THEOREM StatsMutex == MonitorSpec => []StatsExclusive
<1>1. MonitorInv => StatsExclusive
  BY DEF MonitorInv
<1> QED
  BY <1>1, MonitorInvariance, PTL

\* No metric data outlives its connection: collectors are only added, so the
\* one that made a piece of data is there to free it.
THEOREM NoMetricLeaks == MonitorSpec => []MetricsFreed
<1>1. MonitorInv => MetricsFreed
  BY DEF MonitorInv, DataOwned, MetricsFreed
<1> QED
  BY <1>1, MonitorInvariance, PTL

\* Together (ConnectionMonitor.cpp:43-160).
THEOREM ProxiesKept == MonitorSpec => []ProxiesAccountedFor
<1>1. VisitsTheLiving /\ MetricsFreed => ProxiesAccountedFor
  BY DEF ProxiesAccountedFor
<1> QED
  BY <1>1, NoDeadProxy, NoMetricLeaks, PTL

-----------------------------------------------------------------------------
(* TcpConnections: whoever holds a descriptor is the one that will close it.  *)

TcpEntries ==
  [kind : {"free", "listening", "stream"}, nonblocking : BOOLEAN, shut : BOOLEAN,
   state : {"none", "new", "pending", "connected"}]

TcpCalls ==
  [pc : {"idle", "iterate", "connect", "returned", "failed"}, currentResult : Nat,
   clientHandle : Table \cup {NoHandle}, isHandleOpened : BOOLEAN]

TcpTypes ==
  /\ kernel \in [Table -> TcpEntries]
  /\ m_serverHandle \in Table \cup {NoHandle} /\ m_closed \in BOOLEAN
  /\ getter \in {"idle", "check", "select", "accept"}
  /\ tcpStopping \in [TcpStoppers -> {"no", "tested", "closing", "stopped"}]
  /\ backlog \in [waiting : Nat, ever : Nat]
  /\ tcpCall \in [TcpClients -> TcpCalls]
  /\ tcpConnections \subseteq [handle : Table, m_mode : {"BLOCKING", "ASYNCHRONOUS"},
                            of : TcpClients \cup {"server"}]

Stops(s) == tcpStopping[s] \in {"tested", "closing"}
HeldByProvider(h) ==
  h = m_serverHandle /\ (~m_closed \/ \E s \in TcpStoppers : tcpStopping[s] = "closing")
HeldByCall(h, c) ==
  tcpCall[c].isHandleOpened /\ tcpCall[c].clientHandle = h /\ tcpCall[c].pc # "returned"
HeldByConnection(h) == \E k \in tcpConnections : k.handle = h

\* What is open is held, and by nobody else.
HeldOnceOnly ==
  /\ \A h \in Table :
       /\ IsOpen(h) <=> \/ HeldByProvider(h)
                        \/ \E c \in TcpClients : HeldByCall(h, c)
                        \/ HeldByConnection(h)
       /\ HeldByProvider(h) => ~HeldByConnection(h) /\ \A c \in TcpClients : ~HeldByCall(h, c)
       /\ HeldByConnection(h) => \A c \in TcpClients : ~HeldByCall(h, c)
       /\ \A c, d \in TcpClients : HeldByCall(h, c) /\ HeldByCall(h, d) => c = d
  /\ \A k, l \in tcpConnections : k.handle = l.handle => k = l

\* Who connects or closes has a descriptor to do it with.
HandlesKnown ==
  /\ m_serverHandle = NoHandle => ~m_closed /\ \A s \in TcpStoppers : tcpStopping[s] = "no"
  /\ \A s \in TcpStoppers : Stops(s) => (m_closed <=> tcpStopping[s] = "closing")
  /\ \A s, t \in TcpStoppers : Stops(s) /\ Stops(t) => s = t
  /\ \A c \in TcpClients :
       /\ tcpCall[c].isHandleOpened => tcpCall[c].clientHandle \in Table
       /\ tcpCall[c].pc = "connect" => tcpCall[c].isHandleOpened
       /\ tcpCall[c].pc = "idle" => ~tcpCall[c].isHandleOpened

TcpInv == TcpTypes /\ HeldOnceOnly /\ HandlesKnown /\ ModesAgree

\* A set of numbers has a least element.
LEMMA LeastNumber ==
  ASSUME NEW S \in SUBSET Nat, S # {}
  PROVE  LET least == CHOOSE n \in S : \A k \in S : n <= k IN
         least \in S /\ \A k \in S : least <= k
<1> DEFINE T == {0 .. n : n \in S}
<1>1. T \subseteq FiniteSubsetsOf(Nat) /\ T # {}
  <2>1. \A n \in Nat : 0 .. n \in FiniteSubsetsOf(Nat)
    BY FS_Interval DEF FiniteSubsetsOf
  <2> QED BY <2>1
<1>2. PICK t \in T : \A u \in T : ~(<<u, t>> \in StrictSubsetOrdering(Nat))
  BY <1>1, FS_StrictSubsetOrderingWellFounded, WFMin
<1>3. PICK x \in S : t = 0 .. x
  OBVIOUS
<1>4. ASSUME NEW y \in S, ~(x <= y) PROVE FALSE
  <2>1. 0 .. y \in SUBSET Nat /\ 0 .. x \in SUBSET Nat
    OBVIOUS
  <2>2. 0 .. y \subseteq 0 .. x /\ x \notin 0 .. y /\ x \in 0 .. x
    BY <1>4
  <2>3. <<0 .. y, 0 .. x>> \in StrictSubsetOrdering(Nat)
    BY <2>1, <2>2 DEF StrictSubsetOrdering
  <2> QED BY <1>2, <1>3, <2>3
<1> QED
  BY <1>4

\* socket() and accept() give a descriptor that was free.
LEMMA LowestIsFree ==
  ASSUME Unused # {}
  PROVE  Lowest \in Table /\ kernel[Lowest].kind = "free"
<1>1. Unused \in SUBSET Nat
  BY TcpConstants DEF Unused
<1>2. Lowest \in Unused
  BY <1>1, LeastNumber DEF Lowest
<1> QED
  BY <1>2 DEF Unused

\* No call has been made.
LEMMA TcpInitially == ASSUME TcpInit PROVE TcpInv
<1> USE TcpConstants DEF TcpInit, NoHandle, FreeEntry, Entry
<1>1. TcpTypes
  BY DEF TcpTypes, TcpEntries, TcpCalls
<1>2. HeldOnceOnly /\ HandlesKnown /\ ModesAgree
  BY DEF HeldOnceOnly, HandlesKnown, ModesAgree, IsOpen, HeldByProvider, HeldByCall,
     HeldByConnection, Stops
<1> QED
  BY <1>1, <1>2 DEF TcpInv

\* Steps that change no descriptor, no handle and no connection.
LEMMA HandlesStay ==
  ASSUME TcpInv, UNCHANGED <<kernel, m_serverHandle, tcpCall, tcpConnections>>, TcpTypes',
         m_closed' = m_closed, tcpStopping' = tcpStopping
  PROVE  TcpInv'
<1>1. HeldOnceOnly' /\ HandlesKnown' /\ ModesAgree'
  BY DEF TcpInv, TcpTypes, TcpEntries, TcpCalls, HeldOnceOnly, HandlesKnown, ModesAgree,
     IsOpen, HeldByProvider, HeldByCall, HeldByConnection, Stops
<1> QED
  BY <1>1 DEF TcpInv

\* A stop() tests m_closed, sets it and closes; none is let in while another is.
LEMMA StopSide ==
  ASSUME TcpInv, NEW s \in TcpStoppers, StopTests(s) \/ StopSets(s) \/ StopCloses(s),
         ~stopsRaced'
  PROVE  TcpInv'
<1> USE DEF provider
<1>1. CASE StopTests(s)
  <2>1. /\ UNCHANGED <<kernel, m_serverHandle, m_closed, getter, backlog, tcpCall, tcpConnections>>
        /\ m_serverHandle # NoHandle /\ tcpStopping[s] = "no"
        /\ \A t \in TcpStoppers :
             tcpStopping'[t] = IF t # s THEN tcpStopping[t]
                               ELSE IF m_closed THEN "stopped" ELSE "tested"
        /\ tcpStopping' \in [TcpStoppers -> {"no", "tested", "closing", "stopped"}]
        /\ ~m_closed => \A t \in TcpStoppers : tcpStopping[t] # "tested"
    BY <1>1 DEF StopTests, TcpInv, TcpTypes
  <2>2. TcpTypes'
    BY <2>1 DEF TcpInv, TcpTypes, TcpEntries, TcpCalls
  <2>3. HandlesKnown'
    BY <2>1 DEF TcpInv, HandlesKnown, Stops
  <2>4. \A g \in Table : /\ HeldByProvider(g)' <=> HeldByProvider(g)
                         /\ HeldByConnection(g)' <=> HeldByConnection(g)
                         /\ \A d \in TcpClients : HeldByCall(g, d)' <=> HeldByCall(g, d)
                         /\ IsOpen(g)' <=> IsOpen(g)
    BY <2>1 DEF HeldByProvider, HeldByConnection, HeldByCall, IsOpen
  <2>5. HeldOnceOnly' /\ ModesAgree'
    BY <2>1, <2>4 DEF TcpInv, HeldOnceOnly, ModesAgree
  <2> QED
    BY <2>2, <2>3, <2>5 DEF TcpInv
<1>2. CASE StopSets(s)
  <2>1. /\ UNCHANGED <<kernel, m_serverHandle, getter, backlog, tcpCall, tcpConnections>>
        /\ tcpStopping[s] = "tested" /\ ~m_closed /\ m_closed' = TRUE
        /\ \A t \in TcpStoppers :
             tcpStopping'[t] = IF t # s THEN tcpStopping[t] ELSE "closing"
        /\ tcpStopping' \in [TcpStoppers -> {"no", "tested", "closing", "stopped"}]
        /\ m_serverHandle # NoHandle
    BY <1>2 DEF StopSets, TcpInv, TcpTypes, HandlesKnown, Stops
  <2>2. TcpTypes'
    BY <2>1 DEF TcpInv, TcpTypes, TcpEntries, TcpCalls
  <2>3. HandlesKnown'
    BY <2>1 DEF TcpInv, HandlesKnown, Stops
  <2>4. \A g \in Table : /\ HeldByProvider(g)' <=> HeldByProvider(g)
                         /\ HeldByConnection(g)' <=> HeldByConnection(g)
                         /\ \A d \in TcpClients : HeldByCall(g, d)' <=> HeldByCall(g, d)
                         /\ IsOpen(g)' <=> IsOpen(g)
    BY <2>1 DEF HeldByProvider, HeldByConnection, HeldByCall, IsOpen
  <2>5. HeldOnceOnly' /\ ModesAgree'
    BY <2>1, <2>4 DEF TcpInv, HeldOnceOnly, ModesAgree
  <2> QED
    BY <2>2, <2>3, <2>5 DEF TcpInv
<1>3. CASE StopCloses(s)
  <2>1. /\ kernel' = [kernel EXCEPT ![m_serverHandle] = FreeEntry] /\ tcpStopping[s] = "closing"
        /\ UNCHANGED <<m_serverHandle, m_closed, getter, tcpCall, tcpConnections>>
        /\ \A t \in TcpStoppers :
             tcpStopping'[t] = IF t # s THEN tcpStopping[t] ELSE "stopped"
        /\ tcpStopping' \in [TcpStoppers -> {"no", "tested", "closing", "stopped"}]
        /\ m_serverHandle \in Table /\ m_closed
    BY <1>3 DEF StopCloses, TcpInv, TcpTypes, HandlesKnown, Stops
  <2>2. TcpTypes'
    <3>1. backlog' \in [waiting : Nat, ever : Nat]
      BY <1>3 DEF StopCloses, TcpInv, TcpTypes
    <3> QED
      BY <2>1, <3>1 DEF TcpInv, TcpTypes, TcpEntries, TcpCalls, FreeEntry, Entry
  <2>3. \A t \in TcpStoppers : ~Stops(t)'
    BY <2>1 DEF TcpInv, HandlesKnown, Stops
  <2>4. HandlesKnown'
    BY <2>1, <2>3 DEF TcpInv, HandlesKnown, NoHandle, Stops
  <2>5. \A g \in Table : /\ HeldByProvider(g) <=> g = m_serverHandle
                         /\ ~HeldByProvider(g)'
                         /\ HeldByConnection(g)' <=> HeldByConnection(g)
                         /\ \A d \in TcpClients : HeldByCall(g, d)' <=> HeldByCall(g, d)
                         /\ IsOpen(g)' <=> IsOpen(g) /\ g # m_serverHandle
    <3>1. \A g \in Table : ~HeldByProvider(g)' /\ (HeldByProvider(g) <=> g = m_serverHandle)
      BY <2>1, <2>3 DEF HeldByProvider, Stops
    <3>2. \A g \in Table : kernel'[g] = IF g = m_serverHandle THEN FreeEntry ELSE kernel[g]
      BY <2>1 DEF TcpInv, TcpTypes
    <3> QED
      BY <2>1, <3>1, <3>2 DEF HeldByConnection, HeldByCall, IsOpen, FreeEntry, Entry
  <2>6. HeldOnceOnly' /\ ModesAgree'
    <3>1. HeldOnceOnly'
      BY <2>1, <2>5 DEF TcpInv, HeldOnceOnly
    <3>2. \A k \in tcpConnections : k.handle # m_serverHandle /\ k.handle \in Table
      BY <2>1, <2>5 DEF TcpInv, TcpTypes, HeldOnceOnly, HeldByConnection
    <3> QED
      BY <2>1, <3>1, <3>2 DEF TcpInv, TcpTypes, ModesAgree
  <2> QED
    BY <2>2, <2>4, <2>6 DEF TcpInv
<1> QED
  BY <1>1, <1>2, <1>3

\* The server's provider while it accepts.
LEMMA ServerSide ==
  ASSUME TcpInv,
         \/ instantiateServer \/ Arrives \/ GetBegins \/ GetLooks \/ Selects \/ Accepts
         \/ AcceptsUnknown
  PROVE  TcpInv'
<1> USE DEF provider, stopping
<1>1. CASE instantiateServer
  <2>1. PICK h \in Table : h = Lowest /\ kernel[h].kind = "free"
    BY <1>1, LowestIsFree DEF instantiateServer
  <2>2. /\ kernel' = [kernel EXCEPT ![h] = Entry("listening", TRUE, "none")]
        /\ m_serverHandle' = h /\ m_serverHandle = NoHandle
        /\ UNCHANGED <<m_closed, getter, tcpStopping, backlog, tcpCall, tcpConnections>>
    BY <1>1, <2>1 DEF instantiateServer
  <2>3. TcpTypes'
    BY <2>2 DEF TcpInv, TcpTypes, TcpEntries, TcpCalls, Entry
  <2>4. /\ h # NoHandle /\ ~m_closed /\ \A t \in TcpStoppers : tcpStopping[t] = "no"
        /\ \A g \in Table : kernel'[g] = IF g = h THEN Entry("listening", TRUE, "none")
                                         ELSE kernel[g]
    BY <2>2, TcpConstants DEF TcpInv, TcpTypes, TcpEntries, TcpCalls, HandlesKnown,
       NoHandle
  <2>5. \A g \in Table :
          /\ HeldByProvider(g)' <=> g = h /\ ~HeldByProvider(g)
          /\ HeldByConnection(g)' <=> HeldByConnection(g)
          /\ \A d \in TcpClients : HeldByCall(g, d)' <=> HeldByCall(g, d)
          /\ IsOpen(g)' <=> IsOpen(g) \/ g = h
    BY <2>2, <2>4, TcpConstants DEF HeldByProvider, HeldByConnection, HeldByCall, IsOpen,
       Entry, NoHandle
  <2>6. HeldOnceOnly'
    <3>1. \A g \in Table : ~HeldByProvider(g)
      BY <2>2, TcpConstants DEF HeldByProvider, NoHandle
    <3>2. ~HeldByConnection(h) /\ \A c \in TcpClients : ~HeldByCall(h, c)
      BY <2>1 DEF TcpInv, HeldOnceOnly, IsOpen
    <3> QED BY <2>2, <2>5, <3>1, <3>2 DEF TcpInv, HeldOnceOnly
  <2>7. HandlesKnown' /\ ModesAgree'
    <3>1. \A k \in tcpConnections : k.handle # h /\ k.handle \in Table
      BY <2>1 DEF TcpInv, TcpTypes, TcpEntries, TcpCalls, HeldOnceOnly, HeldByConnection,
         IsOpen
    <3> QED
      BY <2>2, <2>4, <3>1 DEF TcpInv, HandlesKnown, Stops, ModesAgree
  <2> QED
    BY <2>3, <2>6, <2>7 DEF TcpInv
<1>2. CASE Arrives \/ GetBegins \/ GetLooks \/ Selects \/ AcceptsUnknown
  <2>1. TcpTypes'
    <3>1. /\ getter' \in {"idle", "check", "select", "accept"}
          /\ tcpStopping' = tcpStopping /\ m_closed' = m_closed
          /\ UNCHANGED <<kernel, m_serverHandle, tcpCall, tcpConnections>>
      BY <1>2 DEF Arrives, GetBegins, GetLooks, Selects, AcceptsUnknown,
         TcpInv, TcpTypes, TcpEntries, TcpCalls
    <3>2. backlog' \in [waiting : Nat, ever : Nat]
      BY <1>2 DEF Arrives, GetBegins, GetLooks, Selects, AcceptsUnknown,
         TcpInv, TcpTypes, TcpEntries, TcpCalls
    <3> QED BY <3>1, <3>2 DEF TcpInv, TcpTypes, TcpEntries, TcpCalls
  <2>2. /\ UNCHANGED <<kernel, m_serverHandle, tcpCall, tcpConnections>>
        /\ m_closed' = m_closed /\ tcpStopping' = tcpStopping
    BY <1>2 DEF Arrives, GetBegins, GetLooks, Selects, AcceptsUnknown
  <2> QED
    BY <2>1, <2>2, HandlesStay
<1>3. CASE Accepts
  <2>1. CASE UNCHANGED <<kernel, backlog, tcpConnections>>
    <3>1. TcpTypes'
      BY <1>3, <2>1 DEF Accepts, TcpInv, TcpTypes, TcpEntries, TcpCalls
    <3> QED
      BY <3>1, <1>3, <2>1, HandlesStay DEF Accepts
  <2>2. CASE /\ Unused # {}
             /\ kernel' = [kernel EXCEPT ![Lowest] = Entry("stream", FALSE, "connected")]
             /\ tcpConnections' = tcpConnections \union {Connection(Lowest, "server", FALSE)}
             /\ backlog' = [backlog EXCEPT !.waiting = @ - 1] /\ backlog.waiting > 0
    <3>1. PICK h \in Table : h = Lowest /\ kernel[h].kind = "free"
      BY <2>2, LowestIsFree
    <3>2. /\ kernel' = [kernel EXCEPT ![h] = Entry("stream", FALSE, "connected")]
          /\ tcpConnections' = tcpConnections \union {Connection(h, "server", FALSE)}
          /\ UNCHANGED <<m_serverHandle, m_closed, tcpStopping, tcpCall>>
      BY <1>3, <2>2, <3>1 DEF Accepts
    <3>3. TcpTypes'
      <4>1. backlog' \in [waiting : Nat, ever : Nat] /\ getter' = "idle"
        BY <1>3, <2>2 DEF Accepts, TcpInv, TcpTypes, TcpEntries, TcpCalls
      <4>2. Connection(h, "server", FALSE) \in
              [handle : Table, m_mode : {"BLOCKING", "ASYNCHRONOUS"},
               of : TcpClients \cup {"server"}]
        BY DEF Connection
      <4> QED BY <3>2, <4>1, <4>2 DEF TcpInv, TcpTypes, TcpEntries, TcpCalls, Entry
    <3>4. /\ \A g \in Table :
               kernel'[g] = IF g = h THEN Entry("stream", FALSE, "connected") ELSE kernel[g]
          /\ Connection(h, "server", FALSE).handle = h
          /\ Connection(h, "server", FALSE).m_mode = "BLOCKING"
          /\ \A k \in tcpConnections : k.handle # h /\ k.handle \in Table
      BY <3>1, <3>2 DEF TcpInv, TcpTypes, TcpEntries, TcpCalls, HeldOnceOnly,
         HeldByConnection, IsOpen, Connection
    <3>5. \A g \in Table :
            /\ HeldByProvider(g)' <=> HeldByProvider(g)
            /\ HeldByConnection(g)' <=> HeldByConnection(g) \/ g = h
            /\ \A d \in TcpClients : HeldByCall(g, d)' <=> HeldByCall(g, d)
            /\ IsOpen(g)' <=> IsOpen(g) \/ g = h
      <4>1. \A g \in Table : IsOpen(g)' <=> IsOpen(g) \/ g = h
        BY <3>4 DEF IsOpen, Entry
      <4>2. \A g \in Table : HeldByConnection(g)' <=> HeldByConnection(g) \/ g = h
        BY <3>2, <3>4 DEF HeldByConnection
      <4> QED BY <3>2, <4>1, <4>2 DEF HeldByProvider, HeldByCall
    <3>6. HeldOnceOnly'
      <4>1. \A k, l \in tcpConnections' : k.handle = l.handle => k = l
        BY <3>2, <3>4 DEF TcpInv, HeldOnceOnly
      <4> QED BY <3>1, <3>5, <4>1 DEF TcpInv, HeldOnceOnly, IsOpen
    <3>7. HandlesKnown' /\ ModesAgree'
      <4>1. kernel'[h].nonblocking = FALSE
        BY <3>4 DEF Entry
      <4>2. \A k \in tcpConnections : kernel'[k.handle] = kernel[k.handle]
        BY <3>4
      <4>3. ModesAgree'
        BY <3>2, <3>4, <4>1, <4>2 DEF TcpInv, ModesAgree
      <4> QED BY <3>2, <4>3 DEF TcpInv, HandlesKnown, Stops
    <3> QED
      BY <3>3, <3>6, <3>7 DEF TcpInv
  <2> QED
    BY <1>3, <2>1, <2>2 DEF Accepts
<1> QED
  BY <1>1, <1>2, <1>3

\* A call closes its handle, if it has one, and goes on without.
LEMMA CallCloses ==
  ASSUME TcpInv, NEW c \in TcpClients, NEW r, tcpCall' = [tcpCall EXCEPT ![c] = r],
         r \in [pc : {"iterate", "failed"}, currentResult : Nat,
                clientHandle : Table \cup {NoHandle}, isHandleOpened : {FALSE}],
         tcpCall[c].pc # "returned",
         kernel' = IF tcpCall[c].isHandleOpened
                   THEN [kernel EXCEPT ![tcpCall[c].clientHandle] = FreeEntry] ELSE kernel,
         UNCHANGED <<serverVars, tcpConnections>>
  PROVE  TcpInv'
<1> DEFINE h == tcpCall[c].clientHandle
<1>1. TcpTypes'
  BY DEF TcpInv, TcpTypes, TcpEntries, TcpCalls, FreeEntry, Entry, serverVars, stopping, provider
<1>2. /\ UNCHANGED <<m_serverHandle, m_closed, tcpStopping, tcpConnections>>
      /\ tcpCall[c].isHandleOpened => h \in Table
      /\ \A g \in Table : kernel'[g] = IF tcpCall[c].isHandleOpened /\ g = h
                                       THEN FreeEntry ELSE kernel[g]
      /\ \A d \in TcpClients : d # c => tcpCall'[d] = tcpCall[d]
      /\ ~tcpCall'[c].isHandleOpened /\ tcpCall'[c].pc \in {"iterate", "failed"}
  BY DEF TcpInv, TcpTypes, TcpEntries, TcpCalls, HandlesKnown, serverVars, stopping, provider
<1>3. \A g \in Table :
        /\ HeldByProvider(g)' <=> HeldByProvider(g)
        /\ HeldByConnection(g)' <=> HeldByConnection(g)
        /\ \A d \in TcpClients : HeldByCall(g, d)' <=> d # c /\ HeldByCall(g, d)
        /\ HeldByCall(g, c) <=> tcpCall[c].isHandleOpened /\ g = h
        /\ IsOpen(g)' <=> IsOpen(g) /\ ~HeldByCall(g, c)
  <2>1. \A g \in Table : /\ HeldByProvider(g)' <=> HeldByProvider(g)
                         /\ HeldByConnection(g)' <=> HeldByConnection(g)
                         /\ HeldByCall(g, c) <=> tcpCall[c].isHandleOpened /\ g = h
    BY <1>2 DEF HeldByProvider, HeldByConnection, HeldByCall
  <2>2. \A g \in Table, d \in TcpClients : HeldByCall(g, d)' <=> d # c /\ HeldByCall(g, d)
    BY <1>2 DEF HeldByCall
  <2>3. \A g \in Table : IsOpen(g)' <=> IsOpen(g) /\ ~HeldByCall(g, c)
    BY <1>2, <2>1 DEF IsOpen, FreeEntry, Entry
  <2> QED BY <2>1, <2>2, <2>3
<1>4. HeldOnceOnly'
  BY <1>2, <1>3 DEF TcpInv, HeldOnceOnly
<1>5. HandlesKnown'
  BY <1>2 DEF TcpInv, HandlesKnown, Stops
<1>6. ModesAgree'
  <2> SUFFICES ASSUME NEW k \in tcpConnections
               PROVE  (k.m_mode = "ASYNCHRONOUS") <=> kernel'[k.handle].nonblocking
    BY <1>2 DEF ModesAgree
  <2>1. k.handle \in Table /\ HeldByConnection(k.handle)
    BY DEF TcpInv, TcpTypes, TcpEntries, TcpCalls, HeldByConnection
  <2>2. ~HeldByCall(k.handle, c)
    BY <2>1 DEF TcpInv, HeldOnceOnly
  <2> QED
    BY <1>2, <1>3, <2>1, <2>2 DEF TcpInv, ModesAgree
<1> QED
  BY <1>1, <1>4, <1>5, <1>6 DEF TcpInv

\* A call goes on with the handle it has.
LEMMA CallGoesOn ==
  ASSUME TcpInv, NEW c \in TcpClients,
         NEW step \in {"iterate", "connect"}, NEW result \in Nat,
         NEW state \in {"new", "pending"},
         tcpCall' = [tcpCall EXCEPT ![c] = [pc |-> step, currentResult |-> result,
                       clientHandle |-> tcpCall[c].clientHandle,
                       isHandleOpened |-> tcpCall[c].isHandleOpened]],
         tcpCall[c].pc # "returned", step = "connect" => tcpCall[c].pc = "connect",
         \/ kernel' = kernel
         \/ /\ tcpCall[c].isHandleOpened
            /\ kernel' = [kernel EXCEPT ![tcpCall[c].clientHandle] =
                 [kernel[tcpCall[c].clientHandle] EXCEPT !.state = state]],
         UNCHANGED <<serverVars, tcpConnections>>
  PROVE  TcpInv'
<1> DEFINE h == tcpCall[c].clientHandle
<1>1. TcpTypes'
  <2>1. kernel' \in [Table -> TcpEntries]
    <3>1. CASE kernel' = kernel
      BY <3>1 DEF TcpInv, TcpTypes
    <3>2. CASE /\ tcpCall[c].isHandleOpened
               /\ kernel' = [kernel EXCEPT ![h] = [kernel[h] EXCEPT !.state = state]]
      <4>1. kernel[h] \in TcpEntries
        BY <3>2 DEF TcpInv, TcpTypes, HandlesKnown
      <4>2. [kernel[h] EXCEPT !.state = state] \in TcpEntries
        BY <4>1 DEF TcpEntries
      <4> QED BY <3>2, <4>2 DEF TcpInv, TcpTypes
    <3> QED BY <3>1, <3>2
  <2>2. tcpCall' \in [TcpClients -> TcpCalls]
    BY DEF TcpInv, TcpTypes, TcpEntries, TcpCalls
  <2> QED BY <2>1, <2>2 DEF TcpInv, TcpTypes, TcpEntries, TcpCalls, serverVars, stopping, provider
<1>2. /\ UNCHANGED <<m_serverHandle, m_closed, tcpStopping, tcpConnections>>
      /\ \A g \in Table : /\ kernel'[g].kind = kernel[g].kind
                          /\ kernel'[g].nonblocking = kernel[g].nonblocking
      /\ \A d \in TcpClients : /\ tcpCall'[d].clientHandle = tcpCall[d].clientHandle
                               /\ tcpCall'[d].isHandleOpened = tcpCall[d].isHandleOpened
                               /\ tcpCall'[d].pc = IF d = c THEN step ELSE tcpCall[d].pc
  BY DEF TcpInv, TcpTypes, TcpEntries, TcpCalls, HandlesKnown, serverVars, stopping, provider
<1>3. \A g \in Table :
        /\ HeldByProvider(g)' <=> HeldByProvider(g)
        /\ HeldByConnection(g)' <=> HeldByConnection(g)
        /\ \A d \in TcpClients : HeldByCall(g, d)' <=> HeldByCall(g, d)
        /\ IsOpen(g)' <=> IsOpen(g)
  BY <1>2 DEF HeldByProvider, HeldByConnection, HeldByCall, IsOpen
<1>4. HeldOnceOnly'
  BY <1>2, <1>3 DEF TcpInv, HeldOnceOnly
<1>5. HandlesKnown'
  BY <1>2 DEF TcpInv, HandlesKnown, Stops
<1>6. ModesAgree'
  BY <1>2 DEF TcpInv, TcpTypes, TcpEntries, TcpCalls, ModesAgree
<1> QED
  BY <1>1, <1>4, <1>5, <1>6 DEF TcpInv

\* A call opens a handle, which may be the one that it has just closed.
LEMMA CallOpens ==
  ASSUME TcpInv, NEW c \in TcpClients, NEW h \in Table, NEW entry,
         entry \in [kind : {"stream"}, nonblocking : BOOLEAN, shut : BOOLEAN, state : {"new"}],
         tcpCall[c].pc = "iterate",
         IsOpen(h) => tcpCall[c].isHandleOpened /\ tcpCall[c].clientHandle = h,
         tcpCall' = [tcpCall EXCEPT ![c] = [pc |-> "connect",
                       currentResult |-> tcpCall[c].currentResult,
                       clientHandle |-> h, isHandleOpened |-> TRUE]],
         kernel' = [IF tcpCall[c].isHandleOpened
                    THEN [kernel EXCEPT ![tcpCall[c].clientHandle] = FreeEntry] ELSE kernel
                    EXCEPT ![h] = entry],
         UNCHANGED <<serverVars, tcpConnections>>
  PROVE  TcpInv'
<1> DEFINE old == tcpCall[c].clientHandle
<1>1. TcpTypes'
  BY DEF TcpInv, TcpTypes, TcpEntries, TcpCalls, FreeEntry, Entry, serverVars, stopping, provider
<1>2. /\ UNCHANGED <<m_serverHandle, m_closed, tcpStopping, tcpConnections>>
      /\ tcpCall[c].isHandleOpened => old \in Table
      /\ \A g \in Table : kernel'[g] = IF g = h THEN entry
                                       ELSE IF tcpCall[c].isHandleOpened /\ g = old
                                       THEN FreeEntry ELSE kernel[g]
      /\ \A d \in TcpClients : d # c => tcpCall'[d] = tcpCall[d]
      /\ tcpCall'[c].isHandleOpened /\ tcpCall'[c].clientHandle = h
      /\ tcpCall'[c].pc = "connect"
  BY DEF TcpInv, TcpTypes, TcpEntries, TcpCalls, HandlesKnown, serverVars, stopping, provider
<1>3. \A g \in Table :
        /\ HeldByProvider(g)' <=> HeldByProvider(g)
        /\ HeldByConnection(g)' <=> HeldByConnection(g)
        /\ \A d \in TcpClients :
             HeldByCall(g, d)' <=> IF d = c THEN g = h ELSE HeldByCall(g, d)
        /\ HeldByCall(g, c) <=> tcpCall[c].isHandleOpened /\ g = old
        /\ IsOpen(g)' <=> g = h \/ (IsOpen(g) /\ ~HeldByCall(g, c))
  <2>1. \A g \in Table : /\ HeldByProvider(g)' <=> HeldByProvider(g)
                         /\ HeldByConnection(g)' <=> HeldByConnection(g)
                         /\ HeldByCall(g, c) <=> tcpCall[c].isHandleOpened /\ g = old
    BY <1>2 DEF HeldByProvider, HeldByConnection, HeldByCall
  <2>2. \A g \in Table, d \in TcpClients :
          HeldByCall(g, d)' <=> IF d = c THEN g = h ELSE HeldByCall(g, d)
    BY <1>2 DEF HeldByCall
  <2>3. entry.kind # "free" /\ FreeEntry.kind = "free"
    BY DEF FreeEntry, Entry
  <2>4. \A g \in Table : IsOpen(g)' <=> g = h \/ (IsOpen(g) /\ ~HeldByCall(g, c))
    <3> SUFFICES ASSUME NEW g \in Table
                 PROVE  IsOpen(g)' <=> g = h \/ (IsOpen(g) /\ ~HeldByCall(g, c))
      OBVIOUS
    <3>1. CASE g = h
      <4>1. kernel'[g] = entry
        BY <1>2, <3>1
      <4> QED BY <2>3, <3>1, <4>1 DEF IsOpen
    <3>2. CASE g # h /\ HeldByCall(g, c)
      <4>1. kernel'[g] = FreeEntry
        BY <1>2, <2>1, <3>2
      <4> QED BY <2>3, <3>2, <4>1 DEF IsOpen
    <3>3. CASE g # h /\ ~HeldByCall(g, c)
      <4>1. kernel'[g] = kernel[g]
        BY <1>2, <2>1, <3>3
      <4> QED BY <3>3, <4>1 DEF IsOpen
    <3> QED BY <3>1, <3>2, <3>3
  <2> QED BY <2>1, <2>2, <2>4
<1>4. IsOpen(h) => HeldByCall(h, c)
  BY <1>3
<1>5. HeldOnceOnly'
  <2>1. /\ ~HeldByProvider(h) /\ ~HeldByConnection(h)
        /\ \A d \in TcpClients : HeldByCall(h, d) => d = c
    BY <1>4 DEF TcpInv, HeldOnceOnly
  <2> QED
    BY <1>2, <1>3, <2>1 DEF TcpInv, HeldOnceOnly
<1>6. HandlesKnown'
  BY <1>2 DEF TcpInv, HandlesKnown, Stops
<1>7. ModesAgree'
  <2> SUFFICES ASSUME NEW k \in tcpConnections
               PROVE  (k.m_mode = "ASYNCHRONOUS") <=> kernel'[k.handle].nonblocking
    BY <1>2 DEF ModesAgree
  <2>1. k.handle \in Table /\ HeldByConnection(k.handle)
    BY DEF TcpInv, TcpTypes, TcpEntries, TcpCalls, HeldByConnection
  <2>2. ~HeldByCall(k.handle, c) /\ k.handle # h
    BY <1>4, <2>1 DEF TcpInv, HeldOnceOnly
  <2>3. kernel'[k.handle] = kernel[k.handle]
    BY <1>2, <1>3, <2>1, <2>2
  <2> QED
    BY <2>3 DEF TcpInv, ModesAgree
<1> QED
  BY <1>1, <1>5, <1>6, <1>7 DEF TcpInv

\* The connection takes over the call's handle.
LEMMA CallReturns ==
  ASSUME TcpInv, NEW c \in TcpClients, Connects(c)
  PROVE  TcpInv'
<1> DEFINE h == tcpCall[c].clientHandle
           k == Connection(h, c, kernel[h].nonblocking)
<1>1. /\ tcpCall[c].pc = "connect" /\ tcpCall[c].isHandleOpened /\ h \in Table
      /\ HeldByCall(h, c) /\ kernel[h].nonblocking \in BOOLEAN
  BY DEF Connects, TcpInv, TcpTypes, TcpEntries, TcpCalls, HandlesKnown, HeldByCall
<1>2. /\ UNCHANGED <<m_serverHandle, m_closed, tcpStopping, getter, backlog>>
      /\ kernel' = [kernel EXCEPT ![h] = [kernel[h] EXCEPT !.state = "connected"]]
      /\ tcpConnections' = tcpConnections \union {k}
      /\ tcpCall' = [tcpCall EXCEPT ![c] =
                       [pc |-> "returned", currentResult |-> tcpCall[c].currentResult,
                        clientHandle |-> h, isHandleOpened |-> tcpCall[c].isHandleOpened]]
  BY DEF Connects, Step, serverVars, stopping, provider
<1>3. /\ k \in [handle : Table, m_mode : {"BLOCKING", "ASYNCHRONOUS"},
                of : TcpClients \cup {"server"}]
      /\ k.handle = h /\ (k.m_mode = "ASYNCHRONOUS" <=> kernel[h].nonblocking)
  BY <1>1 DEF Connection
<1> HIDE DEF k
<1>4. TcpTypes'
  <2>1. kernel' \in [Table -> TcpEntries]
    <3>1. kernel[h] \in TcpEntries
      BY <1>1 DEF TcpInv, TcpTypes
    <3>2. [kernel[h] EXCEPT !.state = "connected"] \in TcpEntries
      BY <3>1 DEF TcpEntries
    <3> QED BY <1>2, <3>2 DEF TcpInv, TcpTypes
  <2>2. tcpCall' \in [TcpClients -> TcpCalls]
    BY <1>1, <1>2 DEF TcpInv, TcpTypes, TcpCalls
  <2> QED BY <1>2, <1>3, <2>1, <2>2 DEF TcpInv, TcpTypes
<1>5. /\ \A g \in Table : /\ kernel'[g].kind = kernel[g].kind
                          /\ kernel'[g].nonblocking = kernel[g].nonblocking
      /\ \A d \in TcpClients : /\ tcpCall'[d].clientHandle = tcpCall[d].clientHandle
                               /\ tcpCall'[d].isHandleOpened = tcpCall[d].isHandleOpened
                               /\ tcpCall'[d].pc = IF d = c THEN "returned" ELSE tcpCall[d].pc
  <2>1. kernel[h] \in TcpEntries
    BY <1>1 DEF TcpInv, TcpTypes
  <2>2. /\ [kernel[h] EXCEPT !.state = "connected"].kind = kernel[h].kind
        /\ [kernel[h] EXCEPT !.state = "connected"].nonblocking = kernel[h].nonblocking
    BY <2>1 DEF TcpEntries
  <2>3. \A g \in Table : kernel'[g] = IF g = h THEN [kernel[h] EXCEPT !.state = "connected"]
                                       ELSE kernel[g]
    BY <1>2 DEF TcpInv, TcpTypes
  <2>4. \A d \in TcpClients : /\ tcpCall'[d].clientHandle = tcpCall[d].clientHandle
                              /\ tcpCall'[d].isHandleOpened = tcpCall[d].isHandleOpened
                              /\ tcpCall'[d].pc = IF d = c THEN "returned" ELSE tcpCall[d].pc
    BY <1>2 DEF TcpInv, TcpTypes
  <2> QED BY <2>2, <2>3, <2>4
<1>6. \A g \in Table :
        /\ HeldByProvider(g)' <=> HeldByProvider(g)
        /\ HeldByConnection(g)' <=> HeldByConnection(g) \/ g = h
        /\ \A d \in TcpClients : HeldByCall(g, d)' <=> d # c /\ HeldByCall(g, d)
        /\ HeldByCall(g, c) <=> g = h
        /\ IsOpen(g)' <=> IsOpen(g)
  <2>1. \A g \in Table : /\ HeldByProvider(g)' <=> HeldByProvider(g)
                         /\ IsOpen(g)' <=> IsOpen(g)
    BY <1>2, <1>5 DEF HeldByProvider, IsOpen
  <2>2. \A g \in Table : HeldByConnection(g)' <=> HeldByConnection(g) \/ g = h
    BY <1>2, <1>3 DEF HeldByConnection
  <2>3. \A g \in Table :
          /\ \A d \in TcpClients : HeldByCall(g, d)' <=> d # c /\ HeldByCall(g, d)
          /\ HeldByCall(g, c) <=> g = h
    BY <1>1, <1>5 DEF HeldByCall
  <2> QED BY <2>1, <2>2, <2>3
<1>7. HeldOnceOnly'
  <2>1. /\ ~HeldByProvider(h) /\ ~HeldByConnection(h)
        /\ \A d \in TcpClients : HeldByCall(h, d) => d = c
    BY <1>1 DEF TcpInv, HeldOnceOnly
  <2>2. \A l \in tcpConnections : l.handle # h
    BY <2>1 DEF HeldByConnection
  <2>3. \A l, m \in tcpConnections' : l.handle = m.handle => l = m
    BY <1>2, <1>3, <2>2 DEF TcpInv, HeldOnceOnly
  <2> QED
    BY <1>6, <2>1, <2>3 DEF TcpInv, HeldOnceOnly
<1>8. HandlesKnown'
  BY <1>2, <1>5 DEF TcpInv, HandlesKnown, Stops
<1>9. ModesAgree'
  BY <1>1, <1>2, <1>3, <1>5 DEF TcpInv, TcpTypes, TcpEntries, TcpCalls, ModesAgree
<1> QED
  BY <1>4, <1>7, <1>8, <1>9 DEF TcpInv

\* The client's provider.
LEMMA ClientSide ==
  ASSUME TcpInv, NEW c \in TcpClients,
         Begins(c) \/ iterateAddrInfoResults(c) \/ Connects(c) \/ ConnectPends(c)
           \/ ConnectFails(c)
  PROVE  TcpInv'
<1> DEFINE me == tcpCall[c]
<1> USE DEF Step
<1>1. me \in TcpCalls
  BY DEF TcpInv, TcpTypes
<1> USE DEF TcpCalls
<1>2. CASE Begins(c)
  <2>1. /\ tcpCall' = [tcpCall EXCEPT ![c] =
                         [pc |-> "iterate", currentResult |-> me.currentResult,
                          clientHandle |-> me.clientHandle,
                          isHandleOpened |-> me.isHandleOpened]]
        /\ me.pc # "returned" /\ kernel' = kernel /\ UNCHANGED <<serverVars, tcpConnections>>
    BY <1>1, <1>2 DEF Begins
  <2> QED BY <1>1, <2>1, CallGoesOn
<1>3. CASE iterateAddrInfoResults(c)
  <2> DEFINE after == IF me.isHandleOpened
                      THEN [kernel EXCEPT ![me.clientHandle] = FreeEntry] ELSE kernel
             free == {h \in Table : after[h].kind = "free"}
             handle == CHOOSE h \in free : \A g \in free : h <= g
  <2>1. me.pc = "iterate" /\ UNCHANGED <<serverVars, tcpConnections>>
    BY <1>3 DEF iterateAddrInfoResults
  <2>2. ASSUME NEW to \in {"iterate", "failed"}, NEW result \in Nat, kernel' = after,
               Step(c, to, result, me.clientHandle, FALSE)
        PROVE  TcpInv'
    <3> DEFINE r == [pc |-> to, currentResult |-> result,
                     clientHandle |-> me.clientHandle, isHandleOpened |-> FALSE]
    <3>1. r \in [pc : {"iterate", "failed"}, currentResult : Nat,
                 clientHandle : Table \cup {NoHandle}, isHandleOpened : {FALSE}]
      BY <1>1
    <3>2. tcpCall' = [tcpCall EXCEPT ![c] = r]
      BY <2>2
    <3> HIDE DEF r
    <3> QED BY <2>1, <2>2, <3>1, <3>2, CallCloses
  <2>3. CASE /\ kernel' = after
             /\ \/ Step(c, "failed", me.currentResult, me.clientHandle, FALSE)
                \/ Step(c, "iterate", me.currentResult + 1, me.clientHandle, FALSE)
    <3>1. me.currentResult \in Nat /\ me.currentResult + 1 \in Nat
      BY <1>1
    <3> HIDE DEF after
    <3> QED BY <2>2, <2>3, <3>1
  <2>4. CASE /\ free # {}
             /\ kernel' = [after EXCEPT ![handle] =
                             Entry("stream", c \in TcpCoroutines, "new")]
             /\ Step(c, "connect", me.currentResult, handle, TRUE)
    <3> DEFINE entry == Entry("stream", c \in TcpCoroutines, "new")
    <3>1. free \in SUBSET Nat
      BY TcpConstants
    <3>2. handle \in free
      <4> HIDE DEF free
      <4> QED BY <2>4, <3>1, LeastNumber
    <3>3. PICK h \in free : h = handle
      BY <3>2
    <3>4. h \in Table /\ after[h].kind = "free"
      BY <3>3
    <3>5. IsOpen(h) => me.isHandleOpened /\ me.clientHandle = h
      BY <3>4 DEF IsOpen, TcpInv, TcpTypes, TcpEntries, TcpCalls, HandlesKnown
    <3>6. entry \in [kind : {"stream"}, nonblocking : BOOLEAN, shut : BOOLEAN,
                     state : {"new"}]
      BY DEF Entry
    <3>7. kernel' = [after EXCEPT ![h] = entry]
      BY <2>4, <3>3
    <3>8. tcpCall' = [tcpCall EXCEPT ![c] =
                        [pc |-> "connect", currentResult |-> me.currentResult,
                         clientHandle |-> h, isHandleOpened |-> TRUE]]
      BY <1>1, <2>4, <3>3
    <3> HIDE DEF entry, handle, free
    <3> QED BY <2>1, <3>4, <3>5, <3>6, <3>7, <3>8, CallOpens
  <2> QED
    <3> HIDE DEF Step
    <3> QED BY <1>3, <2>3, <2>4 DEF iterateAddrInfoResults
<1>4. CASE Connects(c)
  BY <1>4, CallReturns
<1>5. CASE ConnectPends(c)
  <2>1. /\ me.pc = "connect" /\ me.isHandleOpened /\ tcpCall' = tcpCall
        /\ UNCHANGED <<serverVars, tcpConnections>>
        /\ kernel' = [kernel EXCEPT ![me.clientHandle] =
                        [kernel[me.clientHandle] EXCEPT !.state = "pending"]]
    BY <1>5 DEF ConnectPends, TcpInv, HandlesKnown
  <2>2. tcpCall = [tcpCall EXCEPT ![c] =
                     [pc |-> "connect", currentResult |-> me.currentResult,
                      clientHandle |-> me.clientHandle, isHandleOpened |-> me.isHandleOpened]]
    BY <1>1, <2>1 DEF TcpInv, TcpTypes, TcpEntries, TcpCalls
  <2> QED BY <1>1, <2>1, <2>2, CallGoesOn
<1>6. CASE ConnectFails(c)
  <2>1. /\ me.pc = "connect" /\ me.isHandleOpened
        /\ UNCHANGED <<serverVars, tcpConnections>>
        /\ kernel' = IF c \in TcpCoroutines THEN kernel
                     ELSE [kernel EXCEPT ![me.clientHandle] = FreeEntry]
    BY <1>6 DEF ConnectFails, TcpInv, HandlesKnown
  <2>2. tcpCall' = [tcpCall EXCEPT ![c] =
                      [pc |-> "iterate", currentResult |-> me.currentResult + 1,
                       clientHandle |-> me.clientHandle,
                       isHandleOpened |-> c \in TcpCoroutines]]
    BY <1>1, <1>6 DEF ConnectFails
  <2>3. CASE c \in TcpCoroutines
    <3>1. kernel' = kernel /\ me.currentResult + 1 \in Nat
      BY <1>1, <2>1, <2>3
    <3>2. tcpCall' = [tcpCall EXCEPT ![c] =
                        [pc |-> "iterate", currentResult |-> me.currentResult + 1,
                         clientHandle |-> me.clientHandle,
                         isHandleOpened |-> me.isHandleOpened]]
      BY <2>1, <2>2, <2>3
    <3> QED BY <2>1, <3>1, <3>2, CallGoesOn
  <2>4. CASE c \notin TcpCoroutines
    <3> DEFINE r == [pc |-> "iterate", currentResult |-> me.currentResult + 1,
                     clientHandle |-> me.clientHandle, isHandleOpened |-> FALSE]
    <3>1. r \in [pc : {"iterate", "failed"}, currentResult : Nat,
                 clientHandle : Table \cup {NoHandle}, isHandleOpened : {FALSE}]
      BY <1>1
    <3>2. tcpCall' = [tcpCall EXCEPT ![c] = r]
      <4>1. (c \in TcpCoroutines) = FALSE
        BY <2>4
      <4> QED BY <2>2, <4>1
    <3>3. kernel' = IF me.isHandleOpened
                    THEN [kernel EXCEPT ![me.clientHandle] = FreeEntry] ELSE kernel
      BY <2>1, <2>4
    <3> HIDE DEF r
    <3> QED BY <2>1, <3>1, <3>2, <3>3, CallCloses
  <2> QED BY <2>3, <2>4
<1> QED
  BY <1>2, <1>3, <1>4, <1>5, <1>6

\* Connections.
LEMMA ConnectionSide ==
  ASSUME TcpInv, NEW k \in tcpConnections,
         \/ invalidate(k) \/ close(k)
         \/ \E asked \in {"BLOCKING", "ASYNCHRONOUS"} : setStreamIOMode(k, asked)
  PROVE  TcpInv'
<1> DEFINE h == k.handle
<1>1. /\ k \in [handle : Table, m_mode : {"BLOCKING", "ASYNCHRONOUS"},
                of : TcpClients \cup {"server"}]
      /\ h \in Table /\ HeldByConnection(h)
      /\ \A l \in tcpConnections : l.handle = h => l = k
      /\ \A l \in tcpConnections : l.handle \in Table
      /\ ~HeldByProvider(h) /\ \A c \in TcpClients : ~HeldByCall(h, c)
  BY DEF TcpInv, TcpTypes, TcpEntries, TcpCalls, HeldOnceOnly, HeldByConnection
<1>2. CASE invalidate(k)
  <2>1. /\ kernel' = [kernel EXCEPT ![h] = [kernel[h] EXCEPT !.shut = TRUE]]
        /\ UNCHANGED <<m_serverHandle, m_closed, getter, tcpStopping, backlog, tcpCall,
                       tcpConnections>>
    BY <1>2 DEF invalidate, serverVars, stopping, provider
  <2>2. TcpTypes'
    <3>1. [kernel[h] EXCEPT !.shut = TRUE] \in TcpEntries
      <4>1. kernel[h] \in TcpEntries
        BY <1>1 DEF TcpInv, TcpTypes
      <4> QED BY <4>1 DEF TcpEntries
    <3> QED BY <1>1, <2>1, <3>1 DEF TcpInv, TcpTypes, TcpEntries, TcpCalls
  <2>3. \A g \in Table : /\ kernel'[g].kind = kernel[g].kind
                         /\ kernel'[g].nonblocking = kernel[g].nonblocking
    BY <1>1, <2>1 DEF TcpInv, TcpTypes, TcpEntries, TcpCalls
  <2>4. HeldOnceOnly' /\ HandlesKnown' /\ ModesAgree'
    BY <1>1, <2>1, <2>3 DEF TcpInv, HeldOnceOnly, HandlesKnown, Stops, ModesAgree, IsOpen,
       HeldByProvider, HeldByCall, HeldByConnection
  <2> QED BY <2>2, <2>4 DEF TcpInv
<1>3. CASE close(k)
  <2>1. /\ kernel' = [kernel EXCEPT ![h] = FreeEntry]
        /\ tcpConnections' = tcpConnections \ {k}
        /\ UNCHANGED <<m_serverHandle, m_closed, getter, tcpStopping, backlog, tcpCall>>
    BY <1>3 DEF close, serverVars, stopping, provider
  <2>2. TcpTypes'
    BY <1>1, <2>1 DEF TcpInv, TcpTypes, TcpEntries, TcpCalls, FreeEntry, Entry
  <2>3. \A g \in Table : kernel'[g] = IF g = h THEN FreeEntry ELSE kernel[g]
    BY <1>1, <2>1 DEF TcpInv, TcpTypes, TcpEntries, TcpCalls
  <2>4. \A g \in Table :
          /\ HeldByProvider(g)' <=> HeldByProvider(g)
          /\ HeldByConnection(g)' <=> HeldByConnection(g) /\ g # h
          /\ \A d \in TcpClients : HeldByCall(g, d)' <=> HeldByCall(g, d)
          /\ IsOpen(g)' <=> IsOpen(g) /\ g # h
    BY <1>1, <2>1, <2>3 DEF HeldByProvider, HeldByConnection, HeldByCall, IsOpen,
       FreeEntry, Entry
  <2>5. HeldOnceOnly'
    BY <1>1, <2>1, <2>4 DEF TcpInv, HeldOnceOnly
  <2>6. HandlesKnown' /\ ModesAgree'
    BY <1>1, <2>1, <2>3 DEF TcpInv, HandlesKnown, Stops, ModesAgree
  <2> QED BY <2>2, <2>5, <2>6 DEF TcpInv
<1>4. ASSUME NEW asked \in {"BLOCKING", "ASYNCHRONOUS"}, setStreamIOMode(k, asked)
      PROVE  TcpInv'
  <2> DEFINE new == [k EXCEPT !.m_mode = asked]
  <2>1. /\ kernel' = [kernel EXCEPT ![h] =
                        [kernel[h] EXCEPT !.nonblocking = (asked = "ASYNCHRONOUS")]]
        /\ tcpConnections' = (tcpConnections \ {k}) \union {new}
        /\ UNCHANGED <<m_serverHandle, m_closed, getter, tcpStopping, backlog, tcpCall>>
    BY <1>4 DEF setStreamIOMode, serverVars, stopping, provider
  <2>2. /\ new \in [handle : Table, m_mode : {"BLOCKING", "ASYNCHRONOUS"},
                    of : TcpClients \cup {"server"}]
        /\ new.handle = h /\ new.m_mode = asked
    BY <1>1
  <2> HIDE DEF new
  <2>3. TcpTypes'
    <3>1. (asked = "ASYNCHRONOUS") \in BOOLEAN
      OBVIOUS
    <3>2. [kernel[h] EXCEPT !.nonblocking = (asked = "ASYNCHRONOUS")] \in TcpEntries
      <4>1. kernel[h] \in TcpEntries
        BY <1>1 DEF TcpInv, TcpTypes
      <4> QED BY <3>1, <4>1 DEF TcpEntries
    <3> QED BY <1>1, <2>1, <2>2, <3>2 DEF TcpInv, TcpTypes, TcpEntries, TcpCalls
  <2>4. \A g \in Table : /\ kernel'[g].kind = kernel[g].kind
                         /\ kernel'[g].nonblocking = IF g = h THEN asked = "ASYNCHRONOUS"
                                                     ELSE kernel[g].nonblocking
    BY <1>1, <2>1 DEF TcpInv, TcpTypes, TcpEntries, TcpCalls
  <2>5. \A g \in Table :
          /\ HeldByProvider(g)' <=> HeldByProvider(g)
          /\ HeldByConnection(g)' <=> HeldByConnection(g)
          /\ \A d \in TcpClients : HeldByCall(g, d)' <=> HeldByCall(g, d)
          /\ IsOpen(g)' <=> IsOpen(g)
    BY <1>1, <2>1, <2>2, <2>4 DEF HeldByProvider, HeldByConnection, HeldByCall, IsOpen
  <2>6. HeldOnceOnly'
    <3>1. \A l, m \in tcpConnections' : l.handle = m.handle => l = m
      BY <1>1, <2>1, <2>2 DEF TcpInv, HeldOnceOnly
    <3> QED BY <2>5, <3>1 DEF TcpInv, HeldOnceOnly
  <2>7. HandlesKnown'
    BY <2>1 DEF TcpInv, HandlesKnown, Stops
  <2>8. ModesAgree'
    BY <1>1, <2>1, <2>2, <2>4 DEF TcpInv, TcpTypes, HeldOnceOnly, ModesAgree
  <2> QED BY <2>3, <2>6, <2>7, <2>8 DEF TcpInv
<1> QED
  BY <1>2, <1>3, <1>4

\* Every step of the TCP side keeps the invariant, as long as no two stops race.
LEMMA TcpInvariance == TcpSpec => [](~stopsRaced => TcpInv)
<1>1. TcpInit => (~stopsRaced => TcpInv)
  BY TcpInitially
<1>2. (~stopsRaced => TcpInv) /\ [TcpNext]_tcpVars => (~stopsRaced => TcpInv)'
  <2> SUFFICES ASSUME ~stopsRaced => TcpInv, [TcpNext]_tcpVars, ~stopsRaced' PROVE TcpInv'
    OBVIOUS
  <2>1. CASE UNCHANGED tcpVars
    BY <2>1 DEF tcpVars, serverVars, stopping, provider, TcpInv, TcpTypes, TcpEntries, TcpCalls,
       HeldOnceOnly, HandlesKnown, ModesAgree, IsOpen, HeldByProvider, HeldByCall,
       HeldByConnection, Stops
  <2>2. CASE TcpNext
    <3>1. ~stopsRaced
      BY <2>2 DEF TcpNext, instantiateServer, Arrives, GetBegins, GetLooks, Selects, Accepts,
         AcceptsUnknown, StopTests, StopSets, StopCloses, Begins, iterateAddrInfoResults,
         Connects, ConnectPends, ConnectFails, invalidate, close, setStreamIOMode, serverVars,
         stopping
    <3> QED
      BY <2>2, <3>1, ServerSide, StopSide, ClientSide, ConnectionSide DEF TcpNext
  <2> QED BY <2>1, <2>2
<1> QED BY <1>1, <1>2, PTL DEF TcpSpec

\* A descriptor that is open has exactly one that will close it, a descriptor that is
\* closed has none, and a connection knows whether its descriptor blocks, however many
\* stop the server's provider, as long as no two find m_closed false at once
\* (tcp/Connection.cpp, tcp/client/ConnectionProvider.cpp, tcp/server/ConnectionProvider.cpp).
THEOREM DescriptorsAreOwned == TcpSpec => []DescriptorsOwned
<1>1. (~stopsRaced => TcpInv) => DescriptorsOwned
  <2> SUFFICES ASSUME TcpInv, ~stopsRaced, NEW h \in Table
               PROVE  Cardinality(Holders(h)) = IF IsOpen(h) THEN 1 ELSE 0
    BY DEF TcpInv, DescriptorsOwned, DescriptorsHaveOneHolder
  <2> DEFINE P == IF h = m_serverHandle /\ ~m_closed THEN {<<"provider">>} ELSE {}
             S == {<<s, "stop">> :
                     s \in {s \in TcpStoppers : tcpStopping[s] = "closing" /\ h = m_serverHandle}}
             C == {<<c>> : c \in {c \in TcpClients : HeldByCall(h, c)}}
             K == {<<k, "connection">> : k \in {k \in tcpConnections : k.handle = h}}
  <2>1. Holders(h) = P \union S \union C \union K
    BY DEF Holders, HeldByCall
  <2>2. CASE HeldByProvider(h)
    <3>1. IsOpen(h) /\ C = {} /\ K = {} /\ h = m_serverHandle
      BY <2>2 DEF TcpInv, HeldOnceOnly, HeldByConnection, HeldByProvider
    <3>2. CASE ~m_closed
      <4>1. S = {}
        BY <3>2 DEF TcpInv, HandlesKnown, Stops
      <4>2. Holders(h) = {<<"provider">>}
        BY <2>1, <3>1, <3>2, <4>1
      <4> QED BY <3>1, <4>2, FS_Singleton
    <3>3. CASE m_closed
      <4>1. PICK s \in TcpStoppers : tcpStopping[s] = "closing"
        BY <2>2, <3>3 DEF HeldByProvider
      <4>2. \A t \in TcpStoppers : tcpStopping[t] = "closing" => t = s
        BY <4>1 DEF TcpInv, HandlesKnown, Stops
      <4>3. Holders(h) = {<<s, "stop">>}
        BY <2>1, <3>1, <3>3, <4>1, <4>2
      <4> QED BY <3>1, <4>3, FS_Singleton
    <3> QED BY <3>2, <3>3
  <2>3. ASSUME NEW c \in TcpClients, HeldByCall(h, c)
        PROVE  Cardinality(Holders(h)) = IF IsOpen(h) THEN 1 ELSE 0
    <3>1. Holders(h) = {<<c>>} /\ IsOpen(h)
      BY <2>1, <2>3 DEF TcpInv, HeldOnceOnly, HeldByConnection, HeldByProvider
    <3> QED BY <3>1, FS_Singleton
  <2>4. ASSUME NEW k \in tcpConnections, k.handle = h
        PROVE  Cardinality(Holders(h)) = IF IsOpen(h) THEN 1 ELSE 0
    <3>1. Holders(h) = {<<k, "connection">>} /\ IsOpen(h)
      BY <2>1, <2>4 DEF TcpInv, HeldOnceOnly, HeldByConnection, HeldByProvider
    <3> QED BY <3>1, FS_Singleton
  <2>5. CASE /\ ~HeldByProvider(h) /\ \A c \in TcpClients : ~HeldByCall(h, c)
             /\ \A k \in tcpConnections : k.handle # h
    <3>1. Holders(h) = {} /\ ~IsOpen(h)
      BY <2>1, <2>5 DEF TcpInv, HeldOnceOnly, HeldByConnection, HeldByProvider
    <3> QED BY <3>1, FS_EmptySet
  <2> QED BY <2>2, <2>3, <2>4, <2>5
<1> QED BY <1>1, TcpInvariance, PTL

-----------------------------------------------------------------------------
(* MemoryStreams.                                                           *)

\* The text is what lies before the position, memory is on the heap when it is longer than
\* the one inside of the stream, and never is it shorter.
OutputInv ==
  /\ out \in [data : Seq(Nat), position : Nat, onHeap : BOOLEAN]
  /\ out.position <= Len(out.data) /\ out.position <= MaxText
  /\ text = SubSeq(out.data, 1, out.position)
  /\ Len(out.data) >= StackSize
  /\ out.onHeap <=> Len(out.data) > StackSize
  /\ turn \in Nat

InputInv ==
  /\ in \in [data : Seq(Nat), position : Nat]
  /\ in.position <= Len(in.data) /\ Len(in.data) <= MaxText
  /\ fifoStream \in [queue : Seq(Nat), size : Nat]
  /\ got \in Seq(Nat)
  /\ PassedOn

\* A reservation fails, or gives at least what is needed and never less than there was.
LEMMA ReserveFits ==
  ASSUME MemoryConstants, NEW capacity \in Nat, NEW needed \in Nat,
         needed <= 2 ^ (Width - 1)
  PROVE  LET size == reserve(capacity, needed) IN
         /\ size \in Nat
         /\ size # 0 => size >= needed /\ size >= capacity
         /\ size # 0 => (size = capacity <=> needed <= capacity)
<1> DEFINE Powers == {p \in {2 ^ k : k \in 0 .. Width - 1} : p >= needed}
           power == nextP2(needed)
           newCapacity == IF power < 0 \/ (m_maxCapacity > 0 /\ power > m_maxCapacity)
                          THEN m_maxCapacity ELSE power
<1>1. Powers \in SUBSET Nat /\ Powers # {}
  <2>1. \A k \in 0 .. Width - 1 : k \in 0 .. Width
    BY DEF MemoryConstants
  <2>2. Width - 1 \in 0 .. Width - 1
    BY DEF MemoryConstants
  <2>3. 2 ^ (Width - 1) \in Powers
    BY <2>1, <2>2 DEF MemoryConstants
  <2> QED BY <2>1, <2>3 DEF MemoryConstants
<1>2. Min(Powers) \in Nat
  <2> HIDE DEF Powers
  <2>1. Min(Powers) = CHOOSE n \in Powers : \A k \in Powers : n <= k
    BY DEF Min
  <2> QED BY <1>1, <2>1, LeastNumber
<1>3. power \in Int
  <2>1. 2 ^ Width \in Nat /\ 2 ^ (Width - 1) \in Nat
    BY DEF MemoryConstants
  <2> QED BY <1>2, <2>1 DEF nextP2
<1>4. newCapacity \in Int
  BY <1>3 DEF m_maxCapacity
<1>5. reserve(capacity, needed) = IF needed <= capacity THEN capacity
                                  ELSE IF newCapacity < needed THEN 0 ELSE newCapacity
  BY DEF reserve
<1> HIDE DEF newCapacity
<1> QED BY <1>4, <1>5

-----------------------------------------------------------------------------
\* A part of a sequence of numbers, and its first elements.
LEMMA PartOfNumbers ==
  ASSUME NEW s \in Seq(Nat), NEW p \in Nat, NEW m \in Nat, p + m <= Len(s)
  PROVE  /\ SubSeq(s, p + 1, p + m) \in Seq(Nat) /\ Len(SubSeq(s, p + 1, p + m)) = m
         /\ \A i \in 1 .. m : SubSeq(s, p + 1, p + m)[i] = s[p + i]
<1>1. /\ p + 1 \in Int /\ p + m \in Int
      /\ \A i \in p + 1 .. p + m : s[i] \in Nat
  OBVIOUS
<1>2. SubSeq(s, p + 1, p + m) \in Seq(Nat)
  BY <1>1, SubSeqProperties, SMTT(30)
<1>3. Len(SubSeq(s, p + 1, p + m)) = m
  BY <1>1, SMTT(30)
<1>4. \A i \in 1 .. m : SubSeq(s, p + 1, p + m)[i] = s[p + i]
  <2> TAKE i \in 1 .. m
  <2> QED BY SMTT(30)
<1> QED BY <1>2, <1>3, <1>4

LEMMA PrefixOfNumbers ==
  ASSUME NEW s \in Seq(Nat), NEW n \in Nat, n <= Len(s)
  PROVE  /\ SubSeq(s, 1, n) \in Seq(Nat) /\ Len(SubSeq(s, 1, n)) = n
         /\ \A i \in 1 .. n : SubSeq(s, 1, n)[i] = s[i]
<1>1. 0 + 1 = 1 /\ 0 + n = n /\ 0 \in Nat /\ \A i \in 1 .. n : 0 + i = i
  OBVIOUS
<1>2. /\ SubSeq(s, 0 + 1, 0 + n) \in Seq(Nat) /\ Len(SubSeq(s, 0 + 1, 0 + n)) = n
      /\ \A i \in 1 .. n : SubSeq(s, 0 + 1, 0 + n)[i] = s[0 + i]
  BY <1>1, PartOfNumbers, Zenon
<1> QED BY <1>1, <1>2, Zenon

\* What is peeked and what is left behind it are what was there.
LEMMA CutsMeet ==
  ASSUME NEW s \in Seq(Nat), NEW p \in 0 .. Len(s), NEW n \in Nat
  PROVE  LET m == Least(n, Len(s) - p) IN
         /\ m \in 0 .. Len(s) - p /\ m <= n
         /\ After(s, p) \in Seq(Nat) /\ Len(After(s, p)) = Len(s) - p
         /\ First(After(s, p), n) = SubSeq(s, p + 1, p + m)
         /\ First(After(s, p), n) \in Seq(Nat) /\ Len(First(After(s, p), n)) = m
         /\ First(After(s, p), n) \o After(s, p + m) = After(s, p)
<1> DEFINE m == Least(n, Len(s) - p)
           rest == SubSeq(s, p + 1, Len(s))
           front == SubSeq(rest, 1, m)
<1>1. m \in 0 .. Len(s) - p /\ m <= n
  BY DEF Least
<1>2. rest \in Seq(Nat) /\ Len(rest) = Len(s) - p
      /\ \A i \in 1 .. Len(s) - p : rest[i] = s[p + i]
  <2> DEFINE left == Len(s) - p
  <2>1. p \in Nat /\ left \in Nat /\ p + left <= Len(s) /\ p + left = Len(s)
    OBVIOUS
  <2> HIDE DEF left
  <2>2. /\ SubSeq(s, p + 1, p + left) \in Seq(Nat) /\ Len(SubSeq(s, p + 1, p + left)) = left
        /\ \A i \in 1 .. left : SubSeq(s, p + 1, p + left)[i] = s[p + i]
    BY <2>1, PartOfNumbers, Zenon
  <2>3. rest \in Seq(Nat) /\ Len(rest) = left /\ \A i \in 1 .. left : rest[i] = s[p + i]
    BY <2>1, <2>2, Zenon
  <2> QED BY <2>3 DEF left
<1>3. After(s, p) = rest /\ First(After(s, p), n) = front
  BY <1>2 DEF After, First
<1> HIDE DEF m
<1>4. front \in Seq(Nat) /\ Len(front) = m /\ \A i \in 1 .. m : front[i] = s[p + i]
  <2> HIDE DEF rest
  <2>1. m \in Nat /\ m <= Len(rest) /\ \A i \in 1 .. m : i \in 1 .. Len(s) - p
    BY <1>1, <1>2
  <2>2. front \in Seq(Nat) /\ Len(front) = m /\ \A i \in 1 .. m : front[i] = rest[i]
    BY <1>2, <2>1, PrefixOfNumbers, Zenon
  <2> HIDE DEF front
  <2> QED BY ONLY <1>2, <2>1, <2>2
<1>5. SubSeq(s, p + 1, p + m) \in Seq(Nat) /\ Len(SubSeq(s, p + 1, p + m)) = m
      /\ \A i \in 1 .. m : SubSeq(s, p + 1, p + m)[i] = s[p + i]
  <2>1. p \in Nat /\ m \in Nat /\ p + m <= Len(s)
    BY <1>1
  <2> QED BY <2>1, PartOfNumbers, Zenon
<1>6. front = SubSeq(s, p + 1, p + m)
  <2> HIDE DEF front
  <2> QED BY <1>4, <1>5, SeqEqual
<1>7. front \o After(s, p + m) = rest
  <2>1. /\ p + 1 \in 1 .. Len(s) + 1 /\ p + m \in (p + 1) - 1 .. Len(s)
        /\ Len(s) \in p + m .. Len(s)
    BY <1>1
  <2>2. \A i \in 1 .. Len(s) + 1 : \A k \in i - 1 .. Len(s) : \A j \in k .. Len(s) :
          SubSeq(s, i, k) \o SubSeq(s, k + 1, j) = SubSeq(s, i, j)
    BY ConcatAdjacentSubSeq, Zenon
  <2>3. SubSeq(s, p + 1, p + m) \o SubSeq(s, p + m + 1, Len(s)) = rest
    BY <2>1, <2>2, Zenon
  <2> QED BY <2>3, <1>6 DEF After
<1> HIDE DEF front, rest
<1> QED BY <1>1, <1>2, <1>3, <1>4, <1>5, <1>6, <1>7 DEF m

\* Concatenation of bytes is associative.
LEMMA AssociativeNat ==
  \A a, b, c \in Seq(Nat) : (a \o b) \o c = a \o (b \o c)
OBVIOUS

\* Concatenation of bytes, element by element, and nothing is its unit.
LEMMA ConcatNat ==
  /\ \A a, b \in Seq(Nat) :
       /\ a \o b \in Seq(Nat) /\ Len(a \o b) = Len(a) + Len(b)
       /\ \A i \in 1 .. Len(a) + Len(b) :
            (a \o b)[i] = IF i <= Len(a) THEN a[i] ELSE b[i - Len(a)]
  /\ <<>> \in Seq(Nat) /\ \A a \in Seq(Nat) : <<>> \o a = a /\ a \o <<>> = a
OBVIOUS

\* The first n of a sequence are as many, or all.
LEMMA FirstOf ==
  ASSUME NEW s \in Seq(Nat), NEW n \in Nat
  PROVE  /\ After(s, 0) = s
         /\ Least(n, Len(s)) \in 0 .. Len(s) /\ Least(n, Len(s)) <= n
         /\ First(s, n) = SubSeq(s, 1, Least(n, Len(s)))
         /\ First(s, n) \in Seq(Nat) /\ Len(First(s, n)) = Least(n, Len(s))
         /\ First(s, n) \o After(s, Least(n, Len(s))) = s
<1>1. SubSeq(s, 1, Len(s)) \in Seq(Nat) /\ Len(SubSeq(s, 1, Len(s))) = Len(s)
      /\ \A i \in 1 .. Len(s) : SubSeq(s, 1, Len(s))[i] = s[i]
  <2>1. Len(s) \in Nat /\ Len(s) <= Len(s)
    OBVIOUS
  <2> QED BY <2>1, PrefixOfNumbers, Zenon
<1>2. SubSeq(s, 1, Len(s)) = s
  BY <1>1, SeqEqual
<1>3. After(s, 0) = s
  BY <1>2 DEF After
<1>4. /\ Least(n, Len(s) - 0) \in 0 .. Len(s) - 0 /\ Least(n, Len(s) - 0) <= n
      /\ First(After(s, 0), n) = SubSeq(s, 0 + 1, 0 + Least(n, Len(s) - 0))
      /\ First(After(s, 0), n) \in Seq(Nat)
      /\ Len(First(After(s, 0), n)) = Least(n, Len(s) - 0)
      /\ First(After(s, 0), n) \o After(s, 0 + Least(n, Len(s) - 0)) = After(s, 0)
  <2>1. 0 \in 0 .. Len(s)
    OBVIOUS
  <2> QED BY <2>1, CutsMeet, Zenon
<1>5. Len(s) - 0 = Len(s)
  OBVIOUS
<1>6. 0 + Least(n, Len(s)) = Least(n, Len(s))
  BY <1>4, <1>5
<1>7. 0 + 1 = 1
  OBVIOUS
<1> QED BY <1>3, <1>4, <1>5, <1>6, <1>7

-----------------------------------------------------------------------------
(* The output.                                                              *)

\* Memory of a size.
LEMMA MemoryOfSize ==
  ASSUME NEW size \in Nat
  PROVE  Memory(size) \in Seq(Nat) /\ Len(Memory(size)) = size
BY DEF Memory, Fresh

\* What a stream is constructed with.
LEMMA ConstructedEmpty ==
  ASSUME MemoryConstants, NEW c \in Capacities
  PROVE  LET o == constructed(c) IN
         /\ o \in [data : Seq(Nat), position : Nat, onHeap : BOOLEAN]
         /\ o.position = 0 /\ Len(o.data) >= StackSize
         /\ o.onHeap <=> Len(o.data) > StackSize
         /\ SubSeq(o.data, 1, 0) = <<>>
<1> DEFINE size == IF c > StackSize THEN c ELSE StackSize
<1>1. size \in Nat /\ size >= StackSize /\ (size > StackSize <=> c > StackSize)
      /\ (c > StackSize) \in BOOLEAN
  BY DEF MemoryConstants
<1>2. constructed(c) = [data |-> Memory(size), position |-> 0, onHeap |-> c > StackSize]
  BY DEF constructed
<1> HIDE DEF size
<1>3. Memory(size) \in Seq(Nat) /\ Len(Memory(size)) = size
  BY <1>1, MemoryOfSize
<1>4. SubSeq(Memory(size), 1, 0) = <<>>
  BY <1>3
<1>5. /\ constructed(c) \in [data : Seq(Nat), position : Nat, onHeap : BOOLEAN]
      /\ constructed(c).data = Memory(size) /\ constructed(c).position = 0
      /\ constructed(c).onHeap = (c > StackSize)
  BY <1>1, <1>2, <1>3
<1> QED BY <1>1, <1>3, <1>4, <1>5

LEMMA OutputInit ==
  ASSUME MemoryConstants, MemoryInit
  PROVE  OutputInv
<1>1. PICK c \in Capacities : out = constructed(c)
  BY DEF MemoryInit
<1> QED BY <1>1, ConstructedEmpty DEF MemoryInit, OutputInv, MemoryConstants

LEMMA ResetKeeps ==
  ASSUME MemoryConstants, OutputInv, reset
  PROVE  OutputInv'
<1>1. PICK c \in Capacities : out' = constructed(c) /\ text' = <<>> /\ turn' = turn + 1
  BY DEF reset, Start
<1> QED BY <1>1, ConstructedEmpty DEF OutputInv, MemoryConstants

LEMMA RewindKeeps ==
  ASSUME MemoryConstants, OutputInv, rewind
  PROVE  OutputInv'
<1>1. /\ out' \in [data : Seq(Nat), position : Nat, onHeap : BOOLEAN]
      /\ out'.data = out.data /\ out'.position = 0 /\ out'.onHeap = out.onHeap
      /\ text' = <<>> /\ turn' = turn + 1
  BY DEF rewind, OutputInv
<1>2. SubSeq(out.data, 1, 0) = <<>>
  BY DEF OutputInv
<1> QED BY <1>1, <1>2 DEF OutputInv, MemoryConstants

\* The bytes of one call are numbers.
LEMMA BytesOfCall ==
  ASSUME MemoryConstants, turn \in Nat, NEW from \in Nat, NEW count \in Nat
  PROVE  LET bytes == [k \in 1 .. count |-> Byte(from + k)] IN
         bytes \in Seq(Nat) /\ Len(bytes) = count
<1>1. turn * (MaxText + 1) \in Nat
  BY DEF MemoryConstants
<1>2. \A k \in 1 .. count : Byte(from + k) \in Nat
  BY <1>1 DEF Byte
<1> QED BY <1>2

LEMMA WriteKeeps ==
  ASSUME MemoryConstants, OutputInv, NEW count \in Counts, write(count)
  PROVE  OutputInv'
<1> DEFINE pos    == out.position
           needed == pos + count
           size   == reserve(Len(out.data), needed)
           kept   == IF size = Len(out.data) THEN out.data
                     ELSE First(out.data, pos) \o Memory(size - pos)
           bytes  == [k \in 1 .. count |-> Byte(Len(text) + k)]
           new    == [i \in 1 .. size |-> IF i > pos /\ i <= needed
                                          THEN bytes[i - pos] ELSE kept[i]]
<1>1. /\ out.data \in Seq(Nat) /\ Len(out.data) \in Nat /\ pos \in 0 .. Len(out.data)
      /\ out.onHeap \in BOOLEAN
      /\ count \in Nat /\ needed \in Nat
      /\ text \in Seq(Nat) /\ Len(text) = pos /\ \A i \in 1 .. pos : text[i] = out.data[i]
  BY DEF OutputInv, MemoryConstants
<1>2. needed <= MaxText /\ needed <= 2 ^ (Width - 1)
  BY <1>1 DEF write, MemoryConstants
<1>3. /\ size \in Nat
      /\ size # 0 => size >= needed /\ size >= Len(out.data)
      /\ size # 0 => (size = Len(out.data) <=> needed <= Len(out.data))
  BY <1>1, <1>2, ReserveFits
<1>4. CASE size = 0
  BY <1>4 DEF write, OutputInv
<1>5. CASE size # 0
  <2>1. /\ out' = [data |-> new, position |-> needed,
                   onHeap |-> out.onHeap \/ needed > Len(out.data)]
        /\ text' = text \o bytes /\ turn' = turn
    BY <1>5 DEF write
  <2>2. bytes \in Seq(Nat) /\ Len(bytes) = count
    <3>1. turn \in Nat
      BY DEF OutputInv
    <3>2. Len(text) \in Nat /\ count \in Nat
      BY <1>1
    <3> QED BY <3>1, <3>2, BytesOfCall, Zenon
  <2> HIDE DEF size, bytes
  <2>3. kept \in Seq(Nat) /\ Len(kept) = size /\ \A i \in 1 .. pos : kept[i] = out.data[i]
    <3>1. CASE size = Len(out.data)
      BY <3>1, <1>1
    <3>2. CASE size # Len(out.data)
      <4>1. First(out.data, pos) \in Seq(Nat) /\ Len(First(out.data, pos)) = pos
            /\ \A i \in 1 .. pos : First(out.data, pos)[i] = out.data[i]
        <5>1. First(out.data, pos) = SubSeq(out.data, 1, pos)
          BY ONLY <1>1 DEF First, Least
        <5>2. pos \in Nat /\ pos <= Len(out.data) /\ out.data \in Seq(Nat)
          BY <1>1
        <5>3. /\ SubSeq(out.data, 1, pos) \in Seq(Nat)
              /\ Len(SubSeq(out.data, 1, pos)) = pos
              /\ \A i \in 1 .. pos : SubSeq(out.data, 1, pos)[i] = out.data[i]
          BY <5>2, PrefixOfNumbers, Zenon
        <5> QED BY ONLY <5>1, <5>3
      <4>2. size - pos \in Nat
        BY <1>1, <1>3, <1>5
      <4>3. Memory(size - pos) \in Seq(Nat) /\ Len(Memory(size - pos)) = size - pos
        BY <4>2, MemoryOfSize
      <4>4. kept = First(out.data, pos) \o Memory(size - pos)
        BY <3>2
      <4> HIDE DEF kept
      <4>5. pos + (size - pos) = size /\ \A i \in 1 .. pos : i \in 1 .. size
        BY <1>1, <1>3, <4>2
      <4> DEFINE front == First(out.data, pos)
                 back  == Memory(size - pos)
      <4>6. /\ front \o back \in Seq(Nat) /\ Len(front \o back) = Len(front) + Len(back)
            /\ \A i \in 1 .. Len(front) + Len(back) : (front \o back)[i] =
                 IF i <= Len(front) THEN front[i] ELSE back[i - Len(front)]
        BY <4>1, <4>3, ConcatNat, Zenon
      <4> HIDE DEF front, back
      <4>7. /\ kept = front \o back /\ Len(front) = pos /\ Len(back) = size - pos
            /\ \A i \in 1 .. pos : front[i] = out.data[i]
        BY <4>1, <4>3, <4>4 DEF front, back
      <4> QED BY <4>5, <4>6, <4>7, <1>1
    <3> QED BY <3>1, <3>2
  <2> HIDE DEF kept
  <2>4. /\ new \in Seq(Nat) /\ Len(new) = size
        /\ \A i \in 1 .. size : new[i] = IF i > pos /\ i <= needed
                                         THEN bytes[i - pos] ELSE kept[i]
    <3>1. \A i \in 1 .. size : i > pos /\ i <= needed => i - pos \in 1 .. count
      BY <1>1
    <3>2. \A i \in 1 .. size : new[i] \in Nat
      <4>1. \A j \in 1 .. count : bytes[j] \in Nat
        BY ONLY <1>1, <2>2
      <4>2. \A i \in 1 .. size : kept[i] \in Nat
        BY ONLY <1>3, <2>3
      <4> QED BY <3>1, <4>1, <4>2
    <3>3. new = [i \in 1 .. size |-> new[i]] /\ size \in Nat
      BY <1>3
    <3>4. \A i \in 1 .. size : new[i] = IF i > pos /\ i <= needed
                                       THEN bytes[i - pos] ELSE kept[i]
      OBVIOUS
    <3> HIDE DEF new
    <3> QED BY ONLY <3>2, <3>3, <3>4
  <2> HIDE DEF new
  <2>5. text \o bytes = SubSeq(new, 1, needed)
    <3>1. /\ text \o bytes \in Seq(Nat) /\ Len(text \o bytes) = needed
          /\ \A i \in 1 .. needed :
               (text \o bytes)[i] = IF i <= pos THEN text[i] ELSE bytes[i - pos]
      <4>1. /\ text \o bytes \in Seq(Nat) /\ Len(text \o bytes) = Len(text) + Len(bytes)
            /\ \A i \in 1 .. Len(text) + Len(bytes) : (text \o bytes)[i] =
                 IF i <= Len(text) THEN text[i] ELSE bytes[i - Len(text)]
        BY <1>1, <2>2, ConcatNat, Zenon
      <4> QED BY <4>1, <1>1, <2>2
    <3>2. /\ SubSeq(new, 1, needed) \in Seq(Nat) /\ Len(SubSeq(new, 1, needed)) = needed
          /\ \A i \in 1 .. needed : SubSeq(new, 1, needed)[i] = new[i]
      <4>1. needed \in Nat /\ needed <= Len(new)
        BY <1>1, <1>3, <1>5, <2>4
      <4> QED BY <4>1, <2>4, PrefixOfNumbers, Zenon
    <3>3. \A i \in 1 .. needed : new[i] = IF i <= pos THEN text[i] ELSE bytes[i - pos]
      <4>1. needed <= size /\ pos <= needed
        BY <1>1, <1>3, <1>5
      <4>2. ASSUME NEW i \in 1 .. needed
            PROVE  new[i] = IF i <= pos THEN text[i] ELSE bytes[i - pos]
        <5>1. i \in 1 .. size
          BY ONLY <1>1, <1>3, <4>1, i \in 1 .. needed
        <5>2. new[i] = IF i > pos /\ i <= needed THEN bytes[i - pos] ELSE kept[i]
          BY ONLY <2>4, <5>1
        <5>3. CASE i <= pos
          <6>1. i \in 1 .. pos /\ ~ (i > pos)
            BY ONLY <5>3, <1>1, i \in 1 .. needed
          <6>2. kept[i] = out.data[i] /\ text[i] = out.data[i]
            BY ONLY <6>1, <1>1, <2>3
          <6> QED BY ONLY <5>2, <5>3, <6>1, <6>2
        <5>4. CASE ~ (i <= pos)
          <6>1. i > pos /\ i <= needed
            BY ONLY <5>4, <1>1, i \in 1 .. needed
          <6> QED BY ONLY <5>2, <5>4, <6>1
        <5> QED BY <5>3, <5>4
      <4> QED BY <4>2
    <3>4. \A i \in 1 .. needed : (text \o bytes)[i] = SubSeq(new, 1, needed)[i]
      BY <3>1, <3>2, <3>3
    <3> QED BY <3>1, <3>2, <3>4, SeqEqual
  <2>6. size >= StackSize
        /\ ((out.onHeap \/ needed > Len(out.data)) <=> size > StackSize)
    BY <1>1, <1>3, <1>5 DEF OutputInv, MemoryConstants
  <2> QED
    BY <2>1, <2>4, <2>5, <2>6, <1>1, <1>2, <1>3, <1>5 DEF OutputInv
<1> QED BY <1>4, <1>5

LEMMA OutputStep ==
  ASSUME MemoryConstants, OutputInv, [MemoryNext]_memoryVars
  PROVE  OutputInv'
<1>1. CASE \E n \in Counts : write(n)
  BY <1>1, WriteKeeps
<1>2. CASE reset
  BY <1>2, ResetKeeps
<1>3. CASE rewind
  BY <1>3, RewindKeeps
<1>4. CASE UNCHANGED <<out, text, turn>>
  BY <1>4 DEF OutputInv
<1>5. \A n \in Counts : feed(n) \/ readFromStreamAndWrite(n) \/ read(n) \/ peekAndCommit(n)
                           => UNCHANGED <<out, text, turn>>
  BY DEF feed, readFromStreamAndWrite, read, peekAndCommit
<1>6. hand \/ UNCHANGED memoryVars => UNCHANGED <<out, text, turn>>
  BY DEF hand, memoryVars
<1> QED BY <1>1, <1>2, <1>3, <1>4, <1>5, <1>6 DEF MemoryNext

\* The output holds the text, in memory that it owns as it says.
LEMMA OutputKeepsText ==
  ASSUME MemoryConstants, OutputInv
  PROVE  TextKept /\ toString \in Seq(Nat) /\ Len(toString) <= MaxText
<1>1. /\ out.data \in Seq(Nat) /\ out.position \in 0 .. Len(out.data)
      /\ text = SubSeq(out.data, 1, out.position)
      /\ text \in Seq(Nat) /\ Len(text) = out.position
      /\ \A i \in 1 .. Len(text) : text[i] = out.data[i]
  BY DEF OutputInv
<1>2. toString = text
  BY <1>1 DEF toString, First, Least
<1>3. ASSUME NEW pos \in 0 .. Len(text), NEW count \in Counts
      PROVE  getSubstring(pos, count) = First(After(text, pos), count)
  <2> DEFINE m == Least(count, Len(text) - pos)
             end == IF pos + count <= out.position THEN pos + count ELSE out.position
  <2>1. count \in Nat
    BY DEF MemoryConstants
  <2>2. m \in 0 .. Len(text) - pos /\ First(After(text, pos), count) = SubSeq(text, pos + 1, pos + m)
    BY <1>1, <2>1, CutsMeet
  <2>3. end = pos + m
    <3>1. out.position = Len(text) /\ Len(text) \in Nat /\ pos \in 0 .. Len(text)
      BY <1>1
    <3>2. CASE pos + count <= Len(text)
      <4>1. m = count
        BY <2>1, <3>1, <3>2 DEF Least
      <4> QED BY <2>1, <3>1, <3>2, <4>1
    <3>3. CASE ~ (pos + count <= Len(text))
      <4>1. m = Len(text) - pos
        BY <2>1, <3>1, <3>3 DEF Least
      <4> QED BY <2>1, <3>1, <3>3, <4>1
    <3> QED BY <3>2, <3>3
  <2> HIDE DEF m
  <2>8. /\ pos + 1 \in Nat /\ pos + m \in 0 .. Len(text) /\ pos + m <= Len(out.data)
        /\ pos \in Nat /\ m \in Nat /\ pos + m <= Len(text)
        /\ text \in Seq(Nat) /\ out.data \in Seq(Nat)
    BY <1>1, <2>2 DEF OutputInv
  <2>4. /\ SubSeq(text, pos + 1, pos + m) \in Seq(Nat)
        /\ Len(SubSeq(text, pos + 1, pos + m)) = m
        /\ \A i \in 1 .. m : SubSeq(text, pos + 1, pos + m)[i] = text[pos + i]
    BY <2>8, PartOfNumbers, Zenon
  <2>5. /\ SubSeq(out.data, pos + 1, pos + m) \in Seq(Nat)
        /\ Len(SubSeq(out.data, pos + 1, pos + m)) = m
        /\ \A i \in 1 .. m : SubSeq(out.data, pos + 1, pos + m)[i] = out.data[pos + i]
    BY <2>8, PartOfNumbers, Zenon
  <2>6. \A i \in 1 .. m : text[pos + i] = out.data[pos + i]
    <3>1. \A i \in 1 .. m : pos + i \in 1 .. Len(text)
      BY <1>1, <2>2
    <3> QED BY <3>1, <1>1
  <2>7. SubSeq(out.data, pos + 1, pos + m) = SubSeq(text, pos + 1, pos + m)
    BY <2>4, <2>5, <2>6, SeqEqual
  <2> QED BY <2>2, <2>3, <2>7 DEF getSubstring
<1>4. out.onHeap <=> Len(out.data) > StackSize
  BY DEF OutputInv
<1>5. Len(text) <= MaxText
  BY <1>1 DEF OutputInv
<1> QED BY <1>1, <1>2, <1>3, <1>4, <1>5 DEF TextKept

-----------------------------------------------------------------------------
(* The input and what goes through the FIFO stream.                         *)

LEMMA InputInit ==
  ASSUME MemoryConstants, MemoryInit
  PROVE  InputInv
<1>1. /\ in = [data |-> <<>>, position |-> 0]
      /\ fifoStream = [queue |-> <<>>, size |-> 1] /\ got = <<>>
  BY DEF MemoryInit
<1>2. <<>> \in Seq(Nat) /\ Len(<<>>) = 0 /\ <<>> \o <<>> = <<>> /\ SubSeq(<<>>, 1, 0) = <<>>
  OBVIOUS
<1> QED BY <1>1, <1>2 DEF InputInv, PassedOn, After, MemoryConstants

\* What is peeked is at most what is asked for, and the rest is behind it.
LEMMA Peeked ==
  ASSUME InputInv, NEW count \in Nat
  PROVE  LET m == Least(count, availableToRead) IN
         /\ m \in 0 .. Len(in.data) - in.position /\ m <= count
         /\ peek(count) \in Seq(Nat) /\ Len(peek(count)) = m
         /\ peek(count) \o After(in.data, in.position + m) = After(in.data, in.position)
         /\ Committed(count) = [data |-> in.data, position |-> in.position + m]
         /\ Committed(m) = [data |-> in.data, position |-> in.position + m]
<1>1. in.data \in Seq(Nat) /\ in.position \in 0 .. Len(in.data)
      /\ in \in [data : Seq(Nat), position : Nat]
  BY DEF InputInv
<1>2. availableToRead = Len(in.data) - in.position
  BY DEF availableToRead
<1>3. /\ Least(count, Len(in.data) - in.position) \in 0 .. Len(in.data) - in.position
      /\ Least(Least(count, Len(in.data) - in.position), Len(in.data) - in.position)
           = Least(count, Len(in.data) - in.position)
  BY <1>1 DEF Least
<1>4. /\ Committed(count) = [data |-> in.data, position |-> in.position +
                               Least(count, Len(in.data) - in.position)]
      /\ Committed(Least(count, Len(in.data) - in.position)) =
           [data |-> in.data, position |-> in.position +
                               Least(count, Len(in.data) - in.position)]
  BY <1>1, <1>2, <1>3 DEF Committed
<1> QED BY <1>1, <1>2, <1>4, CutsMeet DEF peek

\* A reservation of the FIFO stream's, for as many bytes as a call is about.
LEMMA RingReserved ==
  ASSUME MemoryConstants, InputInv, NEW count \in Counts, NEW n \in 0 .. count
  PROVE  /\ Reserved(n) \in Nat
         /\ Reserved(n) # 0 => Reserved(n) >= Len(fifoStream.queue) + n
<1>1. /\ fifoStream.queue \in Seq(Nat) /\ fifoStream.size \in Nat /\ count \in Nat
      /\ got \in Seq(Nat) /\ After(in.data, in.position) \in Seq(Nat)
      /\ in.data \in Seq(Nat) /\ Len(in.data) <= MaxText
      /\ got \o fifoStream.queue \o After(in.data, in.position) = in.data
  <2>1. in.data \in Seq(Nat) /\ in.position \in 0 .. Len(in.data) /\ 0 \in Nat
    BY DEF InputInv
  <2>2. After(in.data, in.position) \in Seq(Nat)
    BY <2>1, CutsMeet
  <2> QED BY <2>1, <2>2 DEF InputInv, PassedOn, MemoryConstants
<1>2. Len(in.data) = Len(got) + Len(fifoStream.queue) + Len(After(in.data, in.position))
  <2>1. /\ got \o fifoStream.queue \in Seq(Nat)
        /\ Len(got \o fifoStream.queue) = Len(got) + Len(fifoStream.queue)
    BY <1>1, ConcatNat
  <2>2. Len((got \o fifoStream.queue) \o After(in.data, in.position))
          = Len(got \o fifoStream.queue) + Len(After(in.data, in.position))
    BY <1>1, <2>1, ConcatNat
  <2> QED BY <1>1, <2>1, <2>2
<1>3. Len(fifoStream.queue) <= MaxText
  <2>1. \A i, j, k, l \in Nat : i = j + k + l => k <= i
    OBVIOUS
  <2>2. /\ Len(got) \in Nat /\ Len(fifoStream.queue) \in Nat
        /\ Len(After(in.data, in.position)) \in Nat /\ Len(in.data) \in Nat
    BY <1>1
  <2>3. Len(fifoStream.queue) <= Len(in.data)
    BY <1>2, <2>1, <2>2, Zenon
  <2> QED BY <1>1, <2>2, <2>3 DEF MemoryConstants
<1>4. Len(fifoStream.queue) + n \in Nat /\ Len(fifoStream.queue) + n <= 2 ^ (Width - 1)
  <2>1. MaxText \in Nat /\ MaxText + count <= 2 ^ (Width - 1) /\ 2 ^ (Width - 1) \in Nat
    <3>1. Width - 1 \in 0 .. Width
      BY DEF MemoryConstants
    <3> QED BY <3>1 DEF MemoryConstants
  <2> QED BY <1>1, <1>3, <2>1
<1> QED BY <1>1, <1>4, ReserveFits DEF Reserved

\* Concatenation, under a name that the provers leave alone.
Joined(a, b) == a \o b

LEMMA Joining ==
  /\ \A a, b \in Seq(Nat) : Joined(a, b) \in Seq(Nat)
  /\ \A a, b, c \in Seq(Nat) : Joined(Joined(a, b), c) = Joined(a, Joined(b, c))
  /\ \A a \in Seq(Nat) : Joined(a, <<>>) = a
  /\ <<>> \in Seq(Nat)
<1>1. \A a, b \in Seq(Nat) : Joined(a, b) \in Seq(Nat)
  BY ConcatNat DEF Joined
<1>2. \A a, b, c \in Seq(Nat) : Joined(Joined(a, b), c) = Joined(a, Joined(b, c))
  BY AssociativeNat DEF Joined
<1> QED BY <1>1, <1>2, ConcatNat DEF Joined

\* Bytes that leave one place for the next leave the whole as it is.
LEMMA Passes ==
  ASSUME NEW a \in Seq(Nat), NEW b \in Seq(Nat), NEW x \in Seq(Nat), NEW y \in Seq(Nat)
  PROVE  /\ Joined(Joined(a, Joined(b, x)), y) = Joined(Joined(a, b), Joined(x, y))
         /\ Joined(Joined(Joined(a, x), y), b) = Joined(Joined(a, Joined(x, y)), b)
         /\ Joined(Joined(Joined(a, x), <<>>), y) = Joined(Joined(a, <<>>), Joined(x, y))
BY Joining

\* The new state of the input's side, from what it holds.
LEMMA InputHolds ==
  ASSUME InputInv, NEW p \in Nat, p <= Len(in.data), NEW queue \in Seq(Nat),
         NEW size \in Nat, Len(queue) <= size,
         in' = [data |-> in.data, position |-> p],
         fifoStream' = [queue |-> queue, size |-> size], got' \in Seq(Nat),
         got' \o queue \o After(in.data, p)
           = got \o fifoStream.queue \o After(in.data, in.position)
  PROVE  InputInv'
<1>1. /\ in' \in [data : Seq(Nat), position : Nat] /\ in'.data = in.data /\ in'.position = p
      /\ fifoStream' \in [queue : Seq(Nat), size : Nat]
      /\ fifoStream'.queue = queue /\ fifoStream'.size = size
  BY DEF InputInv
<1> QED BY <1>1 DEF InputInv, PassedOn

LEMMA InputFacts ==
  ASSUME InputInv
  PROVE  /\ in = [data |-> in.data, position |-> in.position]
         /\ in.data \in Seq(Nat) /\ in.position \in 0 .. Len(in.data)
         /\ fifoStream = [queue |-> fifoStream.queue, size |-> fifoStream.size]
         /\ fifoStream.queue \in Seq(Nat) /\ fifoStream.size \in Nat
         /\ Len(fifoStream.queue) <= fifoStream.size
         /\ got \in Seq(Nat)
         /\ \A p \in 0 .. Len(in.data) : After(in.data, p) \in Seq(Nat)
<1>1. in.data \in Seq(Nat) /\ 0 \in Nat
  BY DEF InputInv
<1>2. \A p \in 0 .. Len(in.data) : After(in.data, p) \in Seq(Nat)
  BY <1>1, CutsMeet
<1> QED BY <1>2 DEF InputInv, PassedOn

LEMMA FeedKeeps ==
  ASSUME MemoryConstants, InputInv, NEW count \in Counts, feed(count)
  PROVE  InputInv'
<1> DEFINE bytes == peek(count)
           m     == Least(count, availableToRead)
           p     == in.position + m
           size  == Reserved(Len(bytes))
           taken == First(bytes, size - Len(fifoStream.queue))
<1>0. count \in Nat
  BY DEF MemoryConstants
<1>1. /\ m \in 0 .. Len(in.data) - in.position /\ m <= count
      /\ bytes \in Seq(Nat) /\ Len(bytes) = m
      /\ bytes \o After(in.data, p) = After(in.data, in.position)
      /\ Committed(m) = [data |-> in.data, position |-> p]
  BY <1>0, Peeked
<1>2. p \in 0 .. Len(in.data)
  BY <1>1, InputFacts
<1>3. CASE size = 0
  <2>1. UNCHANGED <<in, fifoStream, got>>
    BY <1>3 DEF feed
  <2> QED BY <2>1 DEF InputInv, PassedOn
<1>4. CASE size # 0
  <2>1. m \in 0 .. count
    BY <1>0, <1>1
  <2>2. size \in Nat /\ size >= Len(fifoStream.queue) + m
    BY <2>1, <1>1, <1>4, RingReserved
  <2>3. taken = bytes
    <3>1. size - Len(fifoStream.queue) \in Nat /\ Least(size - Len(fifoStream.queue), m) = m
      BY <2>2, <1>1, InputFacts DEF Least
    <3>2. taken = SubSeq(bytes, 1, m)
      BY <3>1, <1>1, FirstOf
    <3> QED BY <3>2, <1>1, SubSeqFull, Zenon
  <2>4. /\ fifoStream' = [queue |-> fifoStream.queue \o bytes, size |-> size]
        /\ in' = [data |-> in.data, position |-> p] /\ got' = got
    BY <1>1, <1>4, <2>3 DEF feed
  <2> HIDE DEF bytes, p, size, taken, m
  <2>5. /\ got \o (fifoStream.queue \o bytes) \o After(in.data, p)
             = got \o fifoStream.queue \o After(in.data, in.position)
        /\ fifoStream.queue \o bytes \in Seq(Nat)
    <3>1. /\ got \in Seq(Nat) /\ fifoStream.queue \in Seq(Nat)
          /\ After(in.data, p) \in Seq(Nat)
      BY <1>2, InputFacts
    <3>2. Joined(fifoStream.queue, bytes) \in Seq(Nat)
      BY <1>1, <3>1, Joining
    <3>3. Joined(bytes, After(in.data, p)) = After(in.data, in.position)
      BY <1>1 DEF Joined
    <3>4. Joined(Joined(got, Joined(fifoStream.queue, bytes)), After(in.data, p))
            = Joined(Joined(got, fifoStream.queue), After(in.data, in.position))
      BY <1>1, <3>1, <3>3, Passes
    <3> QED BY <3>2, <3>4 DEF Joined
  <2>6. Len(fifoStream.queue \o bytes) = Len(fifoStream.queue) + m
    BY <1>1, InputFacts, ConcatNat
  <2> QED
    <3>1. Len(fifoStream.queue \o bytes) <= size
      BY <2>2, <2>6
    <3>2. p \in Nat /\ p <= Len(in.data) /\ got' \in Seq(Nat)
      BY <1>2, <2>4, InputFacts
    <3> QED BY <2>2, <2>4, <2>5, <3>1, <3>2, InputHolds
<1> QED BY <1>3, <1>4

LEMMA ReadFromKeeps ==
  ASSUME MemoryConstants, InputInv, NEW count \in Counts, readFromStreamAndWrite(count)
  PROVE  InputInv'
<1> DEFINE size == Reserved(count)
<1>1. count \in Nat /\ count \in 0 .. count
  BY DEF MemoryConstants
<1>2. size \in Nat /\ (size # 0 => size >= Len(fifoStream.queue) + count)
  BY <1>1, RingReserved
<1>3. CASE size = 0 \/ count = 0 \/ availableToRead = 0
  <2> DEFINE new == IF size = 0 THEN fifoStream.size ELSE size
  <2>1. /\ in' = in /\ got' = got
        /\ fifoStream' = [fifoStream EXCEPT !.size = IF size = 0 THEN @ ELSE size]
    BY <1>3 DEF readFromStreamAndWrite
  <2>2. fifoStream' = [queue |-> fifoStream.queue, size |-> new]
    BY <2>1, InputFacts
  <2>3. new \in Nat /\ Len(fifoStream.queue) <= new
    BY <1>1, <1>2, InputFacts
  <2>4. in' = [data |-> in.data, position |-> in.position]
    BY <2>1, InputFacts
  <2>5. in.position \in Nat /\ in.position <= Len(in.data)
    BY InputFacts
  <2>6. got' \in Seq(Nat) /\ fifoStream.queue \in Seq(Nat)
    BY <2>1, InputFacts
  <2>7. got' \o fifoStream.queue \o After(in.data, in.position)
          = got \o fifoStream.queue \o After(in.data, in.position)
    BY <2>1
  <2> HIDE DEF new, size
  <2> QED BY <2>2, <2>3, <2>4, <2>5, <2>6, <2>7, InputHolds
<1>4. CASE ~ (size = 0 \/ count = 0 \/ availableToRead = 0)
  <2>1. PICK n \in 1 .. Least(count, availableToRead) :
          /\ fifoStream' = [queue |-> fifoStream.queue \o peek(n), size |-> size]
          /\ in' = Committed(n) /\ got' = got
    BY <1>4 DEF readFromStreamAndWrite
  <2>2. /\ Least(count, availableToRead) \in 0 .. Len(in.data) - in.position
        /\ Least(count, availableToRead) <= count
    BY <1>1, Peeked
  <2>3. availableToRead = Len(in.data) - in.position /\ availableToRead \in Nat
    BY InputFacts DEF availableToRead
  <2>4. n \in Nat /\ n <= count /\ n <= availableToRead
    BY <1>1, <2>2, <2>3
  <2>5. Least(n, availableToRead) = n
    BY <2>3, <2>4 DEF Least
  <2> DEFINE p == in.position + n
             bytes == peek(n)
  <2>6. /\ bytes \in Seq(Nat) /\ Len(bytes) = n
        /\ bytes \o After(in.data, p) = After(in.data, in.position)
        /\ in' = [data |-> in.data, position |-> p]
    BY <2>1, <2>4, <2>5, Peeked
  <2>7. p \in 0 .. Len(in.data) /\ p \in Nat /\ p <= Len(in.data)
    BY <2>3, <2>4, InputFacts
  <2>8. size \in Nat /\ fifoStream' = [queue |-> fifoStream.queue \o bytes, size |-> size]
    BY <1>2, <2>1
  <2> HIDE DEF p, bytes, size
  <2>9. /\ got \o (fifoStream.queue \o bytes) \o After(in.data, p)
             = got \o fifoStream.queue \o After(in.data, in.position)
        /\ fifoStream.queue \o bytes \in Seq(Nat)
    <3>1. /\ got \in Seq(Nat) /\ fifoStream.queue \in Seq(Nat)
          /\ After(in.data, p) \in Seq(Nat)
      BY <2>7, InputFacts
    <3>2. Joined(fifoStream.queue, bytes) \in Seq(Nat)
      BY <2>6, <3>1, Joining
    <3>3. Joined(bytes, After(in.data, p)) = After(in.data, in.position)
      BY <2>6 DEF Joined
    <3>4. Joined(Joined(got, Joined(fifoStream.queue, bytes)), After(in.data, p))
            = Joined(Joined(got, fifoStream.queue), After(in.data, in.position))
      BY <2>6, <3>1, <3>3, Passes
    <3> QED BY <3>2, <3>4 DEF Joined
  <2>10. Len(fifoStream.queue \o bytes) = Len(fifoStream.queue) + n
    BY <2>6, InputFacts, ConcatNat
  <2>11. Len(fifoStream.queue \o bytes) <= size
    BY <1>1, <1>2, <1>4, <2>4, <2>10, InputFacts
  <2>12. got' = got /\ got' \in Seq(Nat)
    BY <2>1, InputFacts
  <2> QED BY <2>6, <2>7, <2>8, <2>9, <2>11, <2>12, InputHolds
<1> QED BY <1>3, <1>4

\* The queue's first n go out.
LEMMA TakesFirst ==
  ASSUME InputInv, NEW n \in Nat,
         in' = in, fifoStream' = [fifoStream EXCEPT !.queue = After(@, n)],
         got' = got \o First(fifoStream.queue, n)
  PROVE  InputInv'
<1> DEFINE queue == fifoStream.queue
           front == First(queue, n)
           m     == Least(n, Len(queue))
<1>1. queue \in Seq(Nat)
  BY InputFacts
<1>2. /\ m \in 0 .. Len(queue) /\ front \in Seq(Nat) /\ front \o After(queue, m) = queue
  BY <1>1, FirstOf
<1>3. After(queue, n) = After(queue, m)
  <2>1. CASE n <= Len(queue)
    BY <2>1, <1>1 DEF Least
  <2>2. CASE n > Len(queue)
    <3>1. SubSeq(queue, n + 1, Len(queue)) = <<>> /\ SubSeq(queue, Len(queue) + 1, Len(queue)) = <<>>
      BY <2>2, <1>1
    <3> QED BY <2>2, <3>1, <1>1 DEF Least, After
  <2> QED BY <2>1, <2>2, <1>1
<1>4. After(queue, m) \in Seq(Nat) /\ Len(After(queue, m)) = Len(queue) - m
  <2>1. 0 \in Nat
    OBVIOUS
  <2> QED BY <2>1, <1>1, <1>2, CutsMeet
<1>5. /\ in' = [data |-> in.data, position |-> in.position]
      /\ fifoStream' = [queue |-> After(queue, m), size |-> fifoStream.size]
  BY <1>3, InputFacts
<1> HIDE DEF front, queue, m
<1>6. got \o queue \o After(in.data, in.position)
        = got' \o After(queue, m) \o After(in.data, in.position)
  <2>1. got \in Seq(Nat) /\ After(in.data, in.position) \in Seq(Nat)
    BY InputFacts
  <2>2. Joined(front, After(queue, m)) = queue
    BY <1>2 DEF Joined
  <2>3. Joined(Joined(Joined(got, front), After(queue, m)), After(in.data, in.position))
          = Joined(Joined(got, queue), After(in.data, in.position))
    BY <2>1, <2>2, <1>2, <1>4, Passes
  <2> QED BY <2>3 DEF Joined, front, queue
<1>7. got' \in Seq(Nat)
  BY <1>2, InputFacts, ConcatNat DEF front, queue
<1>8. Len(After(queue, m)) <= fifoStream.size /\ fifoStream.size \in Nat
  BY <1>1, <1>2, <1>4, InputFacts DEF queue
<1>9. in.position \in Nat /\ in.position <= Len(in.data)
  BY InputFacts
<1>10. got' \o After(queue, m) \o After(in.data, in.position)
         = got \o fifoStream.queue \o After(in.data, in.position)
  BY <1>6 DEF queue
<1> DEFINE rest == After(queue, m)
<1> HIDE DEF rest
<1>11. /\ rest \in Seq(Nat) /\ Len(rest) <= fifoStream.size
       /\ fifoStream' = [queue |-> rest, size |-> fifoStream.size]
       /\ got' \o rest \o After(in.data, in.position)
            = got \o fifoStream.queue \o After(in.data, in.position)
  BY <1>4, <1>5, <1>8, <1>10 DEF rest
<1> QED BY <1>5, <1>7, <1>8, <1>9, <1>11, InputHolds

LEMMA ReadKeeps ==
  ASSUME MemoryConstants, InputInv, NEW count \in Counts, read(count)
  PROVE  InputInv'
<1>1. count \in Nat
  BY DEF MemoryConstants
<1>2. CASE fifoStream.queue # <<>>
  <2>1. /\ in' = in /\ fifoStream' = [fifoStream EXCEPT !.queue = After(@, count)]
        /\ got' = got \o First(fifoStream.queue, count)
    BY <1>2 DEF read
  <2> QED BY <1>1, <2>1, TakesFirst
<1>3. CASE fifoStream.queue = <<>>
  <2> DEFINE m == Least(count, availableToRead)
             p == in.position + m
             bytes == peek(count)
  <2>1. /\ m \in 0 .. Len(in.data) - in.position
        /\ bytes \in Seq(Nat) /\ bytes \o After(in.data, p) = After(in.data, in.position)
        /\ Committed(count) = [data |-> in.data, position |-> p]
    BY <1>1, Peeked
  <2>2. got' = got \o bytes /\ in' = [data |-> in.data, position |-> p]
        /\ fifoStream' = fifoStream
    BY <1>3, <2>1 DEF read
  <2>3. p \in 0 .. Len(in.data) /\ p \in Nat /\ p <= Len(in.data)
    BY <2>1, InputFacts
  <2> HIDE DEF m, p, bytes
  <2>4. got \in Seq(Nat) /\ After(in.data, p) \in Seq(Nat)
    BY <2>3, InputFacts
  <2>5. Joined(bytes, After(in.data, p)) = After(in.data, in.position)
    BY <2>1 DEF Joined
  <2>6. Joined(Joined(Joined(got, bytes), <<>>), After(in.data, p))
          = Joined(Joined(got, <<>>), After(in.data, in.position))
    BY <2>1, <2>4, <2>5, Passes
  <2>7. got' \o fifoStream.queue \o After(in.data, p)
          = got \o fifoStream.queue \o After(in.data, in.position)
    BY <1>3, <2>2, <2>6 DEF Joined
  <2>8. got' \in Seq(Nat)
    BY <2>1, <2>2, <2>4, ConcatNat
  <2>9. /\ fifoStream.queue \in Seq(Nat) /\ fifoStream.size \in Nat
        /\ Len(fifoStream.queue) <= fifoStream.size
        /\ fifoStream' = [queue |-> fifoStream.queue, size |-> fifoStream.size]
    BY <2>2, InputFacts
  <2> QED BY <2>2, <2>3, <2>7, <2>8, <2>9, InputHolds
<1> QED BY <1>2, <1>3

LEMMA PeekAndCommitKeeps ==
  ASSUME MemoryConstants, InputInv, NEW count \in Counts, peekAndCommit(count)
  PROVE  InputInv'
<1> DEFINE queue == fifoStream.queue
<1>1. PICK n \in 0 .. Least(count, Len(queue)) :
        /\ got' = got \o First(First(queue, count), n)
        /\ fifoStream' = [fifoStream EXCEPT !.queue = After(@, n)] /\ in' = in
  BY DEF peekAndCommit
<1>2. queue \in Seq(Nat) /\ count \in Nat
  BY InputFacts DEF MemoryConstants
<1>3. /\ Least(count, Len(queue)) \in 0 .. Len(queue)
      /\ First(queue, count) = SubSeq(queue, 1, Least(count, Len(queue)))
      /\ First(queue, count) \in Seq(Nat)
      /\ Len(First(queue, count)) = Least(count, Len(queue))
  BY <1>2, FirstOf
<1>4. n \in Nat /\ n <= Least(count, Len(queue)) /\ n <= Len(queue)
  BY <1>1, <1>2, <1>3
<1>5. First(First(queue, count), n) = First(queue, n)
  <2> DEFINE front == First(queue, count)
             k == Least(count, Len(queue))
  <2>1. First(front, n) = SubSeq(front, 1, n) /\ First(queue, n) = SubSeq(queue, 1, n)
    BY <1>2, <1>3, <1>4 DEF First, Least
  <2> HIDE DEF front, k
  <2>2. k \in 0 .. Len(queue) /\ n \in 0 .. k /\ front = SubSeq(queue, 1, k)
    BY <1>3, <1>4 DEF front, k
  <2>8. /\ queue \in Seq(Nat) /\ k \in Nat /\ k <= Len(queue)
        /\ n \in Nat /\ n <= k /\ n <= Len(queue)
    BY <1>2, <2>2
  <2>3. front \in Seq(Nat) /\ Len(front) = k /\ \A i \in 1 .. k : front[i] = queue[i]
    BY <2>2, <2>8, PrefixOfNumbers, Zenon
  <2>4. /\ SubSeq(front, 1, n) \in Seq(Nat) /\ Len(SubSeq(front, 1, n)) = n
        /\ \A i \in 1 .. n : SubSeq(front, 1, n)[i] = front[i]
    BY <2>3, <2>8, PrefixOfNumbers, Zenon
  <2>5. /\ SubSeq(queue, 1, n) \in Seq(Nat) /\ Len(SubSeq(queue, 1, n)) = n
        /\ \A i \in 1 .. n : SubSeq(queue, 1, n)[i] = queue[i]
    BY <2>8, PrefixOfNumbers, Zenon
  <2>6. \A i \in 1 .. n : front[i] = queue[i]
    BY <2>2, <2>3
  <2>7. SubSeq(front, 1, n) = SubSeq(queue, 1, n)
    BY <2>4, <2>5, <2>6, SeqEqual
  <2> QED BY <2>1, <2>7 DEF front
<1> QED BY <1>1, <1>4, <1>5, TakesFirst

LEMMA HandKeeps ==
  ASSUME MemoryConstants, OutputInv, InputInv, hand
  PROVE  InputInv'
<1>1. toString \in Seq(Nat) /\ Len(toString) <= MaxText
  BY OutputKeepsText
<1>2. /\ in' = [data |-> toString, position |-> 0] /\ got' = <<>>
      /\ fifoStream' = [queue |-> <<>>, size |-> fifoStream.size] /\ fifoStream.size \in Nat
  BY InputFacts DEF hand
<1>3. After(toString, 0) = toString
  <2>1. 0 \in Nat
    OBVIOUS
  <2> QED BY <2>1, <1>1, FirstOf
<1>4. <<>> \o <<>> \o toString = toString /\ <<>> \in Seq(Nat) /\ Len(<<>>) = 0
  BY <1>1, ConcatNat
<1> QED BY <1>1, <1>2, <1>3, <1>4 DEF InputInv, PassedOn

LEMMA InputStep ==
  ASSUME MemoryConstants, OutputInv, InputInv, [MemoryNext]_memoryVars
  PROVE  InputInv'
<1>1. CASE hand
  BY <1>1, HandKeeps
<1>2. CASE \E n \in Counts : feed(n) \/ readFromStreamAndWrite(n) \/ read(n) \/ peekAndCommit(n)
  BY <1>2, FeedKeeps, ReadFromKeeps, ReadKeeps, PeekAndCommitKeeps
<1>3. CASE UNCHANGED <<in, fifoStream, got>>
  BY <1>3 DEF InputInv, PassedOn
<1>4. (\E n \in Counts : write(n)) \/ reset \/ rewind \/ UNCHANGED memoryVars
        => UNCHANGED <<in, fifoStream, got>>
  BY DEF write, reset, rewind, memoryVars
<1> QED BY <1>1, <1>2, <1>3, <1>4 DEF MemoryNext

\* For any sizes of memory and of calls that numbers hold, a text that is composed in memory
\* that grows is kept, byte for byte, by every write, memory on the heap is told from memory
\* inside of the stream, and what is handed over leaves the input and the FIFO stream in its
\* order with nothing lost, also when room cannot be had (BufferStream.cpp, FIFOStream.cpp).
THEOREM StreamsAreSound ==
  ASSUME MemoryConstants
  PROVE  MemorySpec => [](TextKept /\ PassedOn)
<1> DEFINE I == OutputInv /\ InputInv
<1>1. MemoryInit => I
  BY OutputInit, InputInit
<1>2. I /\ [MemoryNext]_memoryVars => I'
  BY OutputStep, InputStep
<1>3. I => TextKept /\ PassedOn
  BY OutputKeepsText DEF InputInv
<1> QED BY <1>1, <1>2, <1>3, PTL DEF MemorySpec

-----------------------------------------------------------------------------
(* LazyStringMap.                                                           *)

LabelsOfTexts == [text : Texts, own : BOOLEAN]
PairsOfLabels == [key : LabelsOfTexts, value : LabelsOfTexts, put : Nat]

Plain(e) == [key |-> e.key.text, value |-> e.value.text, put |-> e.put]
Owned(e) == e.key.own /\ e.value.own

\* One map: every put has left one pair at most, the pairs are those that are wanted, and
\* when the map says so they have memory of their own.
MapHolds(pairs, plain, done, last) ==
  /\ pairs \subseteq PairsOfLabels /\ IsFiniteSet(pairs)
  /\ \A e \in pairs : e.put <= last
  /\ \A e, f \in pairs : e.put = f.put => e = f
  /\ plain = {Plain(e) : e \in pairs}
  /\ done => \A e \in pairs : Owned(e)

LazyInv ==
  /\ puts \in Nat
  /\ entries \in [Maps -> SUBSET PairsOfLabels] /\ full \in [Maps -> BOOLEAN]
  /\ wanted = [m \in Maps |-> wanted[m]]
  /\ \A m \in Maps : MapHolds(entries[m], wanted[m], full[m], puts)
  /\ \A label \in given : label.own

\* A pair gets memory of its own and stays the same pair of texts.
LEMMA CapturedPair ==
  ASSUME NEW e \in PairsOfLabels
  PROVE  /\ Captured(e) \in PairsOfLabels /\ Plain(Captured(e)) = Plain(e)
         /\ Captured(e).put = e.put /\ Captured(e).key = e.key /\ Captured(e).value.own
         /\ LET c == [Captured(e) EXCEPT !.key = captureToOwnMemory(@)] IN
            c \in PairsOfLabels /\ Plain(c) = Plain(e) /\ c.put = e.put /\ Owned(c)
BY DEF PairsOfLabels, LabelsOfTexts, Captured, captureToOwnMemory, Label, Plain, Owned

\* As many pairs as texts are wanted.
LEMMA AsManyPairs ==
  ASSUME NEW pairs, NEW plain, NEW done, NEW last, MapHolds(pairs, plain, done, last)
  PROVE  Cardinality(pairs) = Cardinality(plain)
<1> DEFINE f == [e \in pairs |-> Plain(e)]
<1>1. f \in Bijection(pairs, plain)
  <2>1. f \in [pairs -> plain] /\ \A p \in plain : \E e \in pairs : f[e] = p
    BY DEF MapHolds
  <2>2. \A d, e \in pairs : f[d] = f[e] => d = e
    BY DEF MapHolds, Plain
  <2> QED BY <2>1, <2>2, Fun_IsBij
<1>2. ExistsBijection(pairs, plain)
  BY <1>1 DEF ExistsBijection
<1> QED BY <1>2, FS_Bijection DEF MapHolds

LEMMA HoldsLater ==
  ASSUME NEW pairs, NEW plain, NEW done, NEW last \in Nat, MapHolds(pairs, plain, done, last)
  PROVE  MapHolds(pairs, plain, done, last + 1)
BY DEF MapHolds, PairsOfLabels

LEMMA HoldsNothing ==
  ASSUME NEW done, NEW last
  PROVE  MapHolds({}, {}, done, last)
BY FS_EmptySet DEF MapHolds

\* A pair is put under the number of a new put.
LEMMA HoldsOneMore ==
  ASSUME NEW pairs, NEW plain, NEW done, NEW last \in Nat, MapHolds(pairs, plain, done, last),
         NEW key \in LabelsOfTexts, NEW value \in LabelsOfTexts
  PROVE  MapHolds(pairs \union {[key |-> key, value |-> value, put |-> last + 1]},
                  plain \union {[key |-> key.text, value |-> value.text, put |-> last + 1]},
                  FALSE, last + 1)
<1> DEFINE new == [key |-> key, value |-> value, put |-> last + 1]
           said == [key |-> key.text, value |-> value.text, put |-> last + 1]
<1>1. new \in PairsOfLabels /\ new.put = last + 1 /\ Plain(new) = said
  BY DEF PairsOfLabels, Plain
<1>2. pairs \subseteq PairsOfLabels /\ IsFiniteSet(pairs) /\ \A e \in pairs : e.put \in Nat /\ e.put <= last
  BY DEF MapHolds, PairsOfLabels
<1>3. IsFiniteSet(pairs \union {new})
  BY <1>2, FS_AddElement
<1>4. plain \union {said} = {Plain(e) : e \in pairs \union {new}}
  BY <1>1 DEF MapHolds
<1> HIDE DEF new, said
<1>5. \A e \in pairs \union {new} : e.put <= last + 1
  BY <1>1, <1>2
<1>6. \A e, f \in pairs \union {new} : e.put = f.put => e = f
  BY <1>1, <1>2 DEF MapHolds
<1>7. MapHolds(pairs \union {new}, plain \union {said}, FALSE, last + 1)
  BY <1>1, <1>2, <1>3, <1>4, <1>5, <1>6 DEF MapHolds
<1> QED BY <1>7 DEF new, said

\* Some pairs are replaced by their captures, one for one.
LEMMA HoldsOneCaptured ==
  ASSUME NEW pairs, NEW plain, NEW done, NEW last, MapHolds(pairs, plain, done, last),
         NEW e \in pairs
  PROVE  MapHolds((pairs \ {e}) \union {Captured(e)}, plain, done, last)
<1> DEFINE c == Captured(e)
           new == (pairs \ {e}) \union {c}
<1>1. e \in PairsOfLabels
  BY DEF MapHolds
<1>2. c \in PairsOfLabels /\ Plain(c) = Plain(e) /\ c.put = e.put
      /\ (e.key.own => c.key.own) /\ c.value.own
  BY <1>1, CapturedPair
<1> HIDE DEF c
<1>3. IsFiniteSet(new)
  BY FS_RemoveElement, FS_AddElement DEF MapHolds
<1>4. plain = {Plain(f) : f \in new}
  BY <1>2 DEF MapHolds
<1>5. \A f, g \in new : f.put = g.put => f = g
  BY <1>2 DEF MapHolds
<1>6. MapHolds(new, plain, done, last)
  BY <1>2, <1>3, <1>4, <1>5 DEF MapHolds, Owned
<1> QED BY <1>6 DEF c

LEMMA HoldsAllCaptured ==
  ASSUME NEW pairs, NEW plain, NEW done, NEW last, MapHolds(pairs, plain, done, last)
  PROVE  LET new == {[Captured(e) EXCEPT !.key = captureToOwnMemory(@)] : e \in pairs} IN
         MapHolds(new, plain, TRUE, last) /\ \A e \in new : Owned(e)
<1> DEFINE C(e) == [Captured(e) EXCEPT !.key = captureToOwnMemory(@)]
           new == {C(e) : e \in pairs}
<1>1. \A e \in pairs : /\ C(e) \in PairsOfLabels /\ Plain(C(e)) = Plain(e) /\ C(e).put = e.put
                       /\ Owned(C(e))
  BY CapturedPair DEF MapHolds
<1>2. IsFiniteSet(new)
  <2>1. [e \in pairs |-> C(e)] \in [pairs -> new] /\ \A y \in new : \E e \in pairs : [x \in pairs |-> C(x)][e] = y
    OBVIOUS
  <2>2. [e \in pairs |-> C(e)] \in Surjection(pairs, new)
    BY <2>1, Fun_IsSurj
  <2> QED BY <2>2, FS_Surjection DEF MapHolds
<1> HIDE DEF C
<1>3. plain = {Plain(f) : f \in new}
  BY <1>1 DEF MapHolds
<1>4. \A f, g \in new : f.put = g.put => f = g
  BY <1>1 DEF MapHolds
<1>5. MapHolds(new, plain, TRUE, last) /\ \A e \in new : Owned(e)
  BY <1>1, <1>2, <1>3, <1>4 DEF MapHolds
<1> QED BY <1>5 DEF C

-----------------------------------------------------------------------------
\* One map's contents become others.
LEMMA OneMapChanges ==
  ASSUME LazyInv, NEW m \in Maps, NEW pairs, NEW plain, NEW done \in BOOLEAN, NEW last \in Nat,
         last = puts \/ last = puts + 1, MapHolds(pairs, plain, done, last),
         entries' = [entries EXCEPT ![m] = pairs], full' = [full EXCEPT ![m] = done],
         wanted' = [wanted EXCEPT ![m] = plain], puts' = last, \A label \in given' : label.own
  PROVE  LazyInv'
<1>1. pairs \in SUBSET PairsOfLabels
  BY DEF MapHolds
<1>2. \A n \in Maps : MapHolds(entries[n], wanted[n], full[n], puts)
                      /\ MapHolds(entries[n], wanted[n], full[n], puts + 1)
  BY HoldsLater DEF LazyInv
<1>3. \A n \in Maps : /\ entries'[n] = IF n = m THEN pairs ELSE entries[n]
                      /\ wanted'[n] = IF n = m THEN plain ELSE wanted[n]
                      /\ full'[n] = IF n = m THEN done ELSE full[n]
  BY DEF LazyInv
<1>4. \A n \in Maps : MapHolds(entries'[n], wanted'[n], full'[n], puts')
  <2> TAKE n \in Maps
  <2>1. CASE n = m
    BY <2>1, <1>3
  <2>2. CASE n # m
    BY <2>2, <1>2, <1>3
  <2> QED BY <2>1, <2>2
<1>5. /\ puts' \in Nat /\ wanted' = [n \in Maps |-> wanted'[n]]
      /\ entries' \in [Maps -> SUBSET PairsOfLabels] /\ full' \in [Maps -> BOOLEAN]
  BY <1>1 DEF LazyInv
<1> QED BY <1>4, <1>5 DEF LazyInv

\* Only the number of puts and what was given change.
LEMMA OnlyCounted ==
  ASSUME LazyInv, UNCHANGED <<entries, full, wanted>>, puts' = puts + 1 \/ puts' = puts,
         \A label \in given' : label.own
  PROVE  LazyInv'
<1>1. \A n \in Maps : MapHolds(entries[n], wanted[n], full[n], puts')
  BY HoldsLater DEF LazyInv
<1> QED BY <1>1 DEF LazyInv

LEMMA PutKeeps ==
  ASSUME LazyInv, NEW m \in Maps, NEW key \in LabelsOfTexts, NEW value \in LabelsOfTexts,
         NEW pairs, NEW rest, MapHolds(pairs, rest, full[m], puts),
         PutPair(m, pairs, key, value), puts' = puts + 1, given' = {},
         wanted' = [wanted EXCEPT ![m] = rest \union
                      IF ~ multi /\ \E w \in rest : w.key = key.text THEN {}
                      ELSE {[key |-> key.text, value |-> value.text, put |-> puts']}]
  PROVE  LazyInv'
<1>1. (\E e \in pairs : e.key.text = key.text) <=> (\E w \in rest : w.key = key.text)
  <2>1. rest = {Plain(e) : e \in pairs}
    BY DEF MapHolds
  <2>2. \A e : Plain(e).key = e.key.text
    BY DEF Plain
  <2> QED BY <2>1, <2>2
<1>2. puts \in Nat /\ puts + 1 \in Nat
  BY DEF LazyInv
<1>3. CASE ~ multi /\ \E e \in pairs : e.key.text = key.text
  <2>1. /\ entries' = [entries EXCEPT ![m] = pairs] /\ full' = [full EXCEPT ![m] = FALSE]
        /\ wanted' = [wanted EXCEPT ![m] = rest]
    <3>1. rest \union {} = rest
      OBVIOUS
    <3> QED BY <1>1, <1>3, <3>1 DEF PutPair, Inserted
  <2>2. MapHolds(pairs, rest, FALSE, puts + 1)
    BY <1>2, HoldsLater DEF MapHolds
  <2> QED BY <2>1, <2>2, <1>2, OneMapChanges
<1>4. CASE ~ (~ multi /\ \E e \in pairs : e.key.text = key.text)
  <2> DEFINE more == pairs \union {[key |-> key, value |-> value, put |-> puts + 1]}
             plain == rest \union {[key |-> key.text, value |-> value.text, put |-> puts + 1]}
  <2>1. /\ entries' = [entries EXCEPT ![m] = more] /\ full' = [full EXCEPT ![m] = FALSE]
        /\ wanted' = [wanted EXCEPT ![m] = plain]
    BY <1>1, <1>4 DEF PutPair, Inserted
  <2>2. MapHolds(more, plain, FALSE, puts + 1)
    BY <1>2, HoldsOneMore
  <2> HIDE DEF more, plain
  <2> QED BY <2>1, <2>2, <1>2, OneMapChanges
<1> QED BY <1>3, <1>4

\* The puts are those of Argued.
LEMMA PutsKeep ==
  ASSUME LazyInv, NEW m \in Maps, NEW key \in LabelsOfTexts, NEW value \in LabelsOfTexts,
         puts' = puts + 1, given' = {},
         put(m, key, value) \/ putIfNotExists(m, key, value) \/ putOrReplace(m, key, value)
  PROVE  LazyInv'
<1>1. MapHolds(entries[m], wanted[m], full[m], puts)
  BY DEF LazyInv
<1>2. CASE put(m, key, value)
  <2>1. {w \in wanted[m] : ~ FALSE \/ w.key # key.text} = wanted[m]
    OBVIOUS
  <2> QED BY <1>1, <1>2, <2>1, PutKeeps DEF put, Keep
<1>3. CASE putIfNotExists(m, key, value)
  <2>1. put(m, key, value) \/ UNCHANGED <<entries, full, wanted>>
    BY <1>3 DEF putIfNotExists
  <2>2. CASE UNCHANGED <<entries, full, wanted>>
    BY <2>2, OnlyCounted
  <2> QED BY <2>1, <2>2, <1>2
<1>4. CASE putOrReplace(m, key, value)
  <2> DEFINE left == {e \in entries[m] : e.key.text # key.text}
             rest == {w \in wanted[m] : w.key # key.text}
  <2>1. entries[m] \ Found(m, key.text) = left
    BY DEF Found
  <2>2. {w \in wanted[m] : ~ TRUE \/ w.key # key.text} = rest
    OBVIOUS
  <2>3. MapHolds(left, rest, full[m], puts)
    <3>1. IsFiniteSet(left)
      BY <1>1, FS_Subset DEF MapHolds
    <3>2. rest = {Plain(e) : e \in left}
      <4>1. wanted[m] = {Plain(e) : e \in entries[m]}
        BY <1>1 DEF MapHolds
      <4>2. \A e : Plain(e).key = e.key.text
        BY DEF Plain
      <4> QED BY <4>1, <4>2
    <3> QED BY <1>1, <3>1, <3>2 DEF MapHolds
  <2> HIDE DEF left, rest
  <2> QED BY <1>4, <2>1, <2>2, <2>3, PutKeeps DEF putOrReplace, Keep
<1> QED BY <1>2, <1>3, <1>4

LEMMA ArguedKeep ==
  ASSUME LazyInv, Argued(put) \/ Argued(putIfNotExists) \/ Argued(putOrReplace)
  PROVE  LazyInv'
<1>1. \E m \in Maps, k, v \in Texts, own \in BOOLEAN :
        \/ put(m, Label(k, own), Label(v, own))
        \/ putIfNotExists(m, Label(k, own), Label(v, own))
        \/ putOrReplace(m, Label(k, own), Label(v, own))
  BY DEF Argued
<1>2. puts' = puts + 1 /\ given' = {}
  BY DEF Argued
<1>3. \A t \in Texts, own \in BOOLEAN : Label(t, own) \in LabelsOfTexts
  BY DEF Label, LabelsOfTexts
<1> QED BY <1>1, <1>2, <1>3, PutsKeep

LEMMA GetKeeps ==
  ASSUME LazyInv, NEW m \in Maps, NEW key, get(m, key)
  PROVE  LazyInv'
<1>1. MapHolds(entries[m], wanted[m], full[m], puts) /\ puts \in Nat /\ full[m] \in BOOLEAN
  BY DEF LazyInv
<1>2. CASE Found(m, key) = {}
  BY <1>2, OnlyCounted DEF get
<1>3. CASE Found(m, key) # {}
  <2>1. PICK e \in entries[m] :
          /\ entries' = [entries EXCEPT ![m] = (@ \ {e}) \union {Captured(e)}]
          /\ given' = {Captured(e).value} /\ UNCHANGED <<full, wanted, puts>>
    BY <1>3 DEF get, Found
  <2>2. MapHolds((entries[m] \ {e}) \union {Captured(e)}, wanted[m], full[m], puts)
    BY <1>1, HoldsOneCaptured
  <2>3. Captured(e).value.own
    BY <1>1, CapturedPair DEF MapHolds
  <2>4. /\ entries' = [entries EXCEPT ![m] = (entries[m] \ {e}) \union {Captured(e)}]
        /\ full' = [full EXCEPT ![m] = full[m]] /\ wanted' = [wanted EXCEPT ![m] = wanted[m]]
    BY <2>1 DEF LazyInv
  <2>5. \A label \in given' : label.own
    BY <2>1, <2>3
  <2> DEFINE new == (entries[m] \ {e}) \union {Captured(e)}
  <2> HIDE DEF new
  <2>6. MapHolds(new, wanted[m], full[m], puts) /\ entries' = [entries EXCEPT ![m] = new]
    BY <2>2, <2>4 DEF new
  <2>7. puts' = puts
    BY <2>1
  <2> DEFINE plain == wanted[m]
             done == full[m]
  <2>8. /\ MapHolds(new, plain, done, puts) /\ puts \in Nat /\ done \in BOOLEAN
        /\ entries' = [entries EXCEPT ![m] = new] /\ full' = [full EXCEPT ![m] = done]
        /\ wanted' = [wanted EXCEPT ![m] = plain] /\ puts' = puts
    BY <1>1, <2>4, <2>6, <2>7
  <2> HIDE DEF plain, done
  <2> QED BY <2>5, <2>8, OneMapChanges
<1> QED BY <1>2, <1>3

LEMMA GetAllKeeps ==
  ASSUME LazyInv, NEW m \in Maps, getAll(m)
  PROVE  LazyInv'
<1> DEFINE new == IF full[m] THEN entries[m]
                  ELSE {[Captured(e) EXCEPT !.key = captureToOwnMemory(@)] : e \in entries[m]}
<1>1. MapHolds(entries[m], wanted[m], full[m], puts) /\ puts \in Nat /\ full[m] \in BOOLEAN
  BY DEF LazyInv
<1>2. MapHolds(new, wanted[m], TRUE, puts) /\ \A e \in new : Owned(e)
  <2>1. CASE full[m]
    <3>1. \A e \in entries[m] : Owned(e)
      BY <1>1, <2>1 DEF MapHolds
    <3> QED BY <1>1, <2>1, <3>1 DEF MapHolds
  <2>2. CASE ~ full[m]
    BY <1>1, <2>2, HoldsAllCaptured
  <2> QED BY <2>1, <2>2
<1>3. entries' = [entries EXCEPT ![m] = new] /\ full' = [full EXCEPT ![m] = TRUE]
      /\ wanted' = [wanted EXCEPT ![m] = wanted[m]] /\ puts' = puts
      /\ given' = UNION {{e.key, e.value} : e \in entries'[m]}
  BY DEF getAll, LazyInv
<1> HIDE DEF new
<1>4. entries'[m] = new
  BY <1>3 DEF LazyInv
<1>5. \A label \in given' : label.own
  BY <1>2, <1>3, <1>4 DEF Owned
<1> QED BY <1>1, <1>2, <1>3, <1>5, OneMapChanges

LEMMA CopyKeeps ==
  ASSUME LazyInv, NEW m \in Maps, NEW other \in Maps, copy(m, other)
  PROVE  LazyInv'
<1>1. MapHolds(entries[other], wanted[other], full[other], puts) /\ puts \in Nat
      /\ full[other] \in BOOLEAN
  BY DEF LazyInv
<1>2. /\ entries' = [entries EXCEPT ![m] = entries[other]]
      /\ full' = [full EXCEPT ![m] = full[other]]
      /\ wanted' = [wanted EXCEPT ![m] = wanted[other]] /\ puts' = puts /\ given' = {}
  BY DEF copy
<1> QED BY <1>1, <1>2, OneMapChanges

LEMMA MoveKeeps ==
  ASSUME LazyInv, NEW m \in Maps, NEW other \in Maps \ {m}, move(m, other)
  PROVE  LazyInv'
<1>1. /\ entries' = [entries EXCEPT ![m] = entries[other], ![other] = {}]
      /\ full' = [full EXCEPT ![m] = full[other]]
      /\ wanted' = [wanted EXCEPT ![m] = wanted[other], ![other] = {}]
      /\ puts' = puts /\ given' = {}
  BY DEF move
<1>2. \A n \in Maps :
        /\ entries'[n] = IF n = other THEN {} ELSE IF n = m THEN entries[other] ELSE entries[n]
        /\ wanted'[n] = IF n = other THEN {} ELSE IF n = m THEN wanted[other] ELSE wanted[n]
        /\ full'[n] = IF n = m THEN full[other] ELSE full[n]
  BY <1>1 DEF LazyInv
<1>3. \A n \in Maps : MapHolds(entries[n], wanted[n], full[n], puts)
  BY DEF LazyInv
<1>4. \A n \in Maps : MapHolds(entries'[n], wanted'[n], full'[n], puts')
  <2> TAKE n \in Maps
  <2>1. CASE n = other
    BY <2>1, <1>1, <1>2, HoldsNothing
  <2>2. CASE n = m
    BY <2>2, <1>1, <1>2, <1>3
  <2>3. CASE n # other /\ n # m
    BY <2>3, <1>1, <1>2, <1>3
  <2> QED BY <2>1, <2>2, <2>3
<1>5. /\ wanted' = [n \in Maps |-> wanted'[n]]
      /\ entries' \in [Maps -> SUBSET PairsOfLabels] /\ full' \in [Maps -> BOOLEAN]
  BY <1>1 DEF LazyInv
<1> QED BY <1>1, <1>4, <1>5 DEF LazyInv

LEMMA LazyStart ==
  ASSUME LazyInit
  PROVE  LazyInv
<1>1. MapHolds({}, {}, TRUE, 0)
  BY HoldsNothing
<1> QED BY <1>1 DEF LazyInit, LazyInv

LEMMA LazyStep ==
  ASSUME LazyInv, [LazyNext]_lazyVars
  PROVE  LazyInv'
<1>1. CASE Argued(put) \/ Argued(putIfNotExists) \/ Argued(putOrReplace)
  BY <1>1, ArguedKeep
<1>2. CASE \E m \in Maps : \/ getAll(m)
                           \/ \E k \in Texts : get(m, k)
                           \/ \E other \in Maps \ {m} : copy(m, other) \/ move(m, other)
  BY <1>2, GetKeeps, GetAllKeeps, CopyKeeps, MoveKeeps
<1>3. CASE UNCHANGED lazyVars
  <2>1. UNCHANGED <<entries, full, wanted>> /\ puts' = puts /\ given' = given
    BY <1>3 DEF lazyVars
  <2>2. \A label \in given' : label.own
    BY <2>1 DEF LazyInv
  <2> QED BY <2>1, <2>2, OnlyCounted
<1> QED BY <1>1, <1>2, <1>3 DEF LazyNext

\* For any texts and any number of puts into two maps that are copied and moved into one
\* another, plain or multi, each map has exactly the pairs that were put into it, one for
\* each put that counts; whatever is handed out owns its memory, and so does all of a map
\* that says it is fully initialized (data/share/LazyStringMap.hpp).
THEOREM HeaderMapsAreSound == LazySpec => [](OwnMemory /\ PairsKept)
<1>1. LazyInit => LazyInv
  BY LazyStart
<1>2. LazyInv /\ [LazyNext]_lazyVars => LazyInv'
  BY LazyStep
<1>3. LazyInv => OwnMemory /\ PairsKept
  <2> SUFFICES ASSUME LazyInv PROVE OwnMemory /\ PairsKept
    OBVIOUS
  <2>1. OwnMemory
    BY DEF LazyInv, MapHolds, OwnMemory, Owned
  <2>2. \A m \in Maps : Cardinality(entries[m]) = Cardinality(wanted[m])
    BY AsManyPairs DEF LazyInv
  <2>3. \A m \in Maps : {Plain(e) : e \in entries[m]} = wanted[m]
    BY DEF LazyInv, MapHolds
  <2> QED BY <2>1, <2>2, <2>3 DEF PairsKept, Plain
<1> QED BY <1>1, <1>2, <1>3, PTL DEF LazySpec

-----------------------------------------------------------------------------
(* Content mappers *)

\* Whatever is registered is under its own type, the map by content types has nothing that
\* the index has not, and the last choice was made from the registry as it is.
RegistryInv ==
  /\ m_index = latest
  /\ \A t \in DOMAIN m_index : m_index[t] \in Mappers /\ TypeOf(m_index[t]) = t
  /\ IsRestriction(m_mappers, m_index)
  /\ ~ cleared => m_mappers = m_index
  /\ m_defaultMapper \in Mappers \union {NoMapper}

AnswerInv ==
  /\ answer.kind = "accept" =>
       answer.header \in Headers /\ answer.mapper \in ChosenFor(answer.header)
  /\ answer.kind = "content" /\ answer.header # <<>> =>
       answer.mapper = IF answer.header[1].range \in DOMAIN m_mappers
                       THEN m_mappers[answer.header[1].range] ELSE NoMapper

\* Registering a mapper puts it under its type and leaves the others.
LEMMA WithOne ==
  ASSUME NEW map, NEW mapper
  PROVE  /\ DOMAIN With(map, mapper) = DOMAIN map \union {TypeOf(mapper)}
         /\ With(map, mapper)[TypeOf(mapper)] = mapper
         /\ \A t \in DOMAIN map : t # TypeOf(mapper) => With(map, mapper)[t] = map[t]
BY DEF With

LEMMA RegisterKeeps ==
  ASSUME RegistryInv, NEW mapper \in Mappers, Register(mapper), cleared' = cleared,
         m_defaultMapper' \in Mappers \union {NoMapper}
  PROVE  RegistryInv'
<1> DEFINE type  == TypeOf(mapper)
           index == With(m_index, mapper)
           map   == With(m_mappers, mapper)
<1>1. m_index' = index /\ latest' = With(latest, mapper) /\ m_mappers' = map
  BY DEF Register
<1>2. m_index' = latest' /\ (~ cleared' => m_mappers' = m_index')
  BY <1>1 DEF RegistryInv
<1>3. /\ DOMAIN index = DOMAIN m_index \union {type} /\ index[type] = mapper
      /\ \A t \in DOMAIN m_index : t # type => index[t] = m_index[t]
  BY WithOne, Zenon
<1>4. /\ DOMAIN map = DOMAIN m_mappers \union {type} /\ map[type] = mapper
      /\ \A t \in DOMAIN m_mappers : t # type => map[t] = m_mappers[t]
  BY WithOne, Zenon
<1>5. TypeOf(mapper) = type
  OBVIOUS
<1> HIDE DEF index, map, type
<1>6. \A t \in DOMAIN index : index[t] \in Mappers /\ TypeOf(index[t]) = t
  <2> TAKE t \in DOMAIN index
  <2>1. CASE t = type
    BY <1>3, <1>5, <2>1
  <2>2. CASE t # type
    BY <1>3, <2>2 DEF RegistryInv
  <2> QED BY <2>1, <2>2
<1>7. IsRestriction(map, index)
  <2>1. DOMAIN m_mappers \subseteq DOMAIN m_index
        /\ \A t \in DOMAIN m_mappers : m_mappers[t] = m_index[t]
    BY DEF RegistryInv, IsRestriction
  <2> QED BY <1>3, <1>4, <2>1 DEF IsRestriction
<1> QED BY <1>1, <1>2, <1>6, <1>7 DEF RegistryInv

\* What the index offers for a range serves it, and it offers something whenever
\* something that is registered serves it.
LEMMA IndexServes ==
  ASSUME RegistryInv, NEW r \in Types \X Subtypes, r # AnyRange
  PROVE  /\ \A m \in Indexed(r) : Serves(m, r) /\ m \in Mappers
         /\ Indexed(r) # {} <=> \E t \in DOMAIN latest : Serves(latest[t], r)
<1> DEFINE ofType == {m \in {m_index[t] : t \in DOMAIN m_index} : m.type = r[1]}
<1>1. r = <<r[1], r[2]>>
  OBVIOUS
<1>2. \A t \in DOMAIN m_index :
        /\ m_index[t] \in Mappers /\ t = <<m_index[t].type, m_index[t].subtype>>
        /\ latest[t] = m_index[t]
  BY DEF RegistryInv, TypeOf
<1>3. DOMAIN latest = DOMAIN m_index
  BY DEF RegistryInv
<1>4. CASE r \in DOMAIN m_index
  <2>1. Indexed(r) = {m_index[r]}
    BY <1>4 DEF Indexed
  <2>2. r = <<m_index[r].type, m_index[r].subtype>>
    BY <1>2, <1>4
  <2>3. m_index[r].type = r[1] /\ m_index[r].subtype = r[2]
    BY <1>1, <2>2
  <2> QED BY <1>2, <1>3, <1>4, <2>1, <2>3 DEF Serves
<1>5. CASE r \notin DOMAIN m_index /\ (r[2] # "*" \/ ofType = {})
  <2>1. Indexed(r) = {}
    BY <1>5 DEF Indexed
  <2>2. ASSUME NEW t \in DOMAIN latest, Serves(latest[t], r) PROVE FALSE
    <3>1. t \in DOMAIN m_index /\ latest[t] = m_index[t]
      BY <1>2, <1>3
    <3>2. m_index[t].type = r[1] /\ r[2] \in {m_index[t].subtype, "*"}
      BY <2>2, <3>1 DEF Serves
    <3>3. m_index[t] \in ofType
      BY <3>1, <3>2
    <3>4. r[2] = m_index[t].subtype
      BY <1>5, <3>2, <3>3
    <3>5. t = r
      BY <1>1, <1>2, <3>1, <3>2, <3>4
    <3> QED BY <1>5, <3>1, <3>5
  <2> QED BY <2>1, <2>2
<1>6. CASE r \notin DOMAIN m_index /\ r[2] = "*" /\ ofType # {}
  <2>1. \/ /\ Indexed(r) = {m_defaultMapper}
           /\ m_defaultMapper # NoMapper /\ m_defaultMapper.type = r[1]
        \/ Indexed(r) = ofType
    BY <1>6 DEF Indexed
  <2>2. \A m \in ofType : m \in Mappers /\ m.type = r[1]
    BY <1>2
  <2>3. PICK t \in DOMAIN m_index : m_index[t].type = r[1]
    BY <1>6
  <2>4. Serves(latest[t], r) /\ t \in DOMAIN latest
    BY <1>2, <1>3, <1>6, <2>3 DEF Serves
  <2>5. \A m : m.type = r[1] => Serves(m, r)
    BY <1>6 DEF Serves
  <2> HIDE DEF ofType
  <2> QED BY <1>6, <2>1, <2>2, <2>4, <2>5 DEF RegistryInv
<1> QED BY <1>4, <1>5, <1>6

\* The elements of a header.
LEMMA HeaderElements ==
  ASSUME NEW header \in Headers
  PROVE  /\ \A i \in DOMAIN header : header[i] \in Elements
         /\ Len(header) \in Nat /\ DOMAIN header = 1 .. Len(header)
<1>1. PICK n \in 0 .. MaxHeader : header \in [1 .. n -> Elements]
  BY DEF Headers
<1> HIDE DEF Elements
<1> QED BY <1>1

\* The choice for a header whose ranges all differ and are plain or have a quality.
LEMMA BestChosen ==
  ASSUME ContentConstants, RegistryInv, NEW header \in Headers, header # <<>>,
         \A i \in DOMAIN header :
           header[i].form \in {"plain", "weighted"} /\ header[i].range # AnyRange,
         \A i, j \in DOMAIN header : header[i].range = header[j].range => i = j,
         NEW mapper \in ChosenFor(header)
  PROVE  LET served == {i \in DOMAIN header :
                          \E t \in DOMAIN latest : Serves(latest[t], header[i].range)} IN
         /\ mapper = NoMapper <=> served = {}
         /\ served # {} =>
              \E i \in served : /\ Serves(mapper, header[i].range)
                                /\ \A j \in served : header[j].quality <= header[i].quality
<1> DEFINE served == {i \in DOMAIN header :
                        \E t \in DOMAIN latest : Serves(latest[t], header[i].range)}
           offers(i) == Indexed(header[i].range)
<1>1. \A i \in DOMAIN header : /\ header[i].range \in Types \X Subtypes
                               /\ header[i].quality \in 0 .. 1000
                               /\ header[i].form = "plain" => header[i].quality = 1000
  <2> TAKE i \in DOMAIN header
  <2>1. header[i] \in Elements
    BY HeaderElements
  <2>2. /\ header[i].range \in Types \X Subtypes
        /\ header[i].quality \in Qualities \union {1000}
        /\ header[i].form = "plain" => header[i].quality = 1000
    BY <2>1 DEF Elements
  <2>3. 1000 \in 0 .. 1000
    OBVIOUS
  <2>4. header[i].quality \in 0 .. 1000
    <3>1. Qualities \subseteq 0 .. 1000
      BY DEF ContentConstants
    <3> DEFINE q == header[i].quality
    <3>2. q \in Qualities \/ q = 1000
      BY <2>2
    <3> HIDE DEF q
    <3>3. q \in 0 .. 1000
      <4>1. CASE q \in Qualities
        BY <3>1, <4>1, Zenon
      <4>2. CASE q = 1000
        BY <2>3, <4>2, Zenon
      <4> QED BY <3>2, <4>1, <4>2
    <3> QED BY <3>3 DEF q
  <2> QED BY <2>2, <2>4
<1>2. \A i \in DOMAIN header :
        /\ \A m \in offers(i) : Serves(m, header[i].range) /\ m \in Mappers
        /\ offers(i) # {} <=> i \in served
  <2> TAKE i \in DOMAIN header
  <2>1. header[i].range \in Types \X Subtypes /\ header[i].range # AnyRange
    BY <1>1
  <2> QED BY <2>1, IndexServes, Zenon
<1>3. \A e \in Tokens(header) : \E i \in DOMAIN header : e = header[i] /\ e.form = "plain"
  BY DEF Tokens, IsToken
<1>4. \A i \in DOMAIN header : header[i].form = "plain" => header[i] \in Tokens(header)
  BY DEF Tokens, IsToken
<1>5. \A e \in TitleParams(header) :
        \E i \in DOMAIN header : e = header[i] /\ e.form = "weighted"
  BY DEF TitleParams, IsToken
<1>6. \A i \in DOMAIN header : header[i].form = "weighted" => header[i] \in TitleParams(header)
  <2>1. ASSUME NEW i \in DOMAIN header, header[i].form = "weighted"
        PROVE  \A k \in i + 1 .. Len(header) : header[k].range # header[i].range
    <3>1. \A k \in i + 1 .. Len(header) : k \in DOMAIN header /\ k # i
      BY HeaderElements
    <3> QED BY <3>1
  <2> QED BY <2>1 DEF TitleParams, IsToken
<1>7. \A i \in DOMAIN header :
        ForToken(header[i]) = offers(i) /\ ForParam(header[i]) = offers(i)
  BY DEF ForToken, ForParam
<1> DEFINE byToken == UNION {ForToken(e) : e \in Tokens(header)}
           fitting == {e \in TitleParams(header) : e.form = "weighted" /\ ForParam(e) # {}}
           best    == {e \in fitting : \A f \in fitting : f.quality <= e.quality}
<1>8. mapper \in IF byToken # {} THEN byToken
                 ELSE IF fitting # {} THEN UNION {ForParam(e) : e \in best}
                 ELSE {NoMapper}
  BY DEF ChosenFor
<1> DEFINE Best(i) == /\ Serves(mapper, header[i].range)
                      /\ \A j \in served : header[j].quality <= header[i].quality
<1>9. CASE byToken # {}
  <2>1. PICK e \in Tokens(header) : mapper \in ForToken(e)
    BY <1>8, <1>9
  <2>2. PICK i \in DOMAIN header : e = header[i] /\ e.form = "plain"
    BY <1>3
  <2>3. mapper \in offers(i)
    BY <1>7, <2>1, <2>2
  <2>4. i \in served /\ Serves(mapper, header[i].range) /\ mapper \in Mappers
    BY <1>2, <2>3
  <2>5. \A j \in DOMAIN header : header[j].quality <= header[i].quality
    <3> TAKE j \in DOMAIN header
    <3>1. header[i].quality = 1000 /\ header[j].quality \in 0 .. 1000
      BY <1>1, <2>2
    <3> DEFINE q == header[j].quality
    <3>2. q \in 0 .. 1000 => q <= 1000
      <4> HIDE DEF q
      <4> QED OBVIOUS
    <3> QED BY <3>1, <3>2, Zenon
  <2> QED BY <2>4, <2>5 DEF ContentConstants
<1>10. CASE byToken = {} /\ fitting # {}
  <2>1. PICK e \in best : mapper \in ForParam(e)
    BY <1>8, <1>10
  <2>2. PICK i \in DOMAIN header : e = header[i] /\ e.form = "weighted"
    BY <1>5
  <2>3. mapper \in offers(i)
    BY <1>7, <2>1, <2>2
  <2>4. i \in served /\ Serves(mapper, header[i].range) /\ mapper \in Mappers
    BY <1>2, <2>3
  <2>5. ASSUME NEW j \in served PROVE header[j].quality <= header[i].quality
    <3>1. offers(j) # {} /\ j \in DOMAIN header
      BY <1>2
    <3>2. header[j].form # "plain"
      BY <1>4, <1>7, <1>10, <3>1
    <3>3. header[j] \in fitting
      BY <1>6, <1>7, <3>1, <3>2
    <3> QED BY <2>1, <2>2, <3>3
  <2> QED BY <2>4, <2>5 DEF ContentConstants
<1>11. CASE byToken = {} /\ fitting = {}
  <2>1. mapper = NoMapper
    BY <1>8, <1>11
  <2>2. ASSUME NEW i \in served PROVE FALSE
    <3>1. offers(i) # {} /\ i \in DOMAIN header
      BY <1>2
    <3>2. header[i].form # "plain"
      BY <1>4, <1>7, <1>11, <3>1
    <3>3. header[i] \in fitting
      BY <1>6, <1>7, <3>1, <3>2
    <3> QED BY <1>11, <3>3
  <2> QED BY <2>1, <2>2
<1> QED BY <1>9, <1>10, <1>11

\* A change to the registry forgets the last choice.
LEMMA RegistryChanges ==
  ASSUME ContentConstants, RegistryInv,
         \/ \E m \in Mappers : putMapper(m) \/ setDefaultMapper(m)
         \/ \E t \in Types \X Subtypes : setDefaultType(t)
         \/ setDefaultMapper(NoMapper) \/ clear
  PROVE  RegistryInv' /\ answer' = Nothing
<1>1. ASSUME NEW m \in Mappers, putMapper(m) PROVE RegistryInv' /\ answer' = Nothing
  <2>1. m_defaultMapper' \in Mappers \union {NoMapper}
    BY <1>1 DEF putMapper, RegistryInv
  <2> QED BY <1>1, <2>1, RegisterKeeps DEF putMapper, Change
<1>2. ASSUME NEW m \in Mappers, setDefaultMapper(m) PROVE RegistryInv' /\ answer' = Nothing
  <2>1. m # NoMapper
    BY DEF ContentConstants
  <2> QED BY <1>2, <2>1, RegisterKeeps DEF setDefaultMapper, Change
<1>3. ASSUME NEW t, setDefaultType(t) PROVE RegistryInv' /\ answer' = Nothing
  <2>1. t \in DOMAIN m_mappers => m_mappers[t] \in Mappers
    BY DEF RegistryInv, IsRestriction
  <2>2. m_defaultMapper' \in Mappers \union {NoMapper}
    BY <1>3, <2>1 DEF setDefaultType, RegistryInv
  <2> QED BY <1>3, <2>2 DEF setDefaultType, Change, RegistryInv
<1>4. CASE setDefaultMapper(NoMapper)
  BY <1>4 DEF setDefaultMapper, Change, RegistryInv
<1>5. CASE clear
  <2>1. IsRestriction(m_mappers', m_index')
    BY <1>5 DEF clear, IsRestriction
  <2> QED BY <1>5, <2>1 DEF clear, Change, RegistryInv
<1> QED BY <1>1, <1>2, <1>3, <1>4, <1>5

\* A choice is what the registry as it is offers.
LEMMA ChoiceMade ==
  ASSUME RegistryInv, NEW h \in Headers, selectMapper(h) \/ selectMapperForContent(h)
  PROVE  RegistryInv' /\ AnswerInv'
<1>1. RegistryInv' /\ UNCHANGED registry
  BY DEF selectMapper, selectMapperForContent, registry, RegistryInv
<1>2. CASE selectMapper(h)
  <2>1. PICK m \in ChosenFor(h) : answer' = [kind |-> "accept", header |-> h, mapper |-> m]
    BY <1>2 DEF selectMapper
  <2>2. ChosenFor(h)' = ChosenFor(h)
    BY <1>1 DEF registry, ChosenFor, ForToken, ForParam, Indexed
  <2> QED BY <1>1, <2>1, <2>2 DEF AnswerInv
<1>3. CASE selectMapperForContent(h)
  BY <1>1, <1>3 DEF selectMapperForContent, registry, AnswerInv
<1> QED BY <1>2, <1>3

\* The mapper that writes a body is of a range that the client likes best among those that
\* can be served, and the one that reads a body is the last that was registered for its
\* type: for any mappers and headers with qualities up to that of a plain range
\* (ContentMappers.cpp, putMapper, setDefaultMapper, selectMapper and
\* selectMapperForContent).
THEOREM MappersAreChosen ==
  ASSUME ContentConstants
  PROVE  ContentSpec => [](BestIsServed /\ ContentIsRead)
<1>1. ContentInit => RegistryInv /\ AnswerInv
  <2> SUFFICES ASSUME ContentInit PROVE RegistryInv /\ AnswerInv
    OBVIOUS
  <2>1. DOMAIN m_index = {} /\ m_mappers = m_index
    BY DEF ContentInit
  <2> QED BY <2>1 DEF ContentInit, RegistryInv, AnswerInv, IsRestriction, Nothing
<1>2. RegistryInv /\ AnswerInv /\ [ContentNext]_contentVars => (RegistryInv /\ AnswerInv)'
  <2> SUFFICES ASSUME RegistryInv, AnswerInv, [ContentNext]_contentVars
               PROVE  RegistryInv' /\ AnswerInv'
    OBVIOUS
  <2>1. answer' = Nothing => AnswerInv'
    BY DEF Nothing, AnswerInv
  <2>2. CASE UNCHANGED contentVars
    <3>1. RegistryInv'
      BY <2>2 DEF contentVars, registry, RegistryInv
    <3>2. ChosenFor(answer.header)' = ChosenFor(answer.header)
      BY <2>2 DEF contentVars, registry, ChosenFor, ForToken, ForParam, Indexed
    <3>3. AnswerInv'
      BY <2>2, <3>2 DEF contentVars, registry, AnswerInv
    <3> QED BY <3>1, <3>3
  <2>3. CASE ContentNext
    <3>1. CASE \E h \in Headers : selectMapper(h) \/ selectMapperForContent(h)
      BY <3>1, ChoiceMade
    <3> QED BY <2>1, <2>3, <3>1, RegistryChanges DEF ContentNext
  <2> QED BY <2>2, <2>3
<1>3. RegistryInv /\ AnswerInv => BestIsServed /\ ContentIsRead
  <2> SUFFICES ASSUME RegistryInv, AnswerInv PROVE BestIsServed /\ ContentIsRead
    OBVIOUS
  <2>1. BestIsServed
    BY BestChosen DEF AnswerInv, BestIsServed
  <2>2. ContentIsRead
    BY DEF RegistryInv, AnswerInv, ContentIsRead, IsRestriction
  <2> QED BY <2>1, <2>2
<1> QED BY <1>1, <1>2, <1>3, PTL DEF ContentSpec
================================================================================
