------------------------------ MODULE FIFOBuffer ------------------------------
(***************************************************************************)
(* oatpp::data::buffer::FIFOBuffer, a ring of N bytes.  canRead tells a    *)
(* full buffer from an empty one when both positions are equal; a position *)
(* may also be N, which read() and write() never produce but the stream    *)
(* variants do.  SynchronizedFIFOBuffer makes every call one atomic step.  *)
(***************************************************************************)
EXTENDS Integers, Sequences

CONSTANTS
  N,          \* m_bufferSize
  Bytes,
  Arguments,  \* the byte sequences that clients and streams write
  Counts      \* the sizes that clients ask for; a negative one throws

ASSUME ConstantsAssumption ==
  /\ N \in Nat \ {0}
  /\ Arguments \subseteq Seq(Bytes)
  /\ Counts \subseteq Nat

\* The IOErrors, negative values that differ.
RetryRead  == -1
RetryWrite == -2
Broken     == -3

VARIABLES
  buffer,         \* m_buffer
  readPosition,   \* m_readPosition
  writePosition,  \* m_writePosition
  canRead,        \* m_canRead
  call,           \* the last call
  data,           \* the bytes that it moved
  result          \* what it returned

ring == <<buffer, readPosition, writePosition, canRead>>
vars == <<ring, call, data, result>>

TypeOK ==
  /\ buffer \in [0 .. N - 1 -> Bytes]
  /\ readPosition \in 0 .. N /\ writePosition \in 0 .. N
  /\ canRead \in BOOLEAN
  /\ call \in {"none", "peek", "read", "write", "writeToStream",
                "readFromStream", "flush"}
  /\ data \in Seq(Bytes)
  /\ result \in Int

Init ==
  /\ buffer \in [0 .. N - 1 -> Bytes]
  /\ readPosition = 0 /\ writePosition = 0 /\ canRead = FALSE
  /\ call = "none" /\ data = <<>> /\ result = 0

Least(a, b) == IF a < b THEN a ELSE b

AvailableToRead ==
  IF ~ canRead THEN 0
  ELSE IF readPosition < writePosition THEN writePosition - readPosition
  ELSE N - readPosition + writePosition

AvailableToWrite ==
  IF canRead /\ writePosition = readPosition THEN 0
  ELSE IF writePosition < readPosition THEN readPosition - writePosition
  ELSE N - writePosition + readPosition

\* memcpy out of the buffer, and into it.
CopyOut(from, n) == [i \in 1 .. n |-> buffer[from + i - 1]]
CopyIn(b, to, s) ==
  [i \in 0 .. N - 1 |-> IF to <= i /\ i < to + Len(s) THEN s[i - to + 1] ELSE b[i]]

Answer(op, r, d) == call' = op /\ result' = r /\ data' = d

-----------------------------------------------------------------------------
(* read, peek, commitReadOffset *)

\* How far a call that wants count > 0 bytes gets, and where it stops.
ReadSize(count) ==
  IF readPosition < writePosition THEN Least(writePosition - readPosition, count)
  ELSE IF N - readPosition > count THEN count
  ELSE N - readPosition + Least(writePosition, count - (N - readPosition))

ReadEnd(count) ==
  IF readPosition < writePosition \/ N - readPosition > count
    THEN readPosition + ReadSize(count)
    ELSE Least(writePosition, count - (N - readPosition))

Copied(count) ==
  IF readPosition < writePosition \/ N - readPosition > count
    THEN CopyOut(readPosition, ReadSize(count))
    ELSE CopyOut(readPosition, N - readPosition)
           \o CopyOut(0, Least(writePosition, count - (N - readPosition)))

\* Mutant of MoveReadPosition: an emptied buffer is not marked.
MutKeepReading(to) ==
  /\ readPosition' = to
  /\ UNCHANGED <<buffer, writePosition, canRead>>

\* The reads stop being possible when the positions meet.
MoveReadPosition(to) ==
  /\ readPosition' = to
  /\ canRead' = (to # writePosition)
  /\ UNCHANGED <<buffer, writePosition>>

RefuseRead(op, count) ==
  /\ ~ canRead \/ count = 0
  /\ Answer(op, IF canRead THEN 0 ELSE RetryRead, <<>>)
  /\ UNCHANGED ring

Peek(count) ==
  \/ RefuseRead("peek", count)
  \/ /\ canRead /\ count > 0
     /\ Answer("peek", ReadSize(count), Copied(count))
     /\ UNCHANGED ring

\* read() and commitReadOffset(), which skips what a peek has shown.
Read(count) ==
  \/ RefuseRead("read", count)
  \/ /\ canRead /\ count > 0
     /\ Answer("read", ReadSize(count), Copied(count))
     /\ MoveReadPosition(ReadEnd(count))

-----------------------------------------------------------------------------
(* write *)

WriteSize(count) ==
  IF writePosition < readPosition THEN Least(readPosition - writePosition, count)
  ELSE IF N - writePosition > count THEN count
  ELSE N - writePosition + Least(readPosition, count - (N - writePosition))

RefuseWrite(op, count) ==
  LET full == canRead /\ writePosition = readPosition IN
  /\ full \/ count = 0
  /\ Answer(op, IF full THEN RetryWrite ELSE 0, <<>>)
  /\ UNCHANGED ring

Write(s) ==
  LET n     == WriteSize(Len(s))
      size  == N - writePosition
      wraps == writePosition >= readPosition /\ size <= Len(s)
  IN \/ RefuseWrite("write", Len(s))
     \/ /\ ~ (canRead /\ writePosition = readPosition) /\ Len(s) > 0
        /\ Answer("write", n, SubSeq(s, 1, n))
        /\ canRead' = TRUE
        /\ IF wraps
             THEN /\ buffer' = CopyIn(CopyIn(buffer, writePosition, SubSeq(s, 1, size)),
                                      0, SubSeq(s, size + 1, n))
                  /\ writePosition' = n - size
             ELSE /\ buffer' = CopyIn(buffer, writePosition, SubSeq(s, 1, n))
                  /\ writePosition' = writePosition + n
        /\ UNCHANGED readPosition

-----------------------------------------------------------------------------
(* The stream variants call the stream once, with contiguous memory.  It    *)
(* moves n bytes of the size it is offered, or reports an error.            *)

Failed(op) == Answer(op, Broken, <<>>) /\ UNCHANGED ring

\* At the end of the memory the whole beginning is offered, whatever count is.
ReadAndWriteToStream(count) ==
  LET from == IF readPosition = N THEN 0 ELSE readPosition
      size == IF readPosition < writePosition
                THEN Least(writePosition - readPosition, count)
                ELSE IF readPosition = N THEN writePosition
                ELSE Least(N - readPosition, count)
  IN \/ RefuseRead("writeToStream", count)
     \/ /\ canRead /\ count > 0
        /\ \/ Failed("writeToStream")
           \/ \E n \in 0 .. size :
                /\ Answer("writeToStream", n, CopyOut(from, n))
                /\ IF n = 0 THEN UNCHANGED ring ELSE MoveReadPosition(from + n)

ReadFromStreamAndWrite(s, count) ==
  LET to   == IF writePosition = N THEN 0 ELSE writePosition
      size == IF writePosition < readPosition
                THEN Least(readPosition - writePosition, count)
                ELSE IF writePosition = N THEN readPosition
                ELSE Least(N - writePosition, count)
  IN \/ RefuseWrite("readFromStream", count)
     \/ /\ ~ (canRead /\ writePosition = readPosition) /\ count > 0
        /\ \/ Failed("readFromStream")
           \/ /\ Len(s) <= size
              /\ Answer("readFromStream", Len(s), s)
              /\ IF s = <<>> THEN UNCHANGED ring
                 ELSE /\ buffer' = CopyIn(buffer, to, s)
                      /\ writePosition' = to + Len(s)
                      /\ canRead' = TRUE
                      /\ UNCHANGED readPosition

SetBufferPosition(read, write, can) ==
  /\ readPosition' = read /\ writePosition' = write /\ canRead' = can
  /\ UNCHANGED buffer

\* A stream that has failed accepts nothing more: n bytes reach it in all.
FlushToStream ==
  \/ ~ canRead /\ Answer("flush", 0, <<>>) /\ UNCHANGED ring
  \/ /\ canRead
     /\ \E n \in 0 .. AvailableToRead : Answer("flush", n, Copied(n))
     /\ SetBufferPosition(0, 0, FALSE)

\* The coroutine ends with an error when the stream does, and the positions
\* stay.
FlushToStreamAsync ==
  \/ /\ canRead
     /\ \E n \in 0 .. AvailableToRead - 1 : Answer("flush", Broken, Copied(n))
     /\ UNCHANGED ring
  \/ /\ canRead
     /\ Answer("flush", AvailableToRead, Copied(AvailableToRead))
     /\ SetBufferPosition(0, 0, FALSE)
  \/ ~ canRead /\ Answer("flush", 0, <<>>) /\ UNCHANGED ring

-----------------------------------------------------------------------------

Next ==
  \/ \E count \in Counts : \/ Peek(count) \/ Read(count)
                           \/ ReadAndWriteToStream(count)
  \/ \E s \in Arguments : \/ Write(s)
                          \/ \E count \in Counts : ReadFromStreamAndWrite(s, count)
  \/ FlushToStream \/ FlushToStreamAsync

Spec == Init /\ [][Next]_vars

-----------------------------------------------------------------------------
(* Properties *)

\* The bytes in the buffer, oldest first.
Wrap(i)  == IF i < N THEN i ELSE i - N
Contents == [i \in 1 .. AvailableToRead |-> buffer[Wrap(readPosition + i - 1)]]

FIFO == INSTANCE BoundedFIFO WITH Capacity <- N, queue <- Contents

\* Every sequence of calls, with streams that accept any part of what they are
\* offered, moves the bytes as a bounded first-in first-out queue does.
ImplementsFIFO == FIFO!Spec

\* Every byte is either free or filled, also when the positions are equal or at
\* the end of the memory.
AvailableSum == AvailableToRead + AvailableToWrite = N

\* read() and write() move as much as there is, across the end of the memory.
ExactSizes ==
  \A count \in Counts \ {0} :
    /\ canRead => ReadSize(count) = Least(count, AvailableToRead)
    /\ AvailableToWrite > 0 => WriteSize(count) = Least(count, AvailableToWrite)
=============================================================================
