---------------------------- MODULE MemoryStreams ----------------------------
(* Streams in memory that grow: a text is composed in a BufferOutputStream,  *)
(* read back by a BufferInputStream and passed on through a FIFOInputStream. *)
(* The ring of the last is the queue that BoundedFIFO specifies.             *)
EXTENDS Integers, Sequences, FiniteSetsExt

CONSTANTS StackSize,   \* STACK_BUFFER_SIZE
          Width,       \* bits of v_buff_size
          Capacities,  \* initial capacities asked for
          Counts,      \* bytes of one call
          MaxText, MaxTexts

\* A sum of sizes is at most the first power of two that a number of Width bits does not
\* hold: beyond it the sum itself would overflow.
MemoryConstants ==
  /\ StackSize \in Nat /\ Capacities \subseteq Nat /\ Counts \subseteq Nat
  /\ MaxText \in Nat /\ Width \in Nat \ {0}
  /\ \A k \in 0 .. Width : 2 ^ k \in Nat
  /\ \A count \in Counts : MaxText + count <= 2 ^ (Width - 1)

VARIABLES out,    \* BufferOutputStream: m_data (its length is m_capacity), m_position, m_heapAllocated
          text,   \* the bytes written since it was reset
          turn,   \* texts begun
          in,     \* BufferInputStream: m_data, m_position
          fifoStream,   \* FIFOInputStream: the bytes of the ring and its size
          got     \* what has come out of the FIFO stream

memoryVars == <<out, text, turn, in, fifoStream, got>>

Fresh == 0
Byte(k) == turn * (MaxText + 1) + k
Least(a, b) == IF a < b THEN a ELSE b
First(s, n) == SubSeq(s, 1, Least(n, Len(s)))
After(s, n) == SubSeq(s, n + 1, Len(s))

\* Binary::nextP2: the next power of two, in a signed number.
nextP2(v) ==
  LET power == Min({p \in {2 ^ k : k \in 0 .. Width - 1} : p >= v}) IN
  IF power < 2 ^ (Width - 1) THEN power ELSE power - 2 ^ Width

(* reserveBytesUpfront: the size of the memory after it, 0 if it throws.     *)
(* m_maxCapacity is -1 and cannot be set.                                    *)
m_maxCapacity == -1

reserve(capacity, needed) ==
  LET power       == nextP2(needed)
      newCapacity == IF power < 0 \/ (m_maxCapacity > 0 /\ power > m_maxCapacity)
                     THEN m_maxCapacity ELSE power
  IN  IF needed <= capacity THEN capacity
      ELSE IF newCapacity < needed THEN 0 ELSE newCapacity

Memory(size) == [i \in 1 .. size |-> Fresh]

constructed(initialCapacity) ==
  [data     |-> Memory(IF initialCapacity > StackSize THEN initialCapacity ELSE StackSize),
   position |-> 0,
   onHeap   |-> initialCapacity > StackSize]

Start(initialCapacity) ==
  /\ out' = constructed(initialCapacity)
  /\ text' = <<>>
  /\ turn < MaxTexts /\ turn' = turn + 1

MemoryInit ==
  /\ \E c \in Capacities : out = constructed(c)
  /\ text = <<>> /\ turn = 1
  /\ in = [data |-> <<>>, position |-> 0]
  /\ fifoStream = [queue |-> <<>>, size |-> 1]
  /\ got = <<>>

-----------------------------------------------------------------------------
(* BufferOutputStream *)

\* write, and writeCharSimple for one byte: memory that grew keeps what was written before
\* the position.  A write whose memory cannot be had throws before it changes anything.
write(count) ==
  LET needed == out.position + count
      size   == reserve(Len(out.data), needed)
      kept   == IF size = Len(out.data) THEN out.data
                ELSE First(out.data, out.position) \o Memory(size - out.position)
      bytes  == [k \in 1 .. count |-> Byte(Len(text) + k)]
  IN /\ Len(text) + count <= MaxText
     /\ IF size = 0 THEN UNCHANGED <<out, text>>
        ELSE /\ out' = [data |-> [i \in 1 .. size |-> IF i > out.position /\ i <= needed
                                                      THEN bytes[i - out.position] ELSE kept[i]],
                        position |-> needed,
                        onHeap   |-> out.onHeap \/ needed > Len(out.data)]
             /\ text' = text \o bytes
     /\ UNCHANGED <<turn, in, fifoStream, got>>

reset == \E c \in Capacities : Start(c) /\ UNCHANGED <<in, fifoStream, got>>

\* setCurrentPosition(0): the next text is written over the last.
rewind ==
  /\ turn < MaxTexts /\ turn' = turn + 1
  /\ out' = [out EXCEPT !.position = 0] /\ text' = <<>>
  /\ UNCHANGED <<in, fifoStream, got>>

toString == First(out.data, out.position)

\* getSubstring(pos, count), for a pos inside of the text.
getSubstring(pos, count) ==
  SubSeq(out.data, pos + 1, IF pos + count <= out.position THEN pos + count ELSE out.position)

-----------------------------------------------------------------------------
(* BufferInputStream and FIFOInputStream *)

\* The text is handed to both streams anew: their reset.
hand ==
  /\ in' = [data |-> toString, position |-> 0]
  /\ fifoStream' = [fifoStream EXCEPT !.queue = <<>>]
  /\ got' = <<>>
  /\ UNCHANGED <<out, text, turn>>

availableToRead == Len(in.data) - in.position
peek(count) == First(After(in.data, in.position), count)
Committed(count) == [in EXCEPT !.position = @ + Least(count, availableToRead)]

\* FIFOInputStream::reserveBytesUpfront reads all that the ring has into a larger one.
Reserved(count) == reserve(fifoStream.size, Len(fifoStream.queue) + count)

\* What is peeked is written to the FIFO stream, and committed when that took it.
feed(count) ==
  LET bytes == peek(count)
      size  == Reserved(Len(bytes))
      taken == First(bytes, size - Len(fifoStream.queue)) IN
  /\ IF size = 0 THEN UNCHANGED <<in, fifoStream>>
     ELSE /\ fifoStream' = [queue |-> fifoStream.queue \o taken, size |-> size]
          /\ in' = Committed(Len(taken))
  /\ UNCHANGED <<out, text, turn, got>>

\* readFromStreamAndWrite: room is made for count bytes; one read takes those that fit
\* behind the write position, which the ring's positions decide.
readFromStreamAndWrite(count) ==
  LET size == Reserved(count) IN
  /\ IF size = 0 \/ count = 0 \/ availableToRead = 0
     THEN /\ fifoStream' = [fifoStream EXCEPT !.size = IF size = 0 THEN @ ELSE size]
          /\ UNCHANGED in
     ELSE \E n \in 1 .. Least(count, availableToRead) :
            /\ fifoStream' = [queue |-> fifoStream.queue \o peek(n), size |-> size]
            /\ in' = Committed(n)
  /\ UNCHANGED <<out, text, turn, got>>

\* read: the FIFO stream's own bytes first; the input's only when they are gone.
read(count) ==
  /\ IF fifoStream.queue # <<>>
     THEN /\ got' = got \o First(fifoStream.queue, count)
          /\ fifoStream' = [fifoStream EXCEPT !.queue = After(@, count)]
          /\ UNCHANGED in
     ELSE got' = got \o peek(count) /\ in' = Committed(count) /\ UNCHANGED fifoStream
  /\ UNCHANGED <<out, text, turn>>

\* peek and then commitReadOffset of the FIFO stream: what is committed has been seen.
peekAndCommit(count) ==
  /\ fifoStream.queue # <<>>
  /\ \E n \in 0 .. Least(count, Len(fifoStream.queue)) :
       /\ got' = got \o First(First(fifoStream.queue, count), n)
       /\ fifoStream' = [fifoStream EXCEPT !.queue = After(@, n)]
  /\ UNCHANGED <<out, text, turn, in>>

MemoryNext ==
  \/ \E n \in Counts : \/ write(n) \/ feed(n) \/ readFromStreamAndWrite(n)
                       \/ read(n) \/ peekAndCommit(n)
  \/ reset \/ rewind \/ hand

MemorySpec == MemoryInit /\ [][MemoryNext]_memoryVars

-----------------------------------------------------------------------------
\* Growing and writing over an older text lose and invent no byte of the text that is
\* being written, and memory that is deleted was allocated
\* (BufferStream.cpp, reserveBytesUpfront and reset).
TextKept ==
  /\ toString = text
  /\ out.onHeap <=> Len(out.data) > StackSize
  /\ \A pos \in 0 .. Len(text), count \in Counts :
       getSubstring(pos, count) = First(After(text, pos), count)

\* What came out, what waits in the ring and what is still to be read are the text that
\* was handed in, and the ring holds no more than its memory
\* (FIFOStream.cpp, reserveBytesUpfront).
PassedOn ==
  /\ got \o fifoStream.queue \o After(in.data, in.position) = in.data
  /\ Len(fifoStream.queue) <= fifoStream.size
=============================================================================
