--------------------------- MODULE StreamTransfer ---------------------------
(***************************************************************************)
(* One HTTP body on its way through two stream transfers: the sender's,    *)
(* from the body's stream through its encoders to the connection, and the  *)
(* receiver's, from the connection (read through the buffered proxy that   *)
(* took the head, and perhaps some of the body with it) through its        *)
(* decoders to a sink.  Behind the body the connection carries the next    *)
(* message.  Each transfer is the blocking loop or the coroutine, and reads*)
(* and writes may be short.  data/stream/Stream.cpp,                       *)
(* data/buffer/Processor.cpp, web/protocol/http/encoding/Chunked.cpp,      *)
(* incoming/SimpleBodyDecoder.cpp, data/stream/StreamBufferedProxy.cpp.    *)
(*                                                                         *)
(* Bytes are "CR", "LF", the digits and anything else.  Chunks stay below  *)
(* ten bytes, so that a chunk size is one digit.  RETRY_READ and           *)
(* RETRY_WRITE only repeat a call and are stutter steps.                   *)
(***************************************************************************)
EXTENDS Integers, Sequences

CONSTANTS
  Bodies,      \* the bodies a message may have, sequences of bytes
  Framings,    \* "chunked", "length", "close", or "piped" (see Encoders)
  Drivers,     \* how a side transfers: "blocking", "coroutine"
  NextMessage, \* the bytes behind the body
  BufferSize,  \* the buffer of a transfer
  ProxySize    \* the buffer of the input stream's proxy

VARIABLES
  body, framing, drivers, \* the message and how each leg transfers it
  leg,       \* "encode", "decode", then "done"
  pc,        \* "read", "process", "flush"
  source,    \* what the leg's input stream still holds
  buffered,  \* what the proxy holds of it (decode)
  proxied,   \* how many bytes the transfer has taken
  stages,    \* the processors of the pipeline
  data,      \* data[i]: the input of stage i; data[Len(stages) + 1]: dataOut
  filled,    \* bytes read into the coroutine's buffer since it was reset
  wire, sink, \* what each leg has written
  ended      \* how each leg ended: "no", "finished", "failed", "error"

message == <<body, framing, drivers>>
transferVars ==
  <<message, leg, pc, source, buffered, proxied, stages, data, filled, wire, sink, ended>>

Shorter(m, n) == IF m < n THEN m ELSE n
Begin(s, n) == SubSeq(s, 1, n)
After(s, n) == SubSeq(s, n + 1, Len(s))

-----------------------------------------------------------------------------
(* Inline data: a pointer that is null or not, and the bytes left.         *)

NoData == [null |-> TRUE, left |-> <<>>]
InlineData(s) == [null |-> FALSE, left |-> s]
inc(d, n) == [d EXCEPT !.left = After(@, n)]
setEof(d) == [d EXCEPT !.left = <<>>]

Processor(kind) ==
  [kind |-> kind, writeChunkHeader |-> TRUE, firstChunk |-> TRUE, finished |-> FALSE,
   lastFlush |-> 0, header |-> <<>>, size |-> -1]

Answer(p, in, out, res) == [p |-> p, in |-> in, out |-> out, res |-> res]

StatelessIterate(p, in, out) ==
  IF out.left # <<>> THEN Answer(p, in, out, "FLUSH_DATA_OUT")
  ELSE IF in.null THEN Answer(p, setEof(in), in, "FINISHED")
  ELSE IF in.left = <<>> THEN Answer(p, in, out, "PROVIDE_DATA_IN")
  ELSE Answer(p, setEof(in), in, "FLUSH_DATA_OUT")

Digits == <<"0", "1", "2", "3", "4", "5", "6", "7", "8", "9">>
ChunkHeader(p, n) ==
  (IF p.firstChunk THEN <<>> ELSE <<"CR", "LF">>) \o <<Digits[n + 1], "CR", "LF">>

\* The header of a chunk goes out on its own; its bytes are passed on where
\* they are, and are taken from the input when the call comes back.
EncoderIterate(p, in, out) ==
  LET taken == inc(in, p.lastFlush)
      n == Len(taken.left)
      q == [p EXCEPT !.lastFlush = 0]
      Headed(header) ==
        Answer([q EXCEPT !.firstChunk = FALSE, !.writeChunkHeader = FALSE],
               taken, InlineData(header), "FLUSH_DATA_OUT")
  IN IF out.left # <<>> THEN Answer(p, in, out, "FLUSH_DATA_OUT")
     ELSE IF in.null
     THEN IF p.writeChunkHeader THEN Headed(ChunkHeader(p, 0) \o <<"CR", "LF">>)
          ELSE Answer([q EXCEPT !.finished = TRUE], in, NoData, "FINISHED")
     ELSE IF p.finished THEN Answer(q, taken, NoData, "FINISHED")
     ELSE IF n = 0 THEN Answer(q, taken, out, "PROVIDE_DATA_IN")
     ELSE IF p.writeChunkHeader THEN Headed(ChunkHeader(p, n))
     ELSE Answer([q EXCEPT !.lastFlush = n, !.writeChunkHeader = TRUE],
                 taken, taken, "FLUSH_DATA_OUT")

EndsWith(s, t) == Len(s) >= Len(t) /\ After(s, Len(s) - Len(t)) = t
DigitOf(c) == CHOOSE n \in 0..9 : Digits[n + 1] = c
\* strtol, base 16: white space, then digits up to what is none.
SizeIn(header) ==
  LET text == SelectSeq(header, LAMBDA c : c \notin {"CR", "LF"})
      value[i \in 0..Len(text)] == IF i = 0 THEN 0 ELSE 16 * value[i - 1] + DigitOf(text[i])
      ends == {i \in 0..Len(text) : \A j \in 1..i : \E d \in 1..10 : Digits[d] = text[j]}
  IN value[CHOOSE i \in ends : \A j \in ends : j <= i]

\* readHeader: byte by byte, -1 before the size is known, -2 in the last chunk.
RECURSIVE readHeader(_, _, _)
readHeader(p, in, out) ==
  IF in.left = <<>> \/ p.size >= 0 THEN Answer(p, in, out, "PROVIDE_DATA_IN")
  ELSE IF Len(p.header) >= 12 THEN Answer(p, in, out, "ERROR_CHUNK_HEADER_TOO_LONG")
  ELSE LET header == Append(p.header, Head(in.left))
           pos == Len(header)
           size == SizeIn(header)
           q == [p EXCEPT !.header = header]
           rest == inc(in, 1)
       IN IF p.size = -1 /\ pos > 2 /\ EndsWith(header, <<"CR", "LF">>)
          THEN IF size > 0 THEN Answer([q EXCEPT !.size = size], rest, out, "OK")
               ELSE readHeader([q EXCEPT !.size = -2], rest, out)
          ELSE IF p.size = -2 /\ pos > 4 /\ EndsWith(header, <<"CR", "LF", "CR", "LF">>)
          THEN Answer([q EXCEPT !.size = 0, !.finished = TRUE], rest, out, "OK")
          ELSE readHeader(q, rest, out)

DecoderIterate(p, in, out) ==
  LET taken == inc(in, p.lastFlush)
      left == p.size - p.lastFlush
      q == [p EXCEPT !.lastFlush = 0,
                     !.size = IF p.lastFlush > 0 /\ left = 0 THEN -1 ELSE left]
      n == Shorter(Len(taken.left), q.size)
  IN IF out.left # <<>> THEN Answer(p, in, out, "FLUSH_DATA_OUT")
     ELSE IF in.null
     THEN Answer([p EXCEPT !.header = <<>>, !.finished = TRUE], in, NoData, "FINISHED")
     ELSE IF p.finished THEN Answer(q, taken, NoData, "FINISHED")
     ELSE IF taken.left = <<>> THEN Answer(q, taken, out, "PROVIDE_DATA_IN")
     ELSE IF q.size < 0 THEN readHeader(q, taken, out)
     ELSE IF q.size = 0
     THEN Answer([q EXCEPT !.header = <<>>, !.finished = TRUE], taken, NoData, "FINISHED")
     ELSE Answer([q EXCEPT !.header = <<>>, !.lastFlush = n], taken,
                 InlineData(Begin(taken.left, n)), "FLUSH_DATA_OUT")

iterateOne(p, in, out) ==
  CASE p.kind = "stateless" -> StatelessIterate(p, in, out)
    [] p.kind = "encoder"   -> EncoderIterate(p, in, out)
    [] p.kind = "decoder"   -> DecoderIterate(p, in, out)

\* Mutant: the header of a chunk is read a buffer at a time.
MutSuggestReadSize(p) == IF p.size > 0 THEN p.size ELSE BufferSize

suggestInputStreamReadSize(p) ==
  IF p.kind # "decoder" THEN BufferSize ELSE IF p.size > 0 THEN p.size ELSE 1

\* ProcessingPipeline::iterate from stage i on.
RECURSIVE pipeline(_, _, _)
pipeline(ps, ds, i) ==
  LET a == iterateOne(ps[i], ds[i], ds[i + 1])
      ps2 == [ps EXCEPT ![i] = a.p]
      ds2 == [ds EXCEPT ![i] = a.in, ![i + 1] = a.out]
  IN CASE a.res = "OK" -> pipeline(ps2, ds2, i)
       [] a.res = "PROVIDE_DATA_IN" /\ i > 1 -> pipeline(ps2, ds2, i - 1)
       [] a.res \in {"FLUSH_DATA_OUT", "FINISHED"} /\ i < Len(ps) -> pipeline(ps2, ds2, i + 1)
       [] OTHER -> [ps |-> ps2, ds |-> ds2, res |-> a.res]

iterate(ps, ds) ==
  LET a == iterateOne(ps[1], ds[1], ds[2])
  IN IF Len(ps) = 1 THEN [ps |-> <<a.p>>, ds |-> <<a.in, a.out>>, res |-> a.res]
     ELSE IF ds[Len(ds)].left # <<>> THEN [ps |-> ps, ds |-> ds, res |-> "FLUSH_DATA_OUT"]
     ELSE pipeline(ps, ds, 1)

-----------------------------------------------------------------------------
(* The two legs.                                                           *)

\* The "piped" message is encoded, decoded and encoded again on its way out,
\* as a content encoding under the transfer encoding is.
Encoders ==
  CASE framing = "chunked" -> <<Processor("encoder")>>
    [] framing = "piped" -> <<Processor("encoder"), Processor("decoder"), Processor("encoder")>>
    [] OTHER -> <<Processor("stateless")>>

getStreamProcessor ==
  CASE framing = "chunked" -> <<Processor("decoder")>>
    [] framing = "piped" -> <<Processor("decoder"), Processor("stateless")>>
    [] OTHER -> <<Processor("stateless")>>

\* decode: a body of no length is not transferred at all.
transferSize == IF leg = "decode" /\ framing = "length" THEN Len(body) ELSE 0

TransferInit ==
  /\ body \in Bodies
  /\ framing \in Framings
  /\ drivers \in [{"encode", "decode"} -> Drivers]
  /\ leg = "encode" /\ pc = "read"
  /\ source = body /\ buffered = <<>> /\ proxied = 0
  /\ stages = Encoders
  /\ data = [i \in 1..(Len(Encoders) + 1) |-> NoData]
  /\ filled = <<>>
  /\ wire = <<>> /\ sink = <<>>
  /\ ended = [encode |-> "no", decode |-> "no"]

driver == drivers[leg]
dataOut == data[Len(data)]

desiredToRead ==
  LET room == Shorter(suggestInputStreamReadSize(stages[1]), BufferSize - Len(filled))
  IN IF transferSize > 0 /\ proxied + room > transferSize THEN transferSize - proxied ELSE room

\* What a read of n bytes may return: <<bytes, the source's rest, the proxy's rest>>.
Reads(n) ==
  IF leg = "encode"
  THEN {<<Begin(source, k), After(source, k), <<>>>> : k \in 1..Shorter(n, Len(source))}
  ELSE IF buffered # <<>>
  THEN {<<Begin(buffered, Shorter(n, Len(buffered))), source,
          After(buffered, Shorter(n, Len(buffered)))>>}
  ELSE {LET got == Shorter(n, k) IN
        <<Begin(source, got), After(source, k), SubSeq(source, got + 1, k)>> :
          k \in 1..Shorter(ProxySize, Len(source))}

Exhausted == source = <<>> /\ buffered = <<>>

End(how) ==
  /\ ended' = [ended EXCEPT ![leg] = how]
  /\ leg' = "done"
  /\ UNCHANGED <<message, pc, source, buffered, proxied, stages, data, filled, wire, sink>>

\* The sender is through: the receiver has its head, and what came with it.
Deliver ==
  /\ ended' = [ended EXCEPT !.encode = "finished"]
  /\ \E arrived \in 0..Len(wire \o NextMessage) :
     \E early \in 0..Shorter(ProxySize, arrived) :
       /\ arrived < Len(wire) \/ arrived = Len(wire \o NextMessage)
       /\ buffered' = Begin(wire \o NextMessage, early)
       /\ source' = SubSeq(wire \o NextMessage, early + 1, arrived)
  /\ IF framing = "length" /\ body = <<>> THEN leg' = "done" ELSE leg' = "decode"
  /\ pc' = "read" /\ proxied' = 0 /\ filled' = <<>>
  /\ stages' = getStreamProcessor
  /\ data' = [i \in 1..(Len(getStreamProcessor) + 1) |-> NoData]
  /\ UNCHANGED <<message, wire, sink>>

Finish == IF leg = "encode" THEN Deliver ELSE End("finished")

Input(d) == data' = [data EXCEPT ![1] = d]

Read ==
  /\ leg # "done" /\ pc = "read"
  /\ desiredToRead > 0
  /\ \E r \in Reads(desiredToRead) :
       /\ filled' = IF driver = "coroutine" THEN filled \o r[1] ELSE <<>>
       /\ Input(InlineData(IF driver = "coroutine" THEN filled \o r[1] ELSE r[1]))
       /\ source' = r[2] /\ buffered' = r[3]
       /\ proxied' = proxied + Len(r[1])
  /\ pc' = "process"
  /\ UNCHANGED <<message, leg, stages, wire, sink, ended>>

\* Nothing to read, or nothing to ask for: the processor is told with a null
\* pointer, by the blocking loop whatever the stream said.
ReadNothing ==
  /\ leg # "done" /\ pc = "read"
  /\ (desiredToRead > 0 => Exhausted)
  /\ Input(NoData)
  /\ pc' = "process"
  /\ UNCHANGED <<message, leg, source, buffered, proxied, stages, filled, wire, sink, ended>>

\* The coroutine that knows how much it wants reports BROKEN_PIPE.
ReadBroken ==
  /\ leg # "done" /\ pc = "read"
  /\ desiredToRead > 0 /\ Exhausted
  /\ driver = "coroutine" /\ transferSize > 0
  /\ End("error")

\* More input is read only when none is left.
Process ==
  /\ leg # "done" /\ pc = "process"
  /\ LET a == iterate(stages, data)
     IN \/ /\ a.res \in {"OK", "PROVIDE_DATA_IN", "FLUSH_DATA_OUT"}
           /\ stages' = a.ps /\ data' = a.ds
           /\ pc' = CASE a.res = "OK" -> "process"
                      [] a.res = "PROVIDE_DATA_IN" ->
                           IF a.ds[1].left = <<>> THEN "read" ELSE "process"
                      [] a.res = "FLUSH_DATA_OUT" -> "flush"
           /\ filled' = IF a.res = "OK" THEN filled ELSE <<>>
           /\ UNCHANGED <<message, leg, source, buffered, proxied, wire, sink, ended>>
        \/ /\ a.res = "FINISHED"
           /\ Finish
        \/ /\ a.res = "ERROR_CHUNK_HEADER_TOO_LONG"
           /\ End("error")

\* A short write leaves the rest in dataOut: the blocking loop asks the
\* processor again, the coroutine writes on until all is out.
Write ==
  /\ leg # "done" /\ pc = "flush"
  /\ \E n \in 1..Len(dataOut.left) :
       /\ IF leg = "encode"
          THEN wire' = wire \o Begin(dataOut.left, n) /\ UNCHANGED sink
          ELSE sink' = sink \o Begin(dataOut.left, n) /\ UNCHANGED wire
       /\ data' = [data EXCEPT ![Len(data)] = inc(@, n)]
       /\ pc' = IF driver = "coroutine" /\ n < Len(dataOut.left) THEN "flush" ELSE "process"
  /\ UNCHANGED <<message, leg, source, buffered, proxied, stages, filled, ended>>

WriteFails == leg # "done" /\ pc = "flush" /\ End("failed")

TransferNext ==
  \/ Read \/ ReadNothing \/ ReadBroken
  \/ Process
  \/ Write \/ WriteFails

TransferSpec == TransferInit /\ [][TransferNext]_transferVars

-----------------------------------------------------------------------------
(* Properties.                                                             *)

InputBytes == Len(buffered) + Len(source)
Whole == proxied + InputBytes = Len(wire \o NextMessage)
Framed == framing \in {"chunked", "piped"} \/ (framing = "length" /\ body # <<>>)

\* However the reads, the writes and the chunks fall, the sink holds a
\* beginning of the body and nothing else.
PrefixDelivered ==
  leg # "encode" /\ framing # "close" =>
    Len(sink) <= Len(body) /\ sink = Begin(body, Len(sink))

\* A transfer of a message that has arrived in full never asks for a byte
\* behind its end: it neither waits for one nor takes it from the next message.
AsksForItsOwn ==
  leg = "decode" /\ pc = "read" /\ Framed =>
    proxied + desiredToRead <= Len(wire)

\* When the receiver finishes with the whole message it has the whole body,
\* and the next message is where it was; and the decoder never refuses what
\* the encoder wrote.
BodyDelivered ==
  leg = "done" /\ Whole =>
    /\ ended.decode # "error"
    /\ ended.decode = "finished" /\ Framed =>
         /\ sink = body
         /\ buffered \o source = NextMessage
=============================================================================
