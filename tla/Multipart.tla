------------------------------ MODULE Multipart ------------------------------
(***************************************************************************)
(* A multipart body from the sender's parts to the receiver's: the body's  *)
(* stream (outgoing/MultipartBody.cpp), read in pieces of any size, and the*)
(* parser that takes the pieces (mime/multipart/StatefulParser.cpp) with   *)
(* the readers of the parts behind it (Reader.cpp, PartReader.cpp,         *)
(* PartList.cpp).  Bytes are "CR", "LF", "-", the boundary's "b", and what *)
(* headers and data are made of; the headers of a part are one line whose  *)
(* first byte stands for the part's name.                                  *)
(***************************************************************************)
EXTENDS Integers, Sequences

CONSTANTS
  Messages,    \* what is sent: sequences of [headers, data]
  Names,       \* header bytes that name a part
  Readers,     \* the names that have a reader of their own; others have the default
  Drivers,     \* "blocking" and "coroutine" readers
  MaxPiece,    \* the longest piece read at once
  MaxDataSize, \* the readers' limit of a part's size
  MaxPartHeadersSize

VARIABLES
  parts, driver, flushParts, \* the message and how it is handled
  body,    \* MultipartBody: state, the part's number, m_readStream, the part's data left
  inline,  \* the bytes given to the parser and not yet taken
  parser,  \* StatefulParser
  current, \* PartsParser: the part being read and its reader
  list,    \* PartList: the parts read
  status   \* "running", "finished", "error", "crashed"

multipartVars == <<parts, driver, flushParts, body, inline, parser, current, list, status>>

Least(m, n) == IF m < n THEN m ELSE n
First(s, n) == SubSeq(s, 1, n)
Rest(s, n) == SubSeq(s, n + 1, Len(s))

Line == <<"CR", "LF">>
FirstBoundary == <<"-", "-", "b">>
NextBoundary == Line \o FirstBoundary
NoBytes == <<"none">> \* m_readStream without data

-----------------------------------------------------------------------------
(* MultipartBody.                                                          *)

\* readBoundary, readHeaders: what a state of the body has to be read first.
Boundary(b) ==
  CASE b.part > Len(parts) -> NextBoundary \o <<"-", "-">> \o Line
    [] b.part = 1          -> FirstBoundary \o Line
    [] OTHER               -> NextBoundary \o Line

StateStream(b) ==
  IF b.state = "BODY" THEN b.data
  ELSE IF b.stream # NoBytes THEN b.stream
  ELSE IF b.state = "BOUNDARY" THEN Boundary(b)
  ELSE parts[b.part].headers \o Line

Leave(b, n) ==
  IF b.state = "BODY" THEN [b EXCEPT !.data = Rest(@, n)]
  ELSE [b EXCEPT !.stream = Rest(StateStream(b), n)]

\* incPart: the iterator's next part.
incPart(b) ==
  LET part == b.part + 1
  IN [b EXCEPT !.state = "BOUNDARY", !.part = part,
               !.data = IF part <= Len(parts) THEN parts[part].data ELSE <<>>]

NextState(b) ==
  CASE b.state = "BOUNDARY" -> [b EXCEPT !.state = "HEADERS", !.stream = NoBytes]
    [] b.state = "HEADERS"  -> [b EXCEPT !.state = "BODY", !.stream = NoBytes]
    [] b.state = "BODY"     -> [b EXCEPT !.state = "INC_PART"]

\* read: up to count bytes, over as many states as that takes.
RECURSIVE readBody(_, _, _)
readBody(b, count, got) ==
  LET n == Least(count - Len(got), Len(StateStream(b)))
  IN IF Len(got) = count \/ b.state = "FINISHED" THEN [body |-> b, got |-> got]
     ELSE IF b.state = "INC_PART" THEN readBody(incPart(b), count, got)
     ELSE IF n > 0 THEN readBody(Leave(b, n), count, got \o First(StateStream(b), n))
     ELSE IF b.state = "BOUNDARY" /\ b.part > Len(parts)
     THEN [body |-> [b EXCEPT !.state = "FINISHED"], got |-> got]
     ELSE IF b.state = "BODY" /\ flushParts /\ got # <<>>
     THEN [body |-> NextState(b), got |-> got]
     ELSE readBody(NextState(b), count, got)

-----------------------------------------------------------------------------
(* StatefulParser.                                                         *)

NoCall == [type |-> "none", data |-> <<>>]
OnData(s) == [type |-> "data", data |-> s]
OnHeaders == [type |-> "headers", data |-> <<>>]

\* A step of parseNext: the parser, the bytes left, and the listener's call.
Parsed(p, left, call) == [p |-> p, left |-> left, call |-> call, ok |-> TRUE]
Throws(p, in) == [p |-> p, left |-> in, call |-> NoCall, ok |-> FALSE]

\* Mutant: what looked like a boundary is not given to the listener.
MutParseNextBoundary(p, in) ==
  LET sample == IF p.currPartIndex = 0 THEN FirstBoundary ELSE NextBoundary
      expected == Rest(sample, p.currBoundaryCharIndex)
      n == Least(Len(expected), Len(in))
      found == p.currBoundaryCharIndex + n
  IN IF First(in, n) = First(expected, n)
     THEN IF found = Len(sample)
          THEN Parsed([p EXCEPT !.state = "AFTER_BOUNDARY", !.currBoundaryCharIndex = 0,
                                !.readingBody = FALSE],
                      Rest(in, n), IF p.currPartIndex > 0 THEN OnData(<<>>) ELSE NoCall)
          ELSE Parsed([p EXCEPT !.currBoundaryCharIndex = found], Rest(in, n), NoCall)
     ELSE IF p.readingBody
     THEN Parsed([p EXCEPT !.state = "DATA", !.currBoundaryCharIndex = 0,
                           !.checkForBoundary = @ /\ p.currBoundaryCharIndex > 0], in, NoCall)
     ELSE Throws(p, in)

parseNext_Boundary(p, in) ==
  LET sample == IF p.currPartIndex = 0 THEN FirstBoundary ELSE NextBoundary
      expected == Rest(sample, p.currBoundaryCharIndex)
      n == Least(Len(expected), Len(in))
      found == p.currBoundaryCharIndex + n
  IN IF First(in, n) = First(expected, n)
     THEN IF found = Len(sample)
          THEN Parsed([p EXCEPT !.state = "AFTER_BOUNDARY", !.currBoundaryCharIndex = 0,
                                !.readingBody = FALSE],
                      Rest(in, n), IF p.currPartIndex > 0 THEN OnData(<<>>) ELSE NoCall)
          ELSE Parsed([p EXCEPT !.currBoundaryCharIndex = found], Rest(in, n), NoCall)
     ELSE IF p.readingBody
     THEN Parsed([p EXCEPT !.state = "DATA", !.currBoundaryCharIndex = 0,
                           !.checkForBoundary = @ /\ p.currBoundaryCharIndex > 0],
                 in, IF p.currBoundaryCharIndex > 0
                     THEN OnData(First(sample, p.currBoundaryCharIndex)) ELSE NoCall)
     ELSE Throws(p, in)

parseNext_AfterBoundary(p, in) ==
  LET first == p.currBoundaryCharIndex = 0
      finishing == p.finishingBoundary \/ (first /\ in[1] = "-")
      q == [p EXCEPT !.finishingBoundary = finishing]
      second == IF first THEN 2 ELSE 1
  IN IF first /\ in[1] \notin {"-", "CR"} THEN Throws(p, in)
     ELSE IF Len(in) < second
     THEN Parsed([q EXCEPT !.currBoundaryCharIndex = 1], Rest(in, 1), NoCall)
     ELSE IF finishing /\ in[second] = "-"
     THEN Parsed([q EXCEPT !.state = "DONE", !.currBoundaryCharIndex = 0],
                 Rest(in, second), NoCall)
     ELSE IF ~finishing /\ in[second] = "LF"
     THEN Parsed([q EXCEPT !.state = "HEADERS", !.currBoundaryCharIndex = 0,
                           !.headerSectionEndAccumulator = <<>>],
                 Rest(in, second), NoCall)
     ELSE Throws(q, in)

\* The accumulator keeps the last four bytes; the buffer has a limit.
parseNext_Headers(p, in) ==
  LET seen == p.headerSectionEndAccumulator \o in
      before == Len(p.headerSectionEndAccumulator)
      ends == {i \in 1..Len(in) : before + i >= 4
                 /\ SubSeq(seen, before + i - 3, before + i) = Line \o Line}
      end == CHOOSE i \in ends : \A j \in ends : i <= j
      size == Len(p.headersBuffer) + (IF ends # {} THEN end - 1 ELSE Len(in))
  IN IF size > MaxPartHeadersSize THEN Throws(p, in)
     ELSE IF ends # {}
     THEN Parsed([p EXCEPT !.state = "DATA", !.checkForBoundary = TRUE,
                           !.headersBuffer = @ \o First(in, end - 1)],
                 Rest(in, end), OnHeaders)
     ELSE Parsed([p EXCEPT !.headersBuffer = @ \o in,
                           !.headerSectionEndAccumulator = Rest(seen, Len(seen) - Least(4, Len(seen)))],
                 <<>>, NoCall)

parseNext_Data(p, in) ==
  LET q == [p EXCEPT !.checkForBoundary = TRUE]
      from == IF p.checkForBoundary THEN 1 ELSE 2
      returns == {i \in from..Len(in) : in[i] = "CR"}
      at == CHOOSE i \in returns : \A j \in returns : i <= j
  IN IF returns = {} THEN Parsed(q, <<>>, OnData(in))
     ELSE Parsed([q EXCEPT !.state = "BOUNDARY", !.readingBody = TRUE], Rest(in, at - 1),
                 IF at > 1 THEN OnData(First(in, at - 1)) ELSE NoCall)

parseNext(p, in) ==
  CASE p.state = "BOUNDARY"       -> parseNext_Boundary(p, in)
    [] p.state = "AFTER_BOUNDARY" -> parseNext_AfterBoundary(p, in)
    [] p.state = "HEADERS"        -> parseNext_Headers(p, in)
    [] p.state = "DATA"           -> parseNext_Data(p, in)

-----------------------------------------------------------------------------
(* The listener: PartsParser and the readers of the parts.                 *)

\* The reader stays the one of the part before when the part has no name; the
\* first part then has none.
onPartHeaders(c, headers) ==
  [headers |-> headers, data |-> <<>>, size |-> 0,
   reader |-> IF headers[1] \notin Names THEN c.reader
              ELSE IF headers[1] \in Readers THEN headers[1] ELSE "default"]

\* StreamPartReader adds up what it has taken, AsyncStreamPartReader does not.
TooLarge(c, data) == c.reader # "none" /\ c.size + Len(data) > MaxDataSize
onPartData(c, data) ==
  [c EXCEPT !.data = IF c.reader = "none" THEN @ ELSE @ \o data,
            !.size = IF driver = "blocking" THEN @ + Len(data) ELSE @]

\* The bytes before the final LF; the CR before it ends the headers.
Headers(p) == First(p.headersBuffer, Len(p.headersBuffer) - 1)

NoPart == [headers |-> <<>>, data |-> <<>>, size |-> 0, reader |-> "none"]

MultipartInit ==
  /\ parts \in Messages
  /\ driver \in Drivers
  /\ flushParts \in BOOLEAN
  /\ body = [state |-> "BOUNDARY", part |-> 1, stream |-> NoBytes, data |-> parts[1].data]
  /\ inline = <<>>
  /\ parser = [state |-> "BOUNDARY", currPartIndex |-> 0, currBoundaryCharIndex |-> 0,
               checkForBoundary |-> TRUE, finishingBoundary |-> FALSE, readingBody |-> FALSE,
               headerSectionEndAccumulator |-> <<>>, headersBuffer |-> <<>>]
  /\ current = NoPart
  /\ list = <<>>
  /\ status = "running"

ReadPiece ==
  /\ status = "running" /\ inline = <<>>
  /\ \E count \in 1..MaxPiece :
       LET r == readBody(body, count, <<>>)
       IN /\ body' = r.body
          /\ inline' = r.got
          /\ status' = IF r.got = <<>> THEN "finished" ELSE status
  /\ UNCHANGED <<parts, driver, flushParts, parser, current, list>>

\* AsyncPartsParser::onPartDone calls the reader without asking for one.
CallsNoReader(call) == driver = "coroutine" /\ call = OnData(<<>>) /\ current.reader = "none"

\* One turn of parseNext's loop with the listener's call; a coroutine comes
\* back for the rest of the bytes after the call.
ParseNext ==
  /\ status = "running" /\ inline # <<>> /\ parser.state # "DONE"
  /\ LET r == parseNext(parser, inline)
         fails == ~r.ok \/ (r.call.type = "data" /\ TooLarge(current, r.call.data))
     IN \/ /\ fails \/ CallsNoReader(r.call)
           /\ status' = IF fails THEN "error" ELSE "crashed"
           /\ UNCHANGED <<inline, parser, current, list>>
        \/ /\ ~fails /\ ~CallsNoReader(r.call)
           /\ inline' = r.left
           /\ parser' = IF r.call.type # "headers" THEN r.p
                        ELSE [r.p EXCEPT !.currPartIndex = @ + 1, !.headersBuffer = <<>>]
           /\ current' = CASE r.call.type = "headers" -> onPartHeaders(current, Headers(r.p))
                           [] r.call.type = "data" -> onPartData(current, r.call.data)
                           [] OTHER -> current
           /\ list' = IF r.call = OnData(<<>>) THEN Append(list, current) ELSE list
           /\ UNCHANGED status
  /\ UNCHANGED <<parts, driver, flushParts, body>>

\* A parser that is done takes nothing more: the blocking transfer stops with
\* what is left, the coroutine drops it and goes on to the end of the input.
Epilogue ==
  /\ status = "running" /\ inline # <<>> /\ parser.state = "DONE"
  /\ status' = IF driver = "blocking" THEN "finished" ELSE status
  /\ inline' = IF driver = "blocking" THEN inline ELSE <<>>
  /\ UNCHANGED <<parts, driver, flushParts, body, parser, current, list>>

MultipartNext == ReadPiece \/ ParseNext \/ Epilogue
MultipartSpec == MultipartInit /\ [][MultipartNext]_multipartVars

-----------------------------------------------------------------------------
(* Properties.                                                             *)

Same(part, sent) ==
  part.headers = sent.headers /\ part.data = IF part.reader = "none" THEN <<>> ELSE sent.data

\* However the body is cut into pieces, the parts that have been read are the
\* first of those sent, with their data if they have a reader, and the part
\* being read has a beginning of its data; a body that is read to its end has
\* all of them.
PartsArrive ==
  /\ Len(list) <= Len(parts)
  /\ \A i \in 1..Len(list) : Same(list[i], parts[i])
  /\ parser.currPartIndex > Len(list) =>
       LET sent == parts[parser.currPartIndex].data
       IN Len(current.data) <= Len(sent) /\ current.data = First(sent, Len(current.data))
  /\ status = "finished" => Len(list) = Len(parts)

\* A body is refused only for a part that is larger than its reader takes, or
\* whose headers, up to the CR of the empty line, are larger than the parser
\* does; and no part with such headers is read.
RefusedForSize ==
  LET long == {i \in 1..Len(parts) : Len(parts[i].headers) + 1 > MaxPartHeadersSize}
  IN /\ status = "error" =>
          long # {} \/ \E i \in 1..Len(parts) : Len(parts[i].data) > MaxDataSize
     /\ long \cap 1..Len(list) = {}

\* Only a coroutine fails for want of a reader, and only when no part so far
\* had a name.
CrashesUnnamed ==
  status = "crashed" =>
    /\ driver = "coroutine" /\ list = <<>>
    /\ \A i \in 1..parser.currPartIndex : parts[i].headers[1] \notin Names

\* A part with a name goes to the reader of that name, or to the default one.
OwnReader ==
  \A i \in 1..Len(list) :
    list[i].headers[1] \in Names =>
      list[i].reader = IF list[i].headers[1] \in Readers THEN list[i].headers[1] ELSE "default"

\* maxDataSize of a part reader: no part larger than it is read.
SizeLimited == \A i \in 1..Len(list) : Len(list[i].data) <= MaxDataSize
SizeLimitedBlocking == driver = "blocking" => SizeLimited
=============================================================================
