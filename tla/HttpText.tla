------------------------------ MODULE HttpText ------------------------------
(* The text of an HTTP head (web::protocol::http): what outgoing::Request    *)
(* and Response write before the body, the readers of incoming that take it  *)
(* from the connection piece by piece, http::Parser that reads it back, and  *)
(* the values of headers that have a grammar of their own: Range,            *)
(* Content-Range, and lists of tokens and parameters.                        *)
EXTENDS Caret

CONSTANTS Heads,            \* heads as they are put together before sending
          RangeLists, ContentRanges, ItemLists,    \* values of headers
          Follows,          \* what may stand behind a head on its connection
          readChunkSize, maxHeadersSize

VARIABLES source,           \* [kind, value]: what is written
          stream,           \* what the connection has still to give
          bufferStream,     \* m_bufferStream: what has been read
          status,           \* "reading", "done", "refused"
          parsed

textVars == <<source, stream, bufferStream, status, parsed>>

(* Numbers as snprintf and strtoll have them; Number is in Caret.            *)
Decimal(n) ==
  LET digits[k \in 0 .. n] ==
        LET last == <<ToString(k % 10)>> IN IF k < 10 THEN last ELSE digits[k \div 10] \o last
  IN  digits[n]

Written(n) == IF n < 0 THEN <<"-">> \o Decimal(-n) ELSE Decimal(n)

strToInt64(text) ==
  LET Whole(number) == [number EXCEPT !.valid = @ /\ number.end = Len(text) + 1]
  IN  Whole(Number(text, 1))

(* The starting lines.                                                       *)
requestLine(head)  == head.method \o <<" ", "/">> \o head.path \o <<" ", "HTTP">> \o CRLF
responseLine(head) == <<"HTTP", " ">> \o Written(head.code) \o <<" ">> \o head.description
                      \o CRLF

writeHeaders(headers) ==
  FoldLeft(LAMBDA text, h : text \o h[1] \o <<":", " ">> \o h[2] \o CRLF, <<>>, headers)

Text(kind, head) ==
  (IF kind = "request" THEN requestLine(head) ELSE responseLine(head))
  \o writeHeaders(head.headers) \o CRLF

(* The parser.  A step of it gives the caret and what it has found; status   *)
(* is what error.code would be.                                              *)
Word(caret, end) == [found |-> Inside(end), text |-> Label(caret, end), caret |-> end]

parseRequestStartingLine(caret) ==
  LET method   == Word(caret, findChar(caret, " "))
      first    == inc(method.caret, 1)
      path     == Word(first, findChar(first, " "))
      second   == inc(path.caret, 1)
      protocol == Word(second, findRN(second))
      valid    == method.found /\ path.found /\ protocol.found
  IN  [code |-> IF valid THEN 0 ELSE 400, caret |-> skipRN(protocol.caret),
       line |-> IF valid THEN <<method.text, path.text, protocol.text>> ELSE <<>>]

parseResponseStartingLine(caret) ==
  LET protocol    == Word(caret, findChar(caret, " "))
      first       == inc(protocol.caret, 1)
      number      == parseInt(first)
      description == Word(number, findRN(number))
      valid       == protocol.found /\ description.found
  IN  [code |-> IF valid THEN 0 ELSE 400, caret |-> skipRN(description.caret),
       line |-> IF valid THEN <<protocol.text, Written(Number(first.data, first.pos).value),
                                description.text>>
                ELSE <<>>]

(* parseHeaderNameLabel looks for ':' or ' ' as far as the data go, over the *)
(* ends of lines too.                                                        *)
parseOneHeader(caret) ==
  LET Complete(name, value, end) ==
        [code |-> 0, caret |-> skipRN(end), header |-> <<name.text, Label(value, end)>>]
      Valued(name, value) == Complete(name, value, findRN(value))
      Named(name, colon) ==
        IF canContinueAtChar(colon, ":") THEN Valued(name, skipChar(inc(colon, 1), " "))
        ELSE [code |-> 400, caret |-> colon, header |-> <<>>]
      First(name) ==
        IF name.found THEN Named(name, skipChar(name.caret, " "))
        ELSE [code |-> 431, caret |-> name.caret, header |-> <<>>]
      Begin(from) == First(Word(from, findCharFromSet(from, {":", " "})))
  IN  Begin(skipChar(caret, " "))

(* The headers up to the empty line, in their order.                         *)
parseHeaders(caret) ==
  LET from[pos \in 1 .. Len(caret.data) + 1] ==
        LET here == setPosition(caret, pos)
            Before(one, rest) == [rest EXCEPT !.headers = <<one.header>> \o @]
            First(one) == IF one.code # 0 THEN [code |-> one.code, headers |-> <<>>]
                          ELSE Before(one, from[one.caret.pos])
        IN  IF isAtRN(here) THEN [code |-> 0, headers |-> <<>>] ELSE First(parseOneHeader(here))
  IN  from[caret.pos]

ParseHead(kind, text) ==
  LET With(line, rest) == [code |-> rest.code, line |-> line, headers |-> rest.headers]
      Started(start) ==
        IF start.code # 0 THEN [code |-> start.code, line |-> <<>>, headers |-> <<>>]
        ELSE With(start.line, parseHeaders(start.caret))
  IN  Started(IF kind = "request" THEN parseRequestStartingLine(Caret(text))
                                  ELSE parseResponseStartingLine(Caret(text)))

(* http::Range: toString, and parse with its parseNext and                   *)
(* parseNextRemaining.                                                       *)
RangeText(range) == range.units \o <<"=">> \o Written(range.start) \o <<"-">>
                    \o Written(range.end)

InvalidRange == [units |-> <<>>, start |-> -1, end |-> -1, valid |-> FALSE]

parseNext(caret, units) ==
  LET suffix == canContinueAtChar(caret, "-")
      Parsed(first, second, end, open) ==
        [caret |-> end,
         range |-> IF (suffix \/ first.valid) /\ (open \/ second.valid)
                   THEN [units |-> units, start |-> IF suffix THEN -1 ELSE first.value,
                         end |-> IF open THEN -1 ELSE second.value, valid |-> TRUE]
                   ELSE InvalidRange]
      Bounds(dash, from, end) ==
        IF Inside(dash)
        THEN Parsed(strToInt64(Label(caret, dash)), strToInt64(Label(from, end)), end,
                    ~suffix /\ end = from)
        ELSE [caret |-> end, range |-> InvalidRange]
      Behind(dash, from) ==
        Bounds(dash, from, findCharFromSet(from, {" ", ",", "CR", "LF"}))
      Split(dash) == Behind(dash, inc(dash, 1))
  IN  Split(findChar(caret, "-"))

parseRange(caret) ==
  LET equals == findChar(caret, "=")
  IN  IF Inside(equals) THEN parseNext(inc(equals, 1), Label(caret, equals))
                        ELSE [caret |-> equals, range |-> InvalidRange]

parseAll(text) ==
  LET FromOn(first) ==
        LET after[pos \in 1 .. Len(text) + 1] ==
              LET comma == setPosition(Caret(text), pos)
                  Follow(next) == IF next.range.valid
                                  THEN <<next.range>> \o after[next.caret.pos] ELSE <<>>
              IN  IF canContinueAtChar(comma, ",")
                  THEN Follow(parseNext(skipBlankChars(inc(comma, 1)), first.range.units))
                  ELSE <<>>
        IN  IF first.range.valid THEN <<first.range>> \o after[first.caret.pos] ELSE <<>>
  IN  FromOn(parseRange(skipBlankChars(Caret(text))))

(* http::ContentRange.  The numbers are read from where they begin, to where *)
(* strtoll stops.                                                            *)
ContentRangeText(range) ==
  range.units \o <<" ">> \o Written(range.start) \o <<"-">> \o Written(range.end) \o <<"/">>
  \o (IF range.size = -1 THEN <<"*">> ELSE Written(range.size))

parseContentRange(text) ==
  LET caret == Caret(text)
      space == findChar(caret, " ")
      dash  == findChar(inc(space, 1), "-")
      slash == findChar(inc(dash, 1), "/")
  IN  IF Inside(space) /\ Inside(dash) /\ Inside(slash)
      THEN [units |-> Label(caret, space), start |-> Number(text, space.pos + 1).value,
            end |-> Number(text, dash.pos + 1).value,
            size |-> IF At(inc(slash, 1)) = "*" THEN -1 ELSE Number(text, slash.pos + 1).value]
      ELSE [units |-> <<>>, start |-> 0, end |-> 0, size |-> 0]

(* Parser::parseHeaderValueData: tokens, and parameters with a value that    *)
(* may be quoted.  The later of two equal parameters stays.                  *)
parseHeaderValueData(text, separator) ==
  LET none == [tokens |-> {}, titleParams |-> <<>>]
      stops == {" ", separator, "CR", "LF"}
      Closed(quoted) == [text |-> quoted.text, caret |-> quoted.caret]
      Plain(caret, end) == [text |-> Label(caret, end), caret |-> end]
      ValueAt(caret) == IF At(caret) \in {"\"", "'"}
                        THEN Closed(Enclosed(caret, At(caret), "\\"))
                        ELSE Plain(caret, findCharFromSet(caret, stops))
      from[pos \in 1 .. Len(text) + 1] ==
        LET Rest(end) ==
              IF At(end) \in {"CR", "LF"} THEN none
              ELSE from[IF At(end) = separator THEN end.pos + 1 ELSE end.pos]
            Param(key, value, rest) ==
              [rest EXCEPT !.titleParams = @ @@ (key :> value.text)]
            Valued(key, value) == Param(key, value, Rest(value.caret))
            Token(key, rest) == [rest EXCEPT !.tokens = @ \cup {key}]
            Keyed(here, stop) ==
              IF At(stop) = "=" THEN Valued(Label(here, stop), ValueAt(inc(stop, 1)))
                                ELSE Token(Label(here, stop), Rest(stop))
            Begin(here) == Keyed(here, findCharFromSet(here, stops \cup {"="}))
        IN  IF pos > Len(text) THEN none
            ELSE Begin(skipChar(setPosition(Caret(text), pos), " "))
  IN  from[1]

Nothing == [code |-> -1, line |-> <<>>, headers |-> <<>>]

IsHead == source.kind \in {"request", "response"}

TextInit ==
  /\ source \in [kind : {"request", "response"}, value : Heads, follow : Follows]
                \cup [kind : {"ranges"}, value : RangeLists]
                \cup [kind : {"range", "content range"}, value : ContentRanges]
                \cup [kind : {"list"}, value : ItemLists]
  /\ stream = IF IsHead THEN Text(source.kind, source.value) \o source.follow ELSE <<>>
  /\ bufferStream = <<>> /\ status = "reading" /\ parsed = Nothing

(* Mutant: the limit is looked at only when it is passed.                    *)
MutDesiredToRead == IF Len(bufferStream) < maxHeadersSize THEN readChunkSize ELSE 0

(* RequestHeadersReader counts what it has; iteration.progress, which        *)
(* ResponseHeadersReader looks at, is never advanced.                        *)
progress == IF source.kind = "request" THEN Len(bufferStream) ELSE 0

(* Of the head of a request no more is read than maxHeadersSize, of that of  *)
(* a response no more at once.                                               *)
desiredToRead == Min({readChunkSize, maxHeadersSize - progress})

(* readHeadersSectionIterative of both readers: a piece of what the          *)
(* connection has is taken up to the empty line, wherever the pieces divide  *)
(* it; what was looked at stays in the buffer.  The reader of responses has  *)
(* read what follows the empty line and says where it begins: whoever reads  *)
(* the body gets it first, so it still belongs to the stream.                *)
readHeadersSectionIterative ==
  /\ status = "reading" /\ IsHead /\ desiredToRead > 0
  /\ \E res \in 1 .. Min({desiredToRead, Len(stream)}) :
       LET data == bufferStream \o SubSeq(stream, 1, res)
           ends == {i \in 1 .. res : IsSuffix(CRLF \o CRLF,
                                            SubSeq(data, 1, Len(bufferStream) + i))}
           done == ends # {}
       IN  /\ bufferStream' = data
           /\ stream' = SubSeq(stream, (IF done THEN Min(ends) ELSE res) + 1, Len(stream))
           /\ status' = IF done THEN "done" ELSE "reading"
           /\ parsed' = IF done THEN ParseHead(source.kind, data) ELSE Nothing
  /\ UNCHANGED source

(* The head of a request that has not ended at the limit is refused.         *)
TooLarge ==
  /\ status = "reading" /\ IsHead /\ desiredToRead <= 0
  /\ status' = "refused"
  /\ UNCHANGED <<source, stream, bufferStream, parsed>>

(* Values as others write them: RFC 9110 ranges and parameters.              *)
Joined(texts) == FoldLeft(LAMBDA text, t : IF text = <<>> THEN t ELSE text \o <<",", " ">> \o t,
                          <<>>, texts)

RangesText(ranges) ==
  LET Bound(n) == IF n = -1 THEN <<>> ELSE Written(n)
  IN  ranges[1].units \o <<"=">>
      \o Joined([k \in DOMAIN ranges |-> Bound(ranges[k].start) \o <<"-">> \o Bound(ranges[k].end)])

ItemText(item) == CASE item.form = "token" -> item.key
                    [] item.form = "plain" -> item.key \o <<"=">> \o item.value
                    [] OTHER -> item.key \o <<"=", item.form>> \o item.value \o <<item.form>>

ReadValue ==
  /\ status = "reading" /\ ~IsHead
  /\ status' = "done"
  /\ parsed' = LET value == source.value IN
       CASE source.kind = "ranges" -> parseAll(RangesText(value))
         [] source.kind = "range"  -> parseAll(RangeText(value))
         [] source.kind = "content range" -> parseContentRange(ContentRangeText(value))
         [] source.kind = "list" ->
              parseHeaderValueData(Joined([k \in DOMAIN value |-> ItemText(value[k])]), ",")
  /\ UNCHANGED <<source, stream, bufferStream>>

TextNext == readHeadersSectionIterative \/ TooLarge \/ ReadValue

TextSpec == TextInit /\ [][TextNext]_textVars
-----------------------------------------------------------------------------
(* A head arrives as it was put together, however the connection divides it  *)
(* and whatever follows it: the words of the starting line, the headers with *)
(* a colon, a lone CR or a space in their values, and empty values.          *)
HeadArrives ==
  (IsHead /\ status = "done") =>
    /\ parsed.code = 0
    /\ parsed.headers = source.value.headers
    /\ parsed.line = IF source.kind = "request"
                     THEN <<source.value.method, <<"/">> \o source.value.path, <<"HTTP">>>>
                     ELSE <<<<"HTTP">>, Written(source.value.code),
                            <<" ">> \o source.value.description>>

(* The reader takes the head from the connection and nothing of what follows *)
(* it, which belongs to the body or to the next exchange.  Only requests     *)
(* whose heads are longer than the limit are refused, and no more than the   *)
(* limit is kept of one; the heads of responses have no limit.               *)
HeadTakenExactly ==
  IsHead =>
    /\ status = "done" => stream = source.follow
    /\ status = "refused" => /\ source.kind = "request"
                             /\ Len(Text(source.kind, source.value)) > maxHeadersSize
    /\ source.kind = "request" => Len(bufferStream) <= maxHeadersSize

(* Ranges, content ranges and lists of parameters come back as the values    *)
(* they stand for: an open end as -1, a suffix with the start -1, an unknown *)
(* size as none, a quoted value without its quotes but with its escapes, the *)
(* last of equal parameters.  A suffix that the library writes itself it     *)
(* does not read: toString writes its start as "-1".                         *)
ValuesArrive ==
  (~IsHead /\ status = "done") =>
    LET value == source.value
        With(forms) == {k \in DOMAIN value : value[k].form \in forms}
        params == With({"plain", "\"", "'"})
    IN  CASE source.kind = "ranges" -> parsed = value
          [] source.kind = "range"  ->
               parsed = IF value.start = -1 THEN <<>>
                        ELSE <<[units |-> value.units, start |-> value.start,
                                end |-> value.end, valid |-> TRUE]>>
          [] source.kind = "content range" ->
               value.start >= 0 => parsed = value
          [] source.kind = "list" ->
               /\ parsed.tokens = {value[k].key : k \in With({"token"})}
               /\ DOMAIN parsed.titleParams = {value[k].key : k \in params}
               /\ \A k \in params :
                    (\A l \in params : l > k => value[l].key # value[k].key) =>
                       parsed.titleParams[value[k].key] = value[k].value
=============================================================================
