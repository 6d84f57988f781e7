------------------------------- MODULE MCParts -------------------------------
(* One small instance of every part that is checked for safety alone.  The    *)
(* parts do not interact: a behaviour is one part's from its first state to   *)
(* its last, so that a run explores the sum of their state spaces, and each   *)
(* property is about one part.  The parts with theorems have their own        *)
(* variables, which stay as they were at first while another part runs; the   *)
(* others take turns in the slots v1, v2, ...: the WITH of a part says which  *)
(* of its variables is in which slot.                                         *)
EXTENDS FIFOBuffer, FastQueue, TcpConnections, CoroutineStack, Environment, TLC

CONSTANTS
  Parts,                                           \* the parts of this run
  MaxLength,                                       \* FIFOBuffer: bound of one call
  Objects, MapperConfigs, MaxDamage,               \* JsonMapper
  Codes, MaxChars, Flags,                          \* JsonStrings
  Bodies, Framings, Drivers, NextMessage,          \* StreamTransfer
  BufferSize, ProxySize,
  Messages, Readers, MaxPiece, MaxDataSize,        \* Multipart
  MaxPartHeadersSize,
  Routers, Methods, Characters, MaxUrl,            \* UrlPatterns
  PathValues, QueryLists, Extras,
  Heads, RangeLists, ContentRanges, ItemLists,     \* HttpText
  Follows, readChunkSize, maxHeadersSize,
  StackSize, Width, Capacities, CallCounts, MaxText, MaxTexts, \* MemoryStreams
  Mappers, ContentTypes, Subtypes, Qualities,      \* ContentMappers
  MaxHeader, MaxChanges, NoMapper,
  Texts, MaxPuts,                                  \* LazyStringMap
  Values, MaxBytes, Letters16, SpaceToPlus         \* Encodings

VARIABLES which, v1, v2, v3, v4, v5, v6, v7, v8, v9, v10, v11, v12, v13, v14

Json == INSTANCE JsonMapper WITH
  fastSerializer <- v1, fastDeserializer <- v2, config <- v3, variant <- v4, text <- v5,
  damage <- v6, written <- v7, result <- v8
Strings == INSTANCE JsonStrings WITH
  flags <- v1, source <- v2, cut <- v3, quoted <- v4, lost <- v5, parsed <- v6
Body == INSTANCE StreamTransfer WITH
  body <- v1, framing <- v2, drivers <- v3, leg <- v4, pc <- v5, source <- v6,
  buffered <- v7, proxied <- v8, stages <- v9, data <- v10, filled <- v11, wire <- v12,
  sink <- v13, ended <- v14
Multi == INSTANCE Multipart WITH
  parts <- v1, driver <- v2, flushParts <- v3, body <- v4, inline <- v5, parser <- v6,
  current <- v7, list <- v8, status <- v9
Url == INSTANCE UrlPatterns WITH
  branches <- v1, left <- v2, method <- v3, url <- v4, answer <- v5, call <- v6
Http == INSTANCE HttpText WITH
  source <- v1, stream <- v2, bufferStream <- v3, status <- v4, parsed <- v5
Memory == INSTANCE MemoryStreams WITH
  Counts <- CallCounts,
  out <- v1, text <- v2, turn <- v3, in <- v4, fifoStream <- v5, got <- v6
ASSUME SizesAreNumbers == Memory!MemoryConstants
Content == INSTANCE ContentMappers WITH
  Types <- ContentTypes,
  m_index <- v1, m_mappers <- v2, m_defaultMapper <- v3, latest <- v4, cleared <- v5,
  changes <- v6, answer <- v7
ASSUME QualitiesAreLow == Content!ContentConstants
Lazy == INSTANCE LazyStringMap WITH
  multi <- v1, entries <- v2, full <- v3, wanted <- v4, puts <- v5, given <- v6
Encoding == INSTANCE Encodings WITH
  codec <- v1, data <- v2, coded <- v3, cut <- v4, decoded <- v5

-----------------------------------------------------------------------------
\* The slots that a part leaves unused.
after9 == <<v10, v11, v12, v13, v14>>
after8 == <<v9, after9>>
after7 == <<v8, after8>>
after6 == <<v7, after7>>
after5 == <<v6, after6>>
slots  == <<v1, v2, v3, v4, v5, after5>>

ownVars == <<vars, queueVars, tcpVars, stackVars, environmentVars>>
partsVars == <<which, ownVars, slots>>

Unused9 == v10 = 0 /\ v11 = 0 /\ v12 = 0 /\ v13 = 0 /\ v14 = 0
Unused8 == v9 = 0 /\ Unused9
Unused7 == v8 = 0 /\ Unused8
Unused6 == v7 = 0 /\ Unused7
Unused5 == v6 = 0 /\ Unused6
NoSlots == v1 = 0 /\ v2 = 0 /\ v3 = 0 /\ v4 = 0 /\ v5 = 0 /\ Unused5

PartsInit ==
  /\ which \in Parts
  /\ IF which = "fifo" THEN Init
     ELSE /\ buffer = [i \in 0 .. N - 1 |-> CHOOSE b \in Bytes : TRUE]
          /\ readPosition = 0 /\ writePosition = 0 /\ canRead = FALSE
          /\ call = "none" /\ data = <<>> /\ result = 0
  /\ QueueInit /\ TcpInit /\ StackInit /\ EnvironmentInit
  /\ \/ which = "json" /\ Json!JsonInit /\ Unused8
     \/ which = "strings" /\ Strings!StringInit /\ Unused6
     \/ which = "transfer" /\ Body!TransferInit
     \/ which = "multipart" /\ Multi!MultipartInit /\ Unused9
     \/ which = "url" /\ Url!UrlInit /\ Unused6
     \/ which = "http" /\ Http!TextInit /\ Unused5
     \/ which = "memory" /\ Memory!MemoryInit /\ Unused6
     \/ which = "content" /\ Content!ContentInit /\ Unused7
     \/ which = "labels" /\ Lazy!LazyInit /\ Unused6
     \/ which = "encodings" /\ Encoding!EncodingInit /\ Unused5
     \/ which \in {"fifo", "queue", "tcp", "coroutine", "environment"} /\ NoSlots

\* The steps of the parts with variables of their own, and of those in the slots.  Two
\* calls of stop() that raced end the behaviour: no property speaks of what follows.
OwnNext ==
  \/ /\ which = "fifo" /\ Next
     /\ UNCHANGED <<queueVars, tcpVars, stackVars, environmentVars>>
  \/ /\ which = "queue" /\ QueueNext
     /\ UNCHANGED <<vars, tcpVars, stackVars, environmentVars>>
  \/ /\ which = "tcp" /\ ~stopsRaced /\ TcpNext
     /\ UNCHANGED <<vars, queueVars, stackVars, environmentVars>>
  \/ /\ which = "coroutine" /\ StackNext
     /\ UNCHANGED <<vars, queueVars, tcpVars, environmentVars>>
  \/ /\ which = "environment" /\ EnvironmentNext
     /\ UNCHANGED <<vars, queueVars, tcpVars, stackVars>>

SlotsNext ==
  \/ which = "json" /\ Json!JsonNext /\ UNCHANGED after8
  \/ which = "strings" /\ Strings!StringNext /\ UNCHANGED after6
  \/ which = "transfer" /\ Body!TransferNext
  \/ which = "multipart" /\ Multi!MultipartNext /\ UNCHANGED after9
  \/ which = "url" /\ Url!UrlNext /\ UNCHANGED after6
  \/ which = "http" /\ Http!TextNext /\ UNCHANGED after5
  \/ which = "memory" /\ Memory!MemoryNext /\ UNCHANGED after6
  \/ which = "content" /\ Content!ContentNext /\ UNCHANGED after7
  \/ which = "labels" /\ Lazy!LazyNext /\ UNCHANGED after6
  \/ which = "encodings" /\ Encoding!EncodingNext /\ UNCHANGED after5

PartsNext ==
  /\ UNCHANGED which
  /\ \/ OwnNext /\ UNCHANGED slots
     \/ SlotsNext /\ UNCHANGED ownVars

PartsSpec == PartsInit /\ [][PartsNext]_partsVars

-----------------------------------------------------------------------------
(* Properties: each states, of its part, what the part's module explains.     *)
(* ImplementsFIFO, ListsAreQueues, DescriptorsOwned, CoroutinesOwned,         *)
(* CallsNest, OwnFunction and ComponentsFound are those of the parts.         *)

\* What the JSON mapper writes it reads as the same object, by the tree and by the fast
\* way, and nothing is read into a place of another type; strings come back from their
\* escaped form, whose size was computed exactly, and end at their own quote; Base64, hex
\* and percent encodings are decoded as they were encoded
\* (json/*.cpp, data/mapping/*.cpp, encoding/*.cpp).
JsonAgrees ==
  /\ which = "json" =>
       /\ Json!RoundTrip /\ Json!FastWriteAgrees
       /\ Json!ReadIsTyped /\ Json!FastReadAgrees
  /\ which = "strings" =>
       Strings!StringsRoundTrip /\ Strings!BuffersFit /\ Strings!StringEndsAtItsQuote
  /\ which = "encodings" =>
       Encoding!DecodesWhatWasEncoded /\ Encoding!SizesFit /\ Encoding!PrefixOrRefused

\* A document that was written whole is read: "Serializes oatpp DTO object to json"
\* (json/Serializer.hpp:39).
ReadableText == which = "json" => Json!ReadableText

\* A body arrives as it was sent and leaves the next message alone, and streams in memory
\* lose nothing when they grow (data/stream/*.cpp, http/encoding/Chunked.cpp).
BodiesArrive ==
  /\ which = "transfer" =>
       Body!PrefixDelivered /\ Body!AsksForItsOwn /\ Body!BodyDelivered
  /\ which = "memory" => Memory!TextKept /\ Memory!PassedOn

\* The parts of a multipart body arrive, each at its reader (web/mime/multipart).
PartsArrive ==
  which = "multipart" =>
    /\ Multi!PartsArrive /\ Multi!RefusedForSize /\ Multi!OwnReader
    /\ Multi!SizeLimitedBlocking /\ Multi!CrashesUnnamed

\* The endpoint that answers is the first that the URL's segments fit, and the mapper that
\* writes its answer is of the type that the client prefers
\* (web/url/mapping/Pattern.cpp, Router.hpp, web/mime/ContentMappers.cpp).
UrlsRouted ==
  /\ which = "url" =>
       /\ Url!SegmentsDecide /\ Url!FirstRegisteredAnswers
       /\ Url!ReconstructMatches /\ Url!PrintedAsParsed /\ Url!CallArrives
  /\ which = "content" => Content!BestIsServed /\ Content!ContentIsRead

\* The head of a message, ranges and lists of parameters arrive as they were written, and
\* the maps that keep them hold every pair, in memory of its own once it is asked for
\* (web/protocol/http/Http.cpp, incoming/*HeadersReader.cpp, data/share/LazyStringMap.hpp).
HeadsArrive ==
  /\ which = "http" => Http!HeadArrives /\ Http!HeadTakenExactly /\ Http!ValuesArrive
  /\ which = "labels" => Lazy!OwnMemory /\ Lazy!PairsKept

-----------------------------------------------------------------------------
(* Instances *)

\* FIFOBuffer
TwoBytes == {0, 1}
UpToLength == 0 .. MaxLength
Short == UNION {[1 .. n -> TwoBytes] : n \in UpToLength}

\* JsonMapper: objects with nested objects, lists, maps, enums and fields of any type,
\* with nulls in all places, and the options they are written with.
Usual ==
  [includeNullFields |-> TRUE, alwaysIncludeNullCollectionElements |-> FALSE,
   alwaysIncludeRequired |-> FALSE, allowUnknownFields |-> TRUE,
   allowLexicalCasting |-> FALSE, includeNullElements |-> TRUE]

TheConfigs ==
  {Usual, [Usual EXCEPT !.includeNullFields = FALSE],
   [Usual EXCEPT !.includeNullElements = FALSE],
   [Usual EXCEPT !.includeNullFields = FALSE, !.includeNullElements = FALSE],
   [Usual EXCEPT !.includeNullFields = FALSE, !.alwaysIncludeRequired = TRUE,
                 !.alwaysIncludeNullCollectionElements = TRUE,
                 !.allowUnknownFields = FALSE, !.allowLexicalCasting = TRUE]}

Data == INSTANCE ObjectMapping
Str == Data!StringType
I32 == Data!Primitive("Int32")
I8 == Data!Primitive("Int8")
F64 == Data!Float64Type
Ints == Data!List(I32)
Color == Data!Enum(Str, <<"s", "n">>, TRUE)
Level == Data!Enum(I32, <<"0", "1">>, FALSE)
Colors == Data!PairList(Str, Color)
Floats == Data!PairList(Str, F64)

Child == Data!Object(<<>>, <<Data!Field("name", Str, TRUE, FALSE),
                             Data!Field("size", I8, FALSE, FALSE)>>)
Doc == Data!Object(<<Child>>, <<Data!Field("list", Ints, FALSE, FALSE),
                                Data!Field("any", Data!AnyType, FALSE, FALSE)>>)
Poly == Data!Object(<<>>, <<Data!Field("value", Data!AnyType, FALSE, TRUE),
                            Data!Field("kind", Str, TRUE, FALSE),
                            Data!Field("level", Level, FALSE, FALSE)>>)

Of(T, text) == Data!Leaf(T, text)
None(T) == Data!Null(T)
Items(T, items) == Data!Compound(T, <<>>, items)
AnyOf(value) == Data!AnyOf(value)

TheObjects ==
  {Items(Child, <<Of(Str, "s"), Of(I8, "1")>>),
   Items(Child, <<None(Str), Of(I8, "1")>>),
   Items(Child, <<Of(Str, "s"), None(I8)>>),
   Items(Doc, <<Of(Str, "1"), None(I8), Items(Ints, <<None(I32), Of(I32, "300")>>),
                AnyOf(Items(Ints, <<Of(I32, "1")>>))>>),
   Items(Doc, <<Of(Str, "1"), None(I8), None(Ints), AnyOf(Of(Str, "n"))>>),
   Items(Poly, <<AnyOf(Of(Data!Int64Type, "300")), Of(Str, "n"), Of(Level, "1")>>),
   Items(Poly, <<AnyOf(Of(Str, "s")), Of(Str, "s"), None(Level)>>),
   Data!Compound(Colors, <<"a", "b">>, <<Of(Color, "s"), Of(Color, "n")>>),
   Data!Compound(Floats, <<"a", "a">>, <<None(F64), Of(F64, "1.5")>>),
   Items(Data!Vector(Level), <<None(Level), Of(Level, "1")>>),
   Items(Data!Vector(Data!BooleanType), <<Of(Data!BooleanType, "true")>>)}

\* JsonStrings
TheFlags == {{}, {"solidus"}, {"solidus", "utf8char"}}

\* StreamTransfer: empty, one byte, a line, and the end of a chunked body as data.
TheBodies == {<<>>, <<"x">>, <<"x", "CR", "LF">>, <<"0", "CR", "LF", "CR", "LF">>}
ChunkLine == <<"2", "CR", "LF">>

\* Multipart: data that begins like the boundary "--b", at each place of a part; a first
\* part without a name, and headers beyond the limit.
PartOf(name, bytes) == [headers |-> <<name, "CR", "LF">>, data |-> bytes]
LongPart(name, bytes) == [headers |-> <<name, "x", "CR", "LF">>, data |-> bytes]
TheMessages ==
  {<<PartOf("n", <<"CR", "LF", "-", "-", "x">>)>>,
   <<PartOf("n", <<>>), PartOf("m", <<"CR", "CR", "LF", "-">>)>>,
   <<PartOf("m", <<"x", "CR">>), PartOf("x", <<"CR", "LF", "-", "x", "x">>),
     PartOf("n", <<"-", "-", "b">>)>>,
   <<PartOf("x", <<"x">>), PartOf("n", <<"x", "x">>)>>,
   <<PartOf("n", <<"x">>), LongPart("m", <<"CR">>)>>}

\* UrlPatterns
Mapping(m, p) == [method |-> m, pattern |-> p]
TheRouters ==
  {<<Mapping("GET", <<"/", "a">>), Mapping("GET", <<"/", "{", "n", "}">>),
     Mapping("POST", <<"/", "*">>)>>,
   <<Mapping("GET", <<"/", "a", "/", "*">>), Mapping("GET", <<"a", "/", "{", "n", "}", "/", "b">>),
     Mapping("GET", <<"/">>)>>,
   <<Mapping("GET", <<"/", "{", "n", "}", "/", "*">>), Mapping("GET", <<"/", "{", "n", "}", "b">>),
     Mapping("GET", <<"*", "a">>)>>,
   <<Mapping("GET", <<"/", "a", "a", "/", "b">>),
     Mapping("GET", <<"/", "{", "n", "}", "/", "{", "m", "}">>),
     Mapping("GET", <<"/", "a", "{", "n">>)>>,
   <<Mapping("GET", <<"/", "{", "n", "}", "/", "{", "n", "}">>)>>}

ThePathValues == {<<"a">>, <<"b", "b">>, <<"a", "/">>}
TheQueryLists ==
  {<<>>, <<[name |-> <<"k">>, value |-> <<"a">>, given |-> TRUE]>>,
   <<[name |-> <<"k">>, value |-> <<"a">>, given |-> FALSE],
     [name |-> <<"a">>, value |-> <<>>, given |-> TRUE],
     [name |-> <<"b">>, value |-> <<"b">>, given |-> TRUE]>>}
TheExtras ==
  {<<>>, <<"?", "m", "=", "{", "m", "}">>, <<"?", "m", "=", "{", "m">>,
   <<"?", "b", "&", "m", "=", "{", "m", "}", "a">>}

\* HttpText: values with colons, spaces, a lone CR, an empty one, one beyond the limit.
HeadOf(p, hs, c, d) == [method |-> <<"G">>, path |-> p, headers |-> hs, code |-> c,
                      description |-> d]
TheHeads ==
  {HeadOf(<<"a", "?", ":">>, <<<<<<"A">>, <<"b", ":", " ", "c", " ">>>>, <<<<"B">>, <<>>>>>>,
        200, <<"O", "K">>),
   HeadOf(<<>>, <<<<<<"A">>, <<"b", "CR", "c">>>>, <<<<"A">>, <<"b">>>>>>, 404, <<>>),
   HeadOf(<<"/">>, <<>>, 100, <<"N", " ", "o">>),
   HeadOf(<<"/">>, <<<<<<"A">>, <<"b", "b", "c", "b", "b", "c", "b", "b", "c">>>>>>,
        100, <<"N", " ", "o">>)}
RangeOf(start, end) == [units |-> <<"b">>, start |-> start, end |-> end, valid |-> TRUE]
TheRangeLists ==
  {<<RangeOf(0, 5)>>, <<RangeOf(0, 5), RangeOf(12, -1), RangeOf(-1, 10)>>,
   <<RangeOf(-1, 5), RangeOf(7, 7)>>}
TheContentRanges ==
  [units : {<<"b">>}, start : {-1, 0, 12}, end : {-1, 5, 40}, size : {-1, 0, 50}]
Item(key, value, form) == [key |-> key, value |-> value, form |-> form]
TheItems ==
  {Item(<<"a">>, <<>>, "token"), Item(<<"a">>, <<"x">>, "plain"),
   Item(<<"b">>, <<"x", "\\", "\"", ",", "'", "\\", "\\">>, "\""),
   Item(<<"a">>, <<"=", " ">>, "'"), Item(<<"b">>, <<>>, "plain")}
TheItemLists == UNION {[1 .. n -> TheItems] : n \in 1 .. 3}
TheFollows == {<<>>, <<"x", "CR", "LF">>, <<"CR", "LF">>, <<"G", " ", "/">>}

\* ContentMappers: one type registered twice, and one of which no range is accepted.
Mapper(type, subtype, id) == [type |-> type, subtype |-> subtype, id |-> id]
TheMappers ==
  {Mapper("a", "j", 1), Mapper("a", "j", 2), Mapper("a", "x", 1), Mapper("t", "x", 1)}
=============================================================================
