---------------------------- MODULE ContentMappers ----------------------------
(* web::mime::ContentMappers: the registry of object mappers by content type *)
(* and the choice of one for an Accept or a Content-Type header.  A header   *)
(* is a sequence of elements as Parser::parseHeaderValueData splits them.    *)
EXTENDS Integers, Sequences, Functions

CONSTANTS Mappers,   \* records [type, subtype, id]; several may have one type and subtype
          Types, Subtypes,
          Qualities, \* of a range, in thousandths
          MaxHeader, \* elements of a header
          MaxChanges,
          NoMapper

\* Qualities are no higher than that of a range that is given none.
ContentConstants ==
  /\ NoMapper \notin Mappers
  /\ Qualities \subseteq 0 .. 1000

VARIABLES m_index,         \* <<type, subtype>> -> mapper
          m_mappers,       \* the same by httpContentType
          m_defaultMapper,
          latest,          \* the mapper registered last for a type, cleared or not
          cleared,         \* clear() was called
          changes,
          answer           \* the last choice: the header, its kind and the mapper

registry == <<m_index, m_mappers, m_defaultMapper, latest, cleared, changes>>
contentVars == <<registry, answer>>

Nothing == [kind |-> "none", header |-> <<>>, mapper |-> NoMapper]
TypeOf(mapper) == <<mapper.type, mapper.subtype>>
With(map, mapper) ==
  [t \in DOMAIN map \union {TypeOf(mapper)} |-> IF t = TypeOf(mapper) THEN mapper ELSE map[t]]

ContentInit ==
  /\ m_index = <<>> /\ m_mappers = <<>> /\ m_defaultMapper = NoMapper
  /\ latest = <<>> /\ cleared = FALSE /\ changes = 0
  /\ answer = Nothing

-----------------------------------------------------------------------------
(* Changes: each under the lock. *)

Change == changes < MaxChanges /\ changes' = changes + 1 /\ answer' = Nothing

Register(mapper) ==
  /\ m_index' = With(m_index, mapper)
  /\ m_mappers' = With(m_mappers, mapper)
  /\ latest' = With(latest, mapper)

putMapper(mapper) ==
  /\ Change
  /\ m_defaultMapper' = IF m_defaultMapper = NoMapper THEN mapper ELSE m_defaultMapper
  /\ Register(mapper)
  /\ UNCHANGED cleared

\* By content type: an unknown one throws and changes nothing.
setDefaultType(type) ==
  /\ Change
  /\ m_defaultMapper' = IF type \in DOMAIN m_mappers THEN m_mappers[type] ELSE m_defaultMapper
  /\ UNCHANGED <<m_index, m_mappers, latest, cleared>>

setDefaultMapper(mapper) ==
  /\ Change
  /\ m_defaultMapper' = mapper
  /\ IF mapper = NoMapper THEN UNCHANGED <<m_index, m_mappers, latest>> ELSE Register(mapper)
  /\ UNCHANGED cleared

\* The index keeps what it has.
clear ==
  /\ Change
  /\ m_defaultMapper' = NoMapper /\ m_mappers' = <<>> /\ cleared' = TRUE
  /\ UNCHANGED <<m_index, latest>>

-----------------------------------------------------------------------------
(* The choice.  An element is [range, form, quality].  Its form is "plain",   *)
(* t/s; "weighted", t/s;q=0.5; "apart", t/s; q=0.5, which the parser takes    *)
(* for the token "t/s;" and a parameter "q" of no type; or "other",           *)
(* t/s;charset=u, a parameter that is no number.                              *)

Elements ==
  {e \in [range : Types \X Subtypes, form : {"plain", "weighted", "apart", "other"},
          quality : Qualities \union {1000}] :
     /\ e.form \in {"plain", "other"} <=> e.quality = 1000
     /\ e.range[1] = "*" => e.range[2] = "*"}
Headers == UNION {[1 .. n -> Elements] : n \in 0 .. MaxHeader}

\* What a parser with the separator ',' makes of it: a set of tokens, and parameters, whose
\* later values replace earlier ones of the same range and name.
IsToken(e) == e.form \in {"plain", "apart"}
Tokens(header) == {header[i] : i \in {j \in DOMAIN header : IsToken(header[j])}}
TitleParams(header) ==
  {header[i] : i \in {j \in DOMAIN header :
     /\ ~ IsToken(header[j])
     /\ \A k \in j + 1 .. Len(header) :
          header[k].range # header[j].range \/ header[k].form # header[j].form}}

\* The mappers that the index has for a range; one of the default's type is the default,
\* another the first of an unordered map.
Indexed(range) ==
  LET ofType == {m \in {m_index[t] : t \in DOMAIN m_index} : m.type = range[1]} IN
  IF range \in DOMAIN m_index THEN {m_index[range]}
  ELSE IF range[2] # "*" \/ ofType = {} THEN {}
  ELSE IF m_defaultMapper # NoMapper /\ m_defaultMapper.type = range[1] THEN {m_defaultMapper}
  ELSE ofType

\* Any range: the default, whether there is one or not.  The token of one written apart is
\* "*/*;", which is no such range and no type of the index.
AnyRange == <<"*", "*">>
ForToken(e) == IF e.range = AnyRange
               THEN IF e.form = "apart" THEN {} ELSE {m_defaultMapper}
               ELSE Indexed(e.range)
ForParam(e) == IF e.range = AnyRange THEN {m_defaultMapper} ELSE Indexed(e.range)

\* selectMapper: a token that fits is chosen at once, in the order of an unordered set;
\* else the parameters of numeric value are sorted by it, equal ones in any order.
ChosenFor(header) ==
  LET byToken == UNION {ForToken(e) : e \in Tokens(header)}
      fitting == {e \in TitleParams(header) : e.form = "weighted" /\ ForParam(e) # {}}
      best    == {e \in fitting : \A f \in fitting : f.quality <= e.quality}
  IN  IF header = <<>> THEN {m_defaultMapper}
      ELSE IF byToken # {} THEN byToken
      ELSE IF fitting # {} THEN UNION {ForParam(e) : e \in best}
      ELSE {NoMapper}

selectMapper(header) ==
  /\ answer' \in {[kind |-> "accept", header |-> header, mapper |-> m] : m \in ChosenFor(header)}
  /\ UNCHANGED registry

\* selectMapperForContent: what stands before the first ';'.
selectMapperForContent(header) ==
  /\ Len(header) <= 1
  /\ answer' = [kind |-> "content", header |-> header,
                mapper |-> IF header = <<>> THEN m_defaultMapper
                           ELSE IF header[1].range \in DOMAIN m_mappers
                           THEN m_mappers[header[1].range] ELSE NoMapper]
  /\ UNCHANGED registry

ContentNext ==
  \/ \E m \in Mappers : putMapper(m) \/ setDefaultMapper(m)
  \/ \E t \in Types \X Subtypes : setDefaultType(t)
  \/ setDefaultMapper(NoMapper) \/ clear
  \/ /\ answer = Nothing
     /\ \E h \in Headers : selectMapper(h) \/ selectMapperForContent(h)

ContentSpec == ContentInit /\ [][ContentNext]_contentVars

-----------------------------------------------------------------------------
Serves(mapper, range) ==
  \/ range = AnyRange
  \/ mapper.type = range[1] /\ range[2] \in {mapper.subtype, "*"}

\* A header whose ranges all have qualities, each written without a space, is answered by a
\* mapper of the range of highest quality that anything serves; one with plain ranges by a
\* mapper of one of its ranges; by none only if none serves any
\* (ContentMappers.cpp, selectMapper).
BestIsServed ==
  LET header == answer.header
      mapper == answer.mapper
      plain  == \A i \in DOMAIN header :
                  header[i].form \in {"plain", "weighted"} /\ header[i].range # AnyRange
      served == {i \in DOMAIN header :
                   \E t \in DOMAIN latest : Serves(latest[t], header[i].range)}
      distinct == \A i, j \in DOMAIN header : header[i].range = header[j].range => i = j
  IN  answer.kind = "accept" /\ header # <<>> /\ plain /\ distinct =>
        /\ mapper = NoMapper <=> served = {}
        /\ served # {} =>
             \E i \in served : /\ Serves(mapper, header[i].range)
                               /\ \A j \in served : header[j].quality <= header[i].quality

\* A body is read by the mapper that was registered last for its type, and the index by
\* types and the map by content types agree until the registry is cleared
\* (ContentMappers.cpp, putMapper, setDefaultMapper and selectMapperForContent).
ContentIsRead ==
  /\ answer.kind = "content" /\ answer.header # <<>> =>
       answer.mapper = IF answer.header[1].range \in DOMAIN m_mappers
                       THEN latest[answer.header[1].range] ELSE NoMapper
  /\ m_index = latest
  /\ ~ cleared => m_mappers = m_index
  /\ IsRestriction(m_mappers, m_index)
=============================================================================
