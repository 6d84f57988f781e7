----------------------------- MODULE UrlPatterns -----------------------------
(* web::url::mapping: the path pattern of an endpoint (Pattern), the routes  *)
(* of one HTTP method in the order of their registration (Router), and the   *)
(* routers by method (HttpRouter); and the client that writes its paths from *)
(* the same patterns (web::client::ApiClient).                               *)
EXTENDS Caret

CONSTANTS Routers,          \* sequences of [method, pattern] as they are registered
          Methods,
          Characters,
          MaxUrl,           \* bound on the length of a URL
          PathValues,       \* texts of path parameters
          QueryLists,       \* sequences of [name, value, given]: query parameters
          Extras            \* what a client's template has behind the pattern

VARIABLES branches,         \* m_branchMap: method -> m_endpointsByPattern
          left,             \* registrations to be made
          method, url,      \* the request
          answer,           \* Route, or "none"
          call              \* of the client, a sequence of at most one

urlVars == <<branches, left, method, url, answer, call>>

Const(text)  == [function |-> "const", text |-> text]
Var(text)    == [function |-> "var", text |-> text]
AnyEnd(text) == [function |-> "tail", text |-> text]

(* Pattern::parse: what stands between two slashes is a constant; '{' and    *)
(* '*' begin a part of their own and drop the constant text before them; '*' *)
(* ends the pattern.                                                         *)
parse(text) ==
  LET caret == Caret(text)
      parts[i \in 1 .. Len(text) + 2, lastPos \in 1 .. Len(text) + 2] ==
        LET stop  == findCharFromSet(setPosition(caret, i), {"/", "*", "{"})
            const == IF stop.pos > lastPos THEN <<Const(SubSeq(text, lastPos, stop.pos - 1))>>
                                           ELSE <<>>
            name  == findChar(stop, "}")
        IN  CASE i > Len(text) -> IF i > lastPos /\ lastPos <= Len(text)
                                  THEN <<Const(SubSeq(text, lastPos, Len(text)))>> ELSE <<>>
              [] ~Inside(stop) -> const
              [] At(stop) = "/" -> const \o parts[stop.pos + 1, stop.pos + 1]
              [] At(stop) = "*" -> <<AnyEnd(SubSeq(text, stop.pos + 1, Len(text)))>>
              [] At(stop) = "{" -> <<Var(SubSeq(text, stop.pos + 1, name.pos - 1))>>
                                   \o parts[name.pos + 1, name.pos + 1]
  IN  parts[1, 1]

Slash == <<"/">>

(* Pattern::match.  A match has the variables by name and what is left of    *)
(* the URL; a URL may end, or go on with '?', behind the last part.          *)
NoMatch == [matched |-> FALSE, variables |-> <<>>, tail |-> <<>>]

match(parts, text) ==
  LET AtLast(k) == k = Len(parts) \/ parts[k + 1].function = "tail"
      Rest(c) == SubSeq(text, c.pos, Len(text))
      Matched(variables, tail) == [matched |-> TRUE, variables |-> variables, tail |-> tail]
      from[k \in 1 .. Len(parts) + 1, at \in 1 .. Len(text) + 1] ==
        LET caret == skipChar(setPosition(Caret(text), at), "/")
            part  == parts[k]
            after == inc(caret, Len(part.text))
            sys   == findCharFromSet(caret, {"/", "?"})
            end   == IF At(sys) = "?" THEN findChar(sys, "/") ELSE sys
            With(value, rest) ==
              [rest EXCEPT !.variables = IF part.text \in DOMAIN @ THEN @
                                         ELSE (part.text :> value) @@ @]
            next  == from[k + 1, end.pos]
        IN  CASE k > Len(parts) -> IF Inside(caret) THEN NoMatch ELSE Matched(<<>>, <<>>)
              [] part.function = "const" ->
                   IF ~isAtText(caret, part.text) THEN NoMatch
                   ELSE IF At(after) \in {"NUL", "/"} THEN from[k + 1, after.pos]
                   ELSE IF At(after) = "?" /\ AtLast(k) THEN Matched(<<>>, Rest(after))
                   ELSE NoMatch
              [] part.function = "tail" -> Matched(<<>>, Rest(caret))
              [] part.function = "var" ->
                   IF ~Inside(caret) THEN NoMatch
                   ELSE IF At(sys) = "?" /\ AtLast(k)
                   THEN With(Label(caret, sys), Matched(<<>>, Rest(sys)))
                   ELSE IF next.matched THEN With(Label(caret, end), next) ELSE NoMatch
  IN  from[1, 1]

reconstruct(parts, params, tail) ==
  FoldLeft(LAMBDA text, part : text \o Slash \o
             CASE part.function = "const" -> part.text
               [] part.function = "var"   -> params[part.text]
               [] part.function = "tail"  -> tail,
           <<>>, parts)

toString(parts) ==
  FoldLeft(LAMBDA text, part : text \o
             CASE part.function = "const" -> Slash \o part.text
               [] part.function = "var"   -> <<"/", "{">> \o part.text \o <<"}">>
               [] part.function = "tail"  -> <<"/", "*">>,
           <<>>, parts)

NoRoute == [valid |-> FALSE, endpoint |-> 0, matchMap |-> NoMatch]

UrlInit ==
  /\ left \in Routers
  /\ branches = <<>>
  /\ method = "none" /\ url = <<>> /\ answer = NoRoute /\ call = <<>>

(* HttpRouter::route and Router::route: the pattern is parsed when it is     *)
(* registered.  An endpoint is the number of its registration.               *)
route ==
  /\ left # <<>>
  /\ LET new    == Head(left)
         branch == IF new.method \in DOMAIN branches THEN branches[new.method] ELSE <<>>
         made   == FoldFunction(LAMBDA b, n : n + Len(b), 0, branches)
         pair   == [pattern |-> parse(new.pattern), endpoint |-> made + 1]
     IN  branches' = (new.method :> Append(branch, pair)) @@ branches
  /\ left' = Tail(left)
  /\ UNCHANGED <<method, url, answer, call>>

(* Mutant: the latest registration answers.                                  *)
MutGetRoute(name, path) ==
  LET pairs == IF name \in DOMAIN branches THEN branches[name] ELSE <<>>
      latest == SelectLastInSeq(pairs, LAMBDA pair : match(pair.pattern, path).matched)
  IN  IF latest = 0 THEN NoRoute
      ELSE [valid |-> TRUE, endpoint |-> pairs[latest].endpoint,
            matchMap |-> match(pairs[latest].pattern, path)]

(* HttpRouter::getRoute and Router::getRoute.                                *)
getRoute(name, path) ==
  LET pairs == IF name \in DOMAIN branches THEN branches[name] ELSE <<>>
      first == SelectInSeq(pairs, LAMBDA pair : match(pair.pattern, path).matched)
  IN  IF first = 0 THEN NoRoute
      ELSE [valid |-> TRUE, endpoint |-> pairs[first].endpoint,
            matchMap |-> match(pairs[first].pattern, path)]

(* A request comes in, its path one character longer than the last one.      *)
Request ==
  /\ left = <<>> /\ call = <<>> /\ Len(url) < MaxUrl
  /\ \E char \in Characters : url' = Append(url, char)
  /\ method' \in Methods
  /\ method # "none" => method' = method
  /\ answer' = getRoute(method', url')
  /\ UNCHANGED <<branches, left, call>>

-----------------------------------------------------------------------------
(* ApiClient.                                                                *)

(* parsePathTemplate: what a template leaves open, from a '{' to the next    *)
(* '}', both included.                                                       *)
parsePathTemplate(text) ==
  LET variables[i \in 1 .. Len(text) + 1] ==
        LET open  == findChar(setPosition(Caret(text), i), "{")
            close == findChar(inc(open, 1), "}")
        IN  IF ~Inside(open) THEN <<>>
            ELSE <<[posStart |-> open.pos, posEnd |-> close.pos,
                    name |-> Label(inc(open, 1), close)]>> \o variables[close.pos]
  IN  variables[1]

(* The constructor of StringTemplate throws for a variable that has no end.  *)
IsTemplate(text) ==
  \A i \in DOMAIN parsePathTemplate(text) : parsePathTemplate(text)[i].posEnd <= Len(text)

(* StringTemplate::format.                                                   *)
format(text, params) ==
  LET variables == parsePathTemplate(text)
      prevPos(i) == IF i = 1 THEN 1 ELSE variables[i - 1].posEnd + 1
      upTo(i) == SubSeq(text, prevPos(i), variables[i].posStart - 1)
      all == [i \in DOMAIN variables |-> upTo(i) \o params[variables[i].name]]
  IN  FlattenSeq(all) \o SubSeq(text, prevPos(Len(variables) + 1), Len(text))

(* The parameters that have a value, in the order of the map.                *)
Given(queries) == SelectSeq(queries, LAMBDA query : query.given)

formatPath(text, params, queries) ==
  LET first == ~Inside(findChar(Caret(text), "?"))
      given == Given(queries)
      written(i) == <<IF i = 1 /\ first THEN "?" ELSE "&">>
                    \o given[i].name \o <<"=">> \o given[i].value
  IN  format(text, params) \o FlattenSeq([i \in DOMAIN given |-> written(i)])

(* A method of the client that API_CALL defines: its template is the pattern *)
(* of an endpoint, and more.  The path goes to the server as it is.          *)
Call ==
  /\ left = <<>> /\ call = <<>> /\ url = <<>>
  /\ \E m \in DOMAIN branches, extra \in Extras, queries \in QueryLists :
       \E pair \in Range(branches[m]) :
         LET text  == toString(pair.pattern) \o extra
             names == {variable.name : variable \in Range(parsePathTemplate(text))}
         IN  /\ pair.pattern # <<>> /\ IsTemplate(text)
             /\ \E params \in [names -> PathValues] :
                  /\ call' = <<[endpoint |-> pair.endpoint, pattern |-> pair.pattern,
                                params |-> params, queries |-> queries, extra |-> extra]>>
                  /\ url' = formatPath(text, params, queries)
             /\ method' = m
             /\ answer' = getRoute(m, url')
  /\ UNCHANGED <<branches, left>>

(* Url::Parser::parseQueryParams, which Request::getQueryParameters gives    *)
(* the tail of the match.                                                    *)
parseQueryParams(text) ==
  LET pairs[i \in 1 .. Len(text) + 1] ==
        LET name  == setPosition(Caret(text), i)
            stop  == findCharFromSet(name, {"=", "&"})
            end   == findChar(stop, "&")
            value == IF At(stop) = "=" THEN Label(inc(stop, 1), end) ELSE <<>>
        IN  <<[name |-> Label(name, stop), value |-> value]>>
            \o (IF At(end) = "&" THEN pairs[end.pos + 1] ELSE <<>>)
      query == findChar(Caret(text), "?")
  IN  IF Inside(query) THEN pairs[query.pos + 1] ELSE <<>>

UrlNext == route \/ Request \/ Call

UrlSpec == UrlInit /\ [][UrlNext]_urlVars
-----------------------------------------------------------------------------
(* What a path means to those who write patterns: the segments between the   *)
(* slashes, any number of which divide two.                                  *)
Path(text) == Label(Caret(text), findChar(Caret(text), "?"))

Segments(text) ==
  LET starts == {i \in 1 .. Len(text) : text[i] # "/" /\ (i = 1 \/ text[i - 1] = "/")}
      order  == SetToSortSeq(starts, <)
  IN  [k \in 1 .. Len(order) |->
         LET c == setPosition(Caret(text), order[k]) IN Label(c, findChar(c, "/"))]

Fits(parts, segments) ==
  LET open == parts # <<>> /\ Last(parts).function = "tail"
      n    == IF open THEN Len(parts) - 1 ELSE Len(parts)
  IN  /\ IF open THEN Len(segments) >= n ELSE Len(segments) = n
      /\ \A k \in 1 .. n : parts[k].function = "const" => parts[k].text = segments[k]

(* A query is plain when it follows a segment directly and has no slash: '?' *)
(* behind a slash, or before another segment, is taken for part of the path. *)
PlainQuery(text) ==
  LET caret == findChar(Caret(text), "?") IN
  Inside(caret) => /\ caret.pos > 1 /\ text[caret.pos - 1] # "/"
                   /\ ~Inside(findChar(caret, "/"))

(* Texts that may stand in a path or a query as they are: the client does    *)
(* not escape, and a '/' in a query can be taken for one in the path.        *)
Clean(text) == text # <<>> /\ Range(text) \cap {"/", "?", "&", "=", "{", "}"} = {}

Registered == UNION {{m} \X (DOMAIN branches[m]) : m \in DOMAIN branches}

(* A URL matches a pattern exactly when its segments fit the pattern's parts *)
(* one by one: neither the number of slashes, nor a slash at the end, nor a  *)
(* query changes the endpoint (Pattern::match, a walk of one caret that      *)
(* takes each part apart from what follows it).                              *)
SegmentsDecide ==
  PlainQuery(url) =>
    \A r \in Registered :
      LET parts == branches[r[1]][r[2]].pattern
      IN  match(parts, url).matched <=> Fits(parts, Segments(Path(url)))

(* The endpoint that answers is the first of its method, in the order of     *)
(* registration, that the URL fits: an earlier pattern with a variable or a  *)
(* '*' hides a later one, and methods do not hide each other's.              *)
FirstRegisteredAnswers ==
  (method # "none" /\ PlainQuery(url)) =>
    LET pairs == IF method \in DOMAIN branches THEN branches[method] ELSE <<>>
        fits  == {k \in DOMAIN pairs : Fits(pairs[k].pattern, Segments(Path(url)))}
    IN  /\ answer.valid <=> fits # {}
        /\ answer.valid => answer.endpoint = pairs[Min(fits)].endpoint

(* The URL that reconstruct makes of a match goes to the same pattern with   *)
(* the same variables and the same tail of a '*': what a handler takes from  *)
(* a path it can write back.  An empty variable (a '?' where its segment     *)
(* should begin) does not come back.                                         *)
ReconstructMatches ==
  \A r \in Registered :
    LET parts == branches[r[1]][r[2]].pattern
        found == match(parts, url)
        again == match(parts, reconstruct(parts, found.variables, found.tail))
        open  == parts # <<>> /\ Last(parts).function = "tail"
    IN  (found.matched /\ <<>> \notin {found.variables[n] : n \in DOMAIN found.variables}) =>
          /\ again.matched /\ again.variables = found.variables
          /\ open => again.tail = found.tail

(* A pattern prints as a pattern that parses back to the same parts (except  *)
(* for the text behind '*', which nothing reads): the printed mappings are   *)
(* the ones in use.                                                          *)
PrintedAsParsed ==
  \A r \in Registered :
    LET parts == branches[r[1]][r[2]].pattern
        Plain(p) == [k \in DOMAIN p |-> IF p[k].function = "tail" THEN AnyEnd(<<>>) ELSE p[k]]
    IN  Plain(parse(toString(parts))) = Plain(parts)

(* What a client is called with arrives: its path finds a route, the query   *)
(* parameters are those that it gave, in its template or besides, and its    *)
(* own endpoint sees the path parameters it was called with (ApiClient.cpp,  *)
(* Pattern.cpp and Url.cpp, each with a walk of its own over one text).      *)
CallArrives ==
  \A i \in DOMAIN call :
    LET made  == call[i]
        names == {part.text : part \in {p \in Range(made.pattern) : p.function = "var"}}
        given == SelectSeq(made.queries, LAMBDA query : query.given)
        besides == [k \in DOMAIN given |-> [name |-> given[k].name, value |-> given[k].value]]
        inside == IF made.extra = <<>> THEN <<>>
                  ELSE parseQueryParams(format(made.extra, made.params))
    IN  (\A value \in Range(made.params) : Clean(value)) =>
          /\ answer.valid
          /\ parseQueryParams(answer.matchMap.tail) = inside \o besides
          /\ answer.endpoint = made.endpoint =>
               answer.matchMap.variables = [name \in names |-> made.params[name]]
=============================================================================
