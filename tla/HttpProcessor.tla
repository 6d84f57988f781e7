---------------------------- MODULE HttpProcessor ----------------------------
(* web::server::HttpProcessor: the life of a server's connection, request    *)
(* after request, as the blocking Task and as the Coroutine run it.          *)
(*                                                                           *)
(* The endpoint, the interceptors and the upgrade handler are user code: the *)
(* model takes every outcome they can have.  What is not modelled: the       *)
(* sources of response bodies that report an error (their bodies just end,   *)
(* in both variants) and half-closed connections.                            *)
EXTENDS HttpWire

CONSTANTS NoRequest, NoResponse,
          EndpointResponses,    \* what endpoints may make
          InterceptorResponses, \* and request interceptors
          NoTag

VARIABLES pc,            \* where the task of a connection is
          state,         \* connectionState
          request,       \* the current request: in the coroutine, also a stale one
          response,      \* the current response
          intercept,     \* m_shouldInterceptResponse
          due,           \* history: tag of the head read last, until it is answered
          said,          \* history: the Connection of the response sent last
          strayed        \* history: connections where it was the rest of an unread body

serverVars == <<pc, state, request, response, intercept, due, said, strayed>>

ServerInit ==
  /\ pc = [c \in Conns |-> "off"]
  /\ state = [c \in Conns |-> "ALIVE"]
  /\ request = [c \in Conns |-> NoRequest]
  /\ response = [c \in Conns |-> NoResponse]
  /\ intercept = [c \in Conns |-> FALSE]
  /\ due = [c \in Conns |-> NoTag]
  /\ said = [c \in Conns |-> "nothing"]
  /\ strayed = {}

-----------------------------------------------------------------------------
(* The functions that both variants call.                                    *)

Tag(req) == IF req = NoRequest THEN NoTag ELSE req.tag

(* A response is [status, connection, coding, pieces, throws]: Connection as *)
(* user code set it or "none", a body of known size or encoded in chunks,    *)
(* which may throw while it is sent.                                         *)
(* DefaultErrorHandler::renderError closes the connection on its own.        *)
ErrorResponse == [status |-> 500, connection |-> "close",
                  coding |-> "sized", pieces |-> 1, throws |-> FALSE]

(* Mutant: an error does not keep the state CLOSING.                         *)
ConsiderAnyState(req, resp, st) ==
  LET asked == IF req = NoRequest THEN "none" ELSE req.connection IN
  IF resp.connection = "Upgrade" THEN "DELEGATED"
  ELSE IF asked = "close" \/ (asked = "none" /\ resp.connection = "close") THEN "CLOSING"
  ELSE "ALIVE"

(* CommunicationUtils::considerConnectionState.                              *)
ConsiderConnectionState(req, resp, st) ==
  LET asked == IF req = NoRequest THEN "none" ELSE req.connection IN
  IF st # "ALIVE" THEN st
  ELSE IF resp.connection = "Upgrade" THEN "DELEGATED"
  ELSE IF asked # "none" THEN (IF asked = "keep-alive" THEN "ALIVE" ELSE "CLOSING")
  ELSE IF req # NoRequest /\ req.form \notin {"bad line", "old"}
       THEN (IF resp.connection \in {"none", "keep-alive"} THEN "ALIVE" ELSE "CLOSING")
  ELSE IF resp.connection = "keep-alive" THEN "ALIVE" ELSE "CLOSING"

(* putHeaderIfNotExists(CONNECTION, ...) by the state that was found.        *)
Announced(resp, st) ==
  CASE resp.connection # "none" -> resp.connection
    [] resp.connection = "none" /\ st = "ALIVE" -> "keep-alive"
    [] resp.connection = "none" /\ st = "CLOSING" -> "close"

(* Bytes before a head become its method and, if there is a space among them *)
(* or a decoder gave up in it, what follows is shifted: fields may be lost.  *)
Shifted(h) == {[h EXCEPT !.form = f, !.connection = k] :
                 f \in {"strange", "bad line"}, k \in {h.connection, "none"}}

(* What a head looks like to Task: the status of the parser is dropped, so   *)
(* a bad starting line leaves an empty request and a bad header field hides  *)
(* those after it.  The rest of a chunked body never parses.                 *)
ReadRequest(c, n) ==
  LET h == up[c][n] IN
  IF h.kind = "last" THEN {RequestHead(h.tag, "none", "sized", 0, "bad line")}
  ELSE IF n > 1 THEN Shifted(h)
  ELSE CASE h.form = "bad line" -> {[h EXCEPT !.connection = "none"]}
         [] h.form = "bad field" -> {h, [h EXCEPT !.connection = "none"]}
         [] OTHER -> {h}

(* HttpRouter::getRoute: no endpoint is mapped to an empty or strange method. *)
HasRoute(req) == req.form \in {"good", "old", "bad field"}

Goto(c, label) == pc' = [pc EXCEPT ![c] = label]
Set(f, c, value) == f' = [f EXCEPT ![c] = value]

(* Mutant: the connection outlives its task.                                 *)
FinishOpen(c) == /\ Goto(c, "gone") /\ UNCHANGED <<open, strayed>>
                 /\ Set(up, c, <<>>) /\ Set(request, c, NoRequest)
                 /\ Set(response, c, NoResponse) /\ Set(state, c, "CLOSING")
                 /\ Set(due, c, NoTag) /\ Set(said, c, "nothing") /\ Set(intercept, c, FALSE)

(* The last handle on the connection goes with the task: both ends close,    *)
(* and what was not read is forgotten.                                       *)
Finish(c) == /\ Goto(c, "gone")
             /\ open' = open \ {c}
             /\ Set(up, c, <<>>)
             /\ Set(request, c, NoRequest)
             /\ Set(response, c, NoResponse)
             /\ Set(state, c, "CLOSING")
             /\ Set(due, c, NoTag)
             /\ Set(said, c, "nothing")
             /\ Set(intercept, c, FALSE)
             /\ UNCHANGED strayed

(* The listener gets a connection that the server accepted (HttpServer).     *)
Start(c) ==
  /\ pc[c] = "off" /\ c \in open
  /\ Goto(c, "head")
  /\ UNCHANGED <<wireVars, state, request, response, intercept, due, said, strayed>>

-----------------------------------------------------------------------------
(* What becomes of an exception, or of an error of the coroutine.            *)

(* catch (...) of processNextRequest: the error handler answers, and closes. *)
Caught(c) ==
  /\ Set(response, c, ErrorResponse)
  /\ Set(state, c, "CLOSING")

(* Coroutine::handleError: answers the request that is current, which may be *)
(* one that was answered before; the state of the connection stays.          *)
Handled(c) ==
  /\ Set(response, c, ErrorResponse)
  /\ Goto(c, "formed")
  /\ UNCHANGED <<wireVars, state, request, due, said, strayed>>

-----------------------------------------------------------------------------
(* readHeaders and readHeadersAsync.                                         *)
TakeHead(c, n) ==
  /\ Set(up, c, DropFirst(up[c], n))
  /\ Set(due, c, up[c][n].tag)
  /\ strayed' = IF up[c][n].kind = "last" THEN strayed \cup {c} ELSE strayed

(* Does the parser fail?                                                     *)
Unreadable(token) ==
  token.kind = "last" \/ (token.kind = "head" /\ token.form \in {"bad line", "bad field"})

TaskReadHead(c) ==
  /\ pc[c] = "head" /\ ~serverAsync
  /\ LET n == HeadAt(up[c]) IN
     \/ /\ n > 0
        /\ TakeHead(c, n)
        /\ \E req \in ReadRequest(c, n) : Set(request, c, req)
        /\ Set(state, c, "ALIVE")
        /\ Goto(c, "route")
        /\ UNCHANGED <<down, open, response, intercept, said>>
     \/ /\ n = 0 /\ c \notin open
        /\ Finish(c)                              \* ioStatus <= 0: DEAD
        /\ UNCHANGED down

CoroutineReadHead(c) ==
  /\ pc[c] = "head" /\ serverAsync
  /\ Set(intercept, c, TRUE)                   \* parseHeaders
  /\ LET n == HeadAt(up[c]) IN
     \/ /\ n > 0 /\ ~Unreadable(up[c][n])
        /\ TakeHead(c, n)
        /\ \E req \in ReadRequest(c, n) : Set(request, c, req)
        /\ Goto(c, "route")
        /\ UNCHANGED <<down, open, state, response, said>>
     \/ /\ n > 0 /\ Unreadable(up[c][n])
        /\ TakeHead(c, n)
        /\ Set(response, c, ErrorResponse)
        /\ Goto(c, "formed")
        /\ UNCHANGED <<down, open, state, request, said>>
     \/ /\ n = 0 /\ c \notin open
        /\ Handled(c)

(* Mutant: a request that fails is not answered.                             *)
RouteOrForget(c) ==
  /\ pc[c] = "route"
  /\ \/ HasRoute(request[c]) /\ Goto(c, "endpoint")
     \/ Goto(c, "head")
  /\ UNCHANGED <<wireVars, state, request, response, intercept, due, said, strayed>>

(* The request interceptors and the route of processNextRequest(request) and *)
(* of onHeadersParsed.                                                       *)
Route(c) ==
  /\ pc[c] = "route"
  /\ \/ \E resp \in InterceptorResponses :             \* an interceptor answers
           /\ Set(response, c, resp)
           /\ Goto(c, "formed")
           /\ UNCHANGED <<wireVars, state, request, due, said, strayed>>
     \/ /\ HasRoute(request[c])
        /\ Goto(c, "endpoint")
        /\ UNCHANGED <<wireVars, state, request, response, due, said, strayed>>
     \/ /\ ~serverAsync                                \* it throws, or 404
        /\ Caught(c)
        /\ Goto(c, "formed")
        /\ UNCHANGED <<wireVars, request, due, said, strayed>>
     \/ /\ serverAsync
        /\ Handled(c)
  /\ UNCHANGED intercept

(* Endpoint::handle: it may read the request's body, all of it, and answers  *)
(* or throws.  The blocking decoder takes a body that was cut off for whole. *)
(* What is not read is left to the next readHeaders.                         *)
Endpoint(c) ==
  /\ pc[c] = "endpoint"
  /\ \E reads \in {FALSE, HasBody(request[c])} :
       LET n == BodyEnd(request[c], up[c])
           failed == serverAsync /\ reads /\ ~Whole(request[c], up[c]) IN
       /\ reads => n > 0 \/ c \notin open
       /\ Set(up, c, IF ~reads THEN up[c] ELSE IF n = 0 THEN <<>>
                      ELSE DropFirst(up[c], Decoded(request[c], up[c])))
       /\ \/ /\ ~failed
             /\ \E resp \in EndpointResponses : Set(response, c, resp)
             /\ UNCHANGED state
          \/ IF serverAsync
             THEN Set(response, c, ErrorResponse) /\ UNCHANGED state
             ELSE Caught(c)
  /\ Goto(c, "formed")
  /\ UNCHANGED <<down, open, request, intercept, due, said, strayed>>

(* The response interceptors: the last one's response, or null, is what they *)
(* leave.  The coroutine runs them once per head that it read.               *)
Intercept(c) ==
  /\ pc[c] = "formed"
  /\ Set(intercept, c, FALSE)
  /\ \/ Goto(c, "ready") /\ UNCHANGED <<response, state>>
     \/ /\ ~serverAsync
        /\ Caught(c)
        /\ Goto(c, "ready")
     \/ /\ serverAsync /\ intercept[c]
        /\ Set(response, c, ErrorResponse)
        /\ UNCHANGED <<pc, state>>
  /\ UNCHANGED <<wireVars, request, due, said, strayed>>

(* The head of the response goes out.  Task does not see that nobody reads   *)
(* it; the coroutine ends on a broken pipe.                                  *)
SendHead(c) ==
  /\ pc[c] = "ready"
  /\ LET st == ConsiderConnectionState(request[c], response[c], state[c])
         resp == response[c]
         head == ResponseHead(Tag(request[c]), resp.status, Announced(resp, st),
                              resp.coding, resp.pieces) IN
     \/ /\ c \in open
        /\ Set(down, c, Append(down[c], head))
        /\ Set(due, c, NoTag)
        /\ Set(said, c, IF resp.connection = "none" \/ (resp = ErrorResponse /\ ~serverAsync)
                        THEN head.connection ELSE "as the user wants")
        /\ Set(state, c, st)
        /\ Goto(c, "body")
        /\ UNCHANGED <<up, open, request, response, intercept, strayed>>
     \/ /\ c \notin open /\ ~serverAsync
        /\ Set(state, c, st)
        /\ Goto(c, "body")
        /\ UNCHANGED <<wireVars, request, response, intercept, due, said, strayed>>
     \/ /\ c \notin open /\ serverAsync
        /\ Finish(c)
        /\ UNCHANGED down

(* Its body follows.  The read callback of a body may throw on the way: run() *)
(* gives the connection up, the coroutine sends a second response after what *)
(* it has sent of the first.                                                 *)
SendBody(c) ==
  /\ pc[c] = "body"
  /\ LET body == Body([tag |-> Tag(request[c]), coding |-> response[c].coding,
                       pieces |-> response[c].pieces])
         Write(tokens) == Set(down, c, IF c \in open THEN down[c] \o tokens ELSE down[c]) IN
     \/ /\ c \in open \/ ~serverAsync
        /\ ~response[c].throws
        /\ Write(body)
        /\ Goto(c, "done")
        /\ UNCHANGED <<up, open, state, request, response, intercept, due, said, strayed>>
     \/ /\ response[c].throws
        /\ Write(SubSeq(body, 1, response[c].pieces))
        /\ \/ /\ serverAsync
              /\ Set(response, c, ErrorResponse)
              /\ Goto(c, "formed")
              /\ UNCHANGED <<up, open, state, request, intercept, due, said, strayed>>
           \/ ~serverAsync /\ Finish(c)
     \/ /\ c \notin open /\ serverAsync
        /\ Finish(c) /\ UNCHANGED down

(* The end of the loop in run(), whose request and response are locals, and  *)
(* onRequestDone, whose are not.  With a handler for the upgrade the         *)
(* connection is that handler's now.                                         *)
Done(c) ==
  /\ pc[c] = "done"
  /\ \/ /\ state[c] = "ALIVE"
        /\ Goto(c, "head")
        /\ Set(request, c, IF serverAsync THEN request[c] ELSE NoRequest)
        /\ Set(response, c, IF serverAsync THEN response[c] ELSE NoResponse)
        /\ UNCHANGED <<up, open, state, intercept, due, said, strayed>>
     \/ /\ state[c] = "DELEGATED"
        /\ Goto(c, "upgraded")
        /\ UNCHANGED <<up, open, state, request, response, intercept, due, said, strayed>>
     \/ /\ state[c] \in {"CLOSING", "DELEGATED"}             \* no handler was set
        /\ Finish(c)
  /\ UNCHANGED down

(* The upgrade handler, outside of this module, drops the connection.        *)
Released(c) ==
  /\ pc[c] = "upgraded"
  /\ Finish(c)
  /\ UNCHANGED down

ServerStep(c) ==
     \/ Start(c) \/ TaskReadHead(c) \/ CoroutineReadHead(c) \/ Route(c) \/ Endpoint(c)
     \/ Intercept(c) \/ SendHead(c) \/ SendBody(c) \/ Done(c) \/ Released(c)

TakesHead(c) == pc[c] = "head" /\ due'[c] # due[c]
SendsHead(c) == pc[c] = "ready" /\ pc'[c] = "body"

-----------------------------------------------------------------------------
ServerTypeOK ==
  /\ pc \in [Conns -> {"off", "head", "route", "endpoint", "formed", "ready",
                       "body", "done", "upgraded", "gone"}]
  /\ state \in [Conns -> {"ALIVE", "CLOSING", "DELEGATED"}]

(* What the server takes for a head - a head, or the rest of a chunked body  *)
(* that its endpoint did not read - gets one answer, its own, and that       *)
(* before the next is read: a client that sends requests without waiting can *)
(* tell the answers apart by their order, as long as it counts such a rest.  *)
(* The coroutine owes that as long as no body throws, and a connection that  *)
(* broke, or closed, or that an upgrade took, owes nothing.                  *)
OneAnswerPerHead ==
  [][\A c \in Conns :
       /\ (TakesHead(c) /\ c \in open) => due[c] = NoTag
       /\ (SendsHead(c) /\ ~serverAsync) => due[c] # NoTag /\ due[c] = request[c].tag
    ]_<<pc, due>>

(* What a response announces is what the task does: after "close" no head is *)
(* read from the connection, after "keep-alive" it does not end by itself.   *)
(* Left out is a header that user code set itself (the client's wish goes    *)
(* before it), and the error response of the coroutine, which says "close"   *)
(* and goes on when the client asked for that.                               *)
AnnouncedIsDone ==
  [][\A c \in Conns :
       /\ TakesHead(c) => said[c] \in {"nothing", "keep-alive", "as the user wants"}
       /\ (pc[c] = "done" /\ pc'[c] = "gone" /\ c \in open) => said[c] \in {"close", "as the user wants"}
    ]_<<pc, due>>
=============================================================================
