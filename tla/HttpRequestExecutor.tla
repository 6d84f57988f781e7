------------------------- MODULE HttpRequestExecutor -------------------------
(* web::client::RequestExecutor and HttpRequestExecutor: one caller that     *)
(* executes requests one after another, blocking or as a coroutine, with or  *)
(* without a SimpleRetryPolicy, over connections that its provider pools.    *)
(*                                                                           *)
(* The provider (ResourcePool) is reduced to what the executor sees of it:   *)
(* an idle connection, a new one or a failure.  The delay between attempts   *)
(* is not modelled.                                                          *)
EXTENDS HttpWire

CONSTANTS CallerRequests,     \* [connection, coding, pieces] that the caller may make
          MaxAttempts,        \* m_maxAttempts of the policy
          NoConnection, NoAnswer

VARIABLES cpc,                \* where the caller is
          number, attempt,    \* of the current request
          sending,            \* its head
          handle,             \* connectionHandle, ch
          fresh,              \* connections the provider can still open
          valid, onDestroy,   \* m_valid and m_invalidateOnDestroy of each proxy
          idle,               \* connections the provider holds
          answer,             \* the response that execute() returned
          littered,           \* history: connections given back with an unfinished exchange
          toldClose           \* history: connections whose server has said "close"

clientVars == <<cpc, number, attempt, sending, handle, fresh, valid, onDestroy,
                idle, answer, littered, toldClose>>

ClientInit ==
  /\ cpc = "rest" /\ number = 0 /\ attempt = 0
  /\ sending = NoAnswer /\ handle = NoConnection /\ answer = NoAnswer
  /\ fresh = Conns /\ valid = {} /\ onDestroy = {} /\ idle = {} /\ littered = {} /\ toldClose = {}

(* SimpleRetryPolicy: maxAttempts counts the attempts after the first.       *)
CanRetry == policy /\ attempt <= MaxAttempts
RetryOnResponse(status) == policy /\ status = 503

-----------------------------------------------------------------------------
(* ConnectionProxy::invalidate: once.                                        *)
InvalidateProxy(c) ==
  IF c \in valid
  THEN valid' = valid \ {c} /\ open' = open \ {c}
  ELSE UNCHANGED <<valid, open>>

(* What comes on a connection that was dropped, nobody will read.            *)
Leave(c, queue) == down' = [down EXCEPT ![c] = IF c \in valid' THEN queue ELSE <<>>]

(* Mutant: the destructor does not look at m_invalidateOnDestroy.            *)
DropProxyAnyway(c) ==
  /\ UNCHANGED <<valid, open>>
  /\ idle' = IF c \in valid THEN idle \cup {c} ELSE idle
  /\ onDestroy' = onDestroy \ {c}

(* The last reference to the proxy goes: its destructor invalidates, or the  *)
(* provider gets the connection back.                                        *)
DropProxy(c) ==
  /\ IF c \in onDestroy THEN InvalidateProxy(c) ELSE UNCHANGED <<valid, open>>
  /\ idle' = IF c \in valid' THEN idle \cup {c} ELSE idle
  /\ onDestroy' = onDestroy \ {c}

(* The caller asks for a request: Connection as it likes, a body or none.    *)
Begin ==
  /\ cpc = "rest" /\ number < MaxRequests
  /\ number' = number + 1 /\ attempt' = 0
  /\ \E r \in {made \in CallerRequests : made.coding \in codings} :
       sending' = RequestHead([number |-> number + 1, attempt |-> 0],
                              r.connection, r.coding, r.pieces, "good")
  /\ cpc' = "attempt"
  /\ UNCHANGED <<wireVars, handle, fresh, valid, onDestroy, idle, answer, littered, toldClose>>

(* context.attempt ++, and getConnection() unless there is a connection.     *)
Attempt ==
  /\ cpc = "attempt"
  /\ attempt' = attempt + 1
  /\ sending' = [sending EXCEPT !.tag.attempt = attempt + 1]
  /\ \/ \E c \in idle :
          /\ handle' = c /\ idle' = idle \ {c} /\ cpc' = "send"
          /\ UNCHANGED <<open, valid, fresh>>
     \/ /\ fresh # {}
        /\ handle' = Min(fresh) /\ fresh' = fresh \ {Min(fresh)} /\ cpc' = "send"
        /\ open' = open \cup {Min(fresh)} /\ valid' = valid \cup {Min(fresh)}
        /\ UNCHANGED idle
     \/ cpc' = "failed" /\ UNCHANGED <<handle, open, valid, idle, fresh>>
  /\ UNCHANGED <<up, down, number, onDestroy, answer, littered, toldClose>>

(* executeOnce: the request goes out.  A broken pipe is seen by the coroutine *)
(* only; a body that throws leaves half of the request on the connection.    *)
Send ==
  /\ cpc = "send"
  /\ LET c == handle
         Write(tokens) == up' = IF c \in open THEN [up EXCEPT ![c] = @ \o tokens] ELSE up IN
     \/ /\ c \in open \/ ~clientAsync
        /\ Write(<<sending>> \o Body(sending))
        /\ cpc' = "await"
        /\ UNCHANGED <<open, valid>>
     \/ /\ sending.coding = "chunked"
        /\ Write(<<sending, Piece(sending.tag)>>)
        /\ cpc' = "failed"
        /\ IF clientAsync THEN InvalidateProxy(c) ELSE UNCHANGED <<open, valid>>
     \/ /\ c \notin open /\ clientAsync
        /\ cpc' = "failed" /\ InvalidateProxy(c) /\ UNCHANGED up
  /\ Leave(handle, down[handle])
  /\ UNCHANGED <<number, attempt, sending, handle, onDestroy, idle, fresh, answer, littered, toldClose>>

(* ... and the head of the response is read.  Bytes before it become part of *)
(* its protocol, which is not looked at, or spoil its line, and the rest of  *)
(* a chunked body has none: then the blocking reader returns an empty        *)
(* response, whose status code nobody has set, the other an error.           *)
Empties == {ResponseHead([number |-> 0, attempt |-> 0], status, "none", "sized", 0) :
              status \in {0, 503}}

Accept(resp) ==
  /\ answer' = resp
  /\ onDestroy' = IF resp.connection = "close" THEN onDestroy \cup {handle} ELSE onDestroy
  /\ toldClose' = IF resp.connection = "close" THEN toldClose \cup {handle} ELSE toldClose
  /\ cpc' = "got"
  /\ UNCHANGED <<open, valid>>

Refuse == InvalidateProxy(handle) /\ cpc' = "failed" /\ UNCHANGED <<answer, onDestroy, toldClose>>

ReadHead ==
  /\ cpc = "await"
  /\ LET n == HeadAt(down[handle]) IN
     \/ /\ n > 0
        /\ \/ down[handle][n].kind = "head" /\ Accept(down[handle][n])
           \/ /\ n > 1 \/ down[handle][n].kind = "last"
              /\ IF clientAsync THEN Refuse ELSE \E empty \in Empties : Accept(empty)
        /\ Leave(handle, DropFirst(down[handle], n))
     \/ /\ n = 0 /\ handle \notin open
        /\ IF ~clientAsync /\ eofIsZero
           THEN \E empty \in Empties : Accept(empty)
           ELSE Refuse
        /\ Leave(handle, <<>>)
  /\ UNCHANGED <<up, number, attempt, sending, handle, idle, fresh, littered>>

(* What execute() makes of a response: one of the policy's codes is tried    *)
(* again, as long as it may be.                                              *)
Judge ==
  /\ cpc = "got"
  /\ cpc' = IF RetryOnResponse(answer.status) /\ CanRetry THEN "retry" ELSE "answered"
  /\ UNCHANGED <<wireVars, number, attempt, sending, handle, valid, onDestroy, idle, fresh,
                 answer, littered, toldClose>>

(* The catch block of execute(), and handleError.                            *)
Failed ==
  /\ cpc = "failed"
  /\ IF CanRetry
     THEN /\ cpc' = "retry"
          /\ UNCHANGED <<down, handle, valid, open, onDestroy, idle, littered>>
     ELSE /\ cpc' = "rest"
          /\ handle' = NoConnection
          /\ IF handle = NoConnection
             THEN UNCHANGED <<down, valid, open, onDestroy, idle, littered>>
             ELSE IF clientAsync
             THEN /\ InvalidateProxy(handle)
                  /\ Leave(handle, <<>>)
                  /\ UNCHANGED <<onDestroy, idle, littered>>
             ELSE /\ DropProxy(handle)
                  /\ Leave(handle, down[handle])
                  /\ littered' = IF handle \in idle' THEN littered \cup {handle} ELSE littered
  /\ UNCHANGED <<up, number, attempt, sending, fresh, answer, toldClose>>

(* Mutant: the connection of a given up attempt goes back to the provider.   *)
RetryKeeping ==
  /\ cpc = "retry"
  /\ IF handle = NoConnection
     THEN UNCHANGED <<idle, valid, open, onDestroy>>
     ELSE DropProxy(handle)
  /\ handle' = NoConnection /\ answer' = NoAnswer /\ cpc' = "attempt"
  /\ UNCHANGED <<up, down, number, attempt, sending, fresh, littered, toldClose>>

(* invalidateConnection(ch), ch.reset() and the delay.                       *)
Retry ==
  /\ cpc = "retry"
  /\ IF handle = NoConnection
     THEN UNCHANGED <<down, valid, open>>
     ELSE InvalidateProxy(handle) /\ Leave(handle, down[handle])
  /\ handle' = NoConnection
  /\ onDestroy' = onDestroy \ {handle}
  /\ answer' = NoAnswer
  /\ cpc' = "attempt"
  /\ UNCHANGED <<up, number, attempt, sending, idle, fresh, littered, toldClose>>

(* The caller reads the body of the response, or not, and forgets it: with it *)
(* go the last reference to the connection and what the stream of its body   *)
(* had read ahead.                                                           *)
Take ==
  /\ cpc = "answered"
  /\ LET queue == down[handle]  n == BodyEnd(answer, queue) IN
     \E reads \in {FALSE, HasBody(answer)} :
       /\ reads => n > 0 \/ handle \notin open
       /\ DropProxy(handle)
       /\ LET taken == IF ~reads THEN 0 ELSE IF n = 0 THEN Len(queue) ELSE Decoded(answer, queue) IN
          \E m \in taken .. Len(queue) : Leave(handle, DropFirst(queue, m))
       /\ LET clean == answer \notin Empties /\ (HasBody(answer) => reads /\ Whole(answer, queue)) IN
          littered' = IF handle \in idle' /\ ~clean THEN littered \cup {handle} ELSE littered
  /\ handle' = NoConnection /\ answer' = NoAnswer /\ cpc' = "rest"
  /\ UNCHANGED <<up, number, attempt, sending, fresh, toldClose>>

ClientStep ==
  Begin \/ Attempt \/ Send \/ ReadHead \/ Judge \/ Failed \/ Retry \/ Take

-----------------------------------------------------------------------------
ClientTypeOK ==
  /\ cpc \in {"rest", "attempt", "send", "await", "got", "failed", "retry", "answered"}
  /\ handle \in Conns \cup {NoConnection}
  /\ idle \subseteq valid /\ onDestroy \subseteq Conns

(* A connection whose server said "close" carries no other request, and none *)
(* is in use while the provider holds it.                                    *)
ClosedNotReused ==
  /\ cpc \in {"send", "await"} => handle \notin toldClose
  /\ handle # NoConnection => handle \notin idle
=============================================================================
