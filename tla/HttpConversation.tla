--------------------------- MODULE HttpConversation ---------------------------
(* The client's executor and the server's tasks over connections that may    *)
(* break: every request that is executed, from the caller to the endpoint    *)
(* and back.                                                                 *)
EXTENDS HttpProcessor, HttpRequestExecutor

CONSTANT Requests              \* [connection, coding, pieces, form] a foreign client may send

-----------------------------------------------------------------------------
(* What goes over the wire, and what the constants are.                      *)
Headers == {"none", "keep-alive", "close", "Upgrade", "other"}
Codings == {"sized", "chunked"}
Forms   == {"good", "old", "bad line", "bad field", "strange"}

Tags    == [number : Nat, attempt : Nat]
AnyTag  == Tags \cup {NoTag}
RequestHeads ==
  [kind : {"head"}, tag : Tags, connection : Headers, coding : Codings, pieces : Nat,
   form : Forms]
ResponseHeads ==
  [kind : {"head"}, tag : AnyTag, connection : Headers, coding : Codings, pieces : Nat,
   status : Nat]
BodyTokens(tags) == [kind : {"piece", "last"}, tag : tags]

UserRequests  == [connection : Headers, coding : Codings, pieces : Nat, form : Forms]
UserResponses == [status : Nat, connection : Headers, coding : Codings, pieces : Nat,
                  throws : BOOLEAN]
UserMakes == EndpointResponses \cup InterceptorResponses

\* Connections are numbered; the values that stand for nothing are nothing else; a body
\* whose size is known is in memory and does not throw; a response of user code is told
\* from the error handler's, though both may look the same to the client.
ConversationConstants ==
  /\ Conns \subseteq Nat /\ Conns # {}
  /\ NoConnection \notin Conns
  /\ Variants \subseteq [serverAsync : BOOLEAN, clientAsync : BOOLEAN, policy : BOOLEAN,
                         eofIsZero : BOOLEAN, foreign : BOOLEAN, codings : SUBSET Codings,
                         requests : Nat, breaks : Nat]
  /\ CallerRequests \subseteq UserRequests /\ Requests \subseteq UserRequests
  /\ UserMakes \subseteq UserResponses
  /\ \A resp \in UserMakes : resp.throws => resp.coding = "chunked"
  /\ ErrorResponse \notin UserMakes
  /\ NoTag \notin Tags /\ NoRequest \notin RequestHeads

ASSUME ConversationAssumption == ConversationConstants

-----------------------------------------------------------------------------
VARIABLE breaks                \* connections that the network has broken

conversationVars == <<wireVars, variant, serverVars, clientVars, breaks>>

ConversationInit == WireInit /\ ServerInit /\ ClientInit /\ breaks = 0

(* The connection is reset: what was on its way may be lost.                 *)
Break(c) ==
  /\ c \in open /\ breaks < MaxBreaks
  /\ breaks' = breaks + 1
  /\ open' = open \ {c}
  /\ \/ UNCHANGED <<up, down>>
     \/ up' = [up EXCEPT ![c] = <<>>] /\ down' = [down EXCEPT ![c] = <<>>]
  /\ UNCHANGED <<serverVars, clientVars>>

Server(c) == ServerStep(c) /\ UNCHANGED <<clientVars, breaks, variant>>
Client == ~foreign /\ ClientStep /\ UNCHANGED <<serverVars, breaks, variant>>

(* Another client sends heads as it likes, with what belongs to them, before *)
(* it has an answer to the last, takes what comes back and may go away.      *)
ForeignConnect ==
  /\ foreign /\ fresh = Conns
  /\ fresh' = Conns \ {Min(Conns)} /\ open' = {Min(Conns)}
  /\ UNCHANGED <<up, down, serverVars, breaks, cpc, number, attempt,
                 sending, handle, valid, onDestroy, idle, answer, littered, toldClose>>

ForeignSend(c) ==
  /\ foreign /\ c \in open /\ number < MaxRequests
  /\ number' = number + 1
  /\ \E r \in Requests :
       LET head == RequestHead([number |-> number + 1, attempt |-> 1], r.connection,
                               r.coding, r.pieces, r.form) IN
       up' = [up EXCEPT ![c] = @ \o <<head>> \o Body(head)]
  /\ UNCHANGED <<down, open, serverVars, breaks, cpc, attempt,
                 sending, handle, fresh, valid, onDestroy, idle, answer, littered, toldClose>>

ForeignTake(c) ==
  /\ foreign /\ down[c] # <<>>
  /\ down' = [down EXCEPT ![c] = <<>>]
  /\ UNCHANGED <<up, open, serverVars, clientVars, breaks>>

ForeignClose(c) ==
  /\ foreign /\ c \in open
  /\ open' = open \ {c}
  /\ UNCHANGED <<up, down, serverVars, clientVars, breaks>>

Foreign(c) == ForeignConnect \/ ForeignSend(c) \/ ForeignTake(c) \/ ForeignClose(c)

ConversationNext ==
  /\ Client \/ \E c \in Conns : Server(c) \/ Foreign(c) \/ Break(c)
  /\ UNCHANGED variant

(* Both sides run when they can: a thread each, or a scheduled coroutine.    *)
ConversationFairness == WF_conversationVars(Client /\ cpc # "rest")
                        /\ \A c \in Conns : WF_conversationVars(Server(c))

ConversationSpec ==
  ConversationInit /\ [][ConversationNext]_conversationVars /\ ConversationFairness

-----------------------------------------------------------------------------
(* A response is the answer to the very attempt that the caller waits for,   *)
(* whatever was retried before and whatever still was on its way then:       *)
(* attempts that were given up never lend their connection to the next one.  *)
(* Left out are connections that went back to the provider with an exchange  *)
(* unfinished, which the executor lets callers do, and those where the       *)
(* server has answered the rest of a body that its endpoint did not read: it *)
(* says "keep-alive" before, and the next caller takes that answer for its   *)
(* own.                                                                      *)
AnswersOwnRequest ==
  (cpc \in {"got", "answered"} /\ handle \notin littered \cup strayed /\ answer \notin Empties)
    => answer.tag = [number |-> number, attempt |-> attempt]

(* Neither side waits for the other for ever: every execution comes to its   *)
(* end, with an answer or without, and its body too; and a client that goes  *)
(* away leaves no task behind, whatever it has sent.                         *)
ExchangesEnd ==
  /\ cpc # "rest" ~> cpc = "rest"
  /\ \A c \in Conns : pc[c] = "head" /\ c \notin open ~> pc[c] = "gone"
=============================================================================
