-------------------------- MODULE MCHttpConversation --------------------------
(* One caller, or one foreign client, and a server, on at most two           *)
(* connections.  The variants are the pairings of blocking and asynchronous  *)
(* sides, with and without retries, over tcp (a read at the end gives 0) and *)
(* over the virtual network (BROKEN_PIPE), with bodies of known size and in  *)
(* chunks.                                                                   *)
EXTENDS HttpConversation

Response(status, connection, coding, throws) ==
  [status |-> status, connection |-> connection, coding |-> coding,
   pieces |-> 1, throws |-> throws]

TheEndpointResponses ==
  {Response(200, "none", "sized", FALSE), Response(503, "close", "chunked", FALSE),
   Response(200, "none", "chunked", TRUE), Response(200, "Upgrade", "sized", FALSE)}

TheInterceptorResponses == {Response(200, "none", "sized", FALSE)}

Message(connection, coding, pieces, form) ==
  [connection |-> connection, coding |-> coding, pieces |-> pieces, form |-> form]

TheCallerRequests ==
  {Message("keep-alive", coding, 1, "good") : coding \in {"sized", "chunked"}}

TheRequests ==
  {Message("keep-alive", "chunked", 1, "good"),
   Message("none", "sized", 0, "old"), Message("none", "sized", 1, "good"),
   Message("close", "sized", 0, "good"), Message("keep-alive", "sized", 0, "bad field"),
   Message("none", "sized", 0, "bad line")}

Executor(server, client, retries, zero, bodies, sent, broken) ==
  [serverAsync |-> server, clientAsync |-> client, policy |-> retries, eofIsZero |-> zero,
   foreign |-> FALSE, codings |-> bodies, requests |-> sent, breaks |-> broken]

ForeignClient(server) == [Executor(server, FALSE, FALSE, FALSE, {}, 2, 1) EXCEPT !.foreign = TRUE]

TheVariants ==
  {Executor(TRUE,  TRUE,  TRUE,  FALSE, {"chunked"}, 1, 1),
   Executor(FALSE, FALSE, TRUE,  TRUE,  {"sized"}, 1, 1),
   Executor(FALSE, FALSE, TRUE,  TRUE,  {"chunked"}, 1, 0),
   Executor(FALSE, TRUE,  FALSE, FALSE, {"sized", "chunked"}, 2, 0),
   Executor(TRUE,  FALSE, FALSE, FALSE, {"chunked"}, 2, 0),
   ForeignClient(FALSE), ForeignClient(TRUE)}
=============================================================================
