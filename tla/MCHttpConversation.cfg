SPECIFICATION ConversationSpec
CONSTANTS
  Conns = {1, 2}
  MaxAttempts = 1
  NoRequest = NoRequest
  NoResponse = NoResponse
  NoConnection = NoConnection
  NoAnswer = NoAnswer
  NoTag = NoTag
  EndpointResponses <- TheEndpointResponses
  InterceptorResponses <- TheInterceptorResponses
  CallerRequests <- TheCallerRequests
  Requests <- TheRequests
  Variants <- TheVariants
INVARIANTS
  AnswersOwnRequest
  ClosedNotReused
PROPERTIES
  OneAnswerPerHead
  AnnouncedIsDone
  ExchangesEnd
\* A caller that has made its requests rests, its server waits.
CHECK_DEADLOCK FALSE
