------------------------------ MODULE HttpWire ------------------------------
(* What an HTTP connection of oatpp carries between the server's task        *)
(* (HttpProcessor) and the client's executor (HttpRequestExecutor): two      *)
(* queues of tokens.  A head stands for everything up to the empty line, a   *)
(* piece for a part of a body, the last chunk for the end of a chunked body. *)
(* Heads carry the request and the attempt they belong to, which no code     *)
(* looks at: the properties do.                                              *)
EXTENDS Naturals, Sequences, SequencesExt, FiniteSets

CONSTANTS Conns,               \* the connections that may ever be opened
          Variants

VARIABLES up, down,            \* tokens on their way to the server, to the client
          open,                \* connections that neither side has closed
          variant              \* how both sides run, and how often what may happen: a record

serverAsync == variant.serverAsync     \* does the server run coroutines, or tasks?
clientAsync == variant.clientAsync     \* executeAsync or execute?
policy      == variant.policy          \* has the executor a retry policy?
eofIsZero   == variant.eofIsZero       \* does a read at the end give 0 (tcp) or BROKEN_PIPE?
foreign     == variant.foreign         \* is the client another one than the executor?
codings     == variant.codings         \* how may the executor's bodies be sent?
MaxRequests == variant.requests        \* bounds
MaxBreaks   == variant.breaks

wireVars == <<up, down, open>>

WireInit == /\ variant \in Variants
            /\ up = [c \in Conns |-> <<>>]
            /\ down = [c \in Conns |-> <<>>]
            /\ open = {}

(* http::Headers and the starting line, as far as the code looks at them.    *)
RequestHead(tag, connection, coding, pieces, form) ==
  [kind |-> "head", tag |-> tag, connection |-> connection,
   coding |-> coding, pieces |-> pieces, form |-> form]

ResponseHead(tag, status, connection, coding, pieces) ==
  [kind |-> "head", tag |-> tag, connection |-> connection,
   coding |-> coding, pieces |-> pieces, status |-> status]

Piece(tag) == [kind |-> "piece", tag |-> tag]
LastChunk(tag) == [kind |-> "last", tag |-> tag]

Body(head) == [i \in 1 .. head.pieces |-> Piece(head.tag)]
              \o (IF head.coding = "chunked" THEN <<LastChunk(head.tag)>> ELSE <<>>)

(* readHeadersSectionIterative takes all up to the first empty line for a     *)
(* head.  Pieces, which are taken to hold none, come with what follows them; *)
(* a last chunk is "0" and an empty line, and ends a head of its own: where  *)
(* nobody has read a chunked body, the rest of it is the next head.          *)
HeadAt(queue) == SelectInSeq(queue, LAMBDA token : token.kind # "piece")

(* A sized body is its first pieces; a chunked one is decoded up to its last *)
(* chunk.  A head met on the way is read as if it were the body's bytes.     *)
BodyEnd(head, queue) ==
  IF head.coding = "chunked"
  THEN SelectInSeq(queue, LAMBDA token : token.kind # "piece")
  ELSE IF Len(queue) >= head.pieces THEN head.pieces ELSE 0

HasBody(head) == head.coding = "chunked" \/ head.pieces > 0

(* The processing of a chunked body fails when what ends it is no chunk.     *)
Whole(head, queue) ==
  LET n == BodyEnd(head, queue) IN
  /\ n > 0
  /\ head.coding = "chunked" => queue[n].kind = "last"

DropFirst(queue, n) == SubSeq(queue, n + 1, Len(queue))

(* How many tokens go with a body.  The decoder that meets a head takes its  *)
(* first bytes for the size of a chunk, gives up and leaves the others: a    *)
(* head with something odd before it, as if a piece had not been read.       *)
Decoded(head, queue) ==
  LET n == BodyEnd(head, queue) IN
  IF head.coding = "chunked" /\ n > 1 /\ queue[n].kind = "head" THEN n - 2 ELSE n
=============================================================================
