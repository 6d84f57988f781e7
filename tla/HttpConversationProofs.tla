------------------------ MODULE HttpConversationProofs ------------------------
(***************************************************************************)
(* Proofs about HttpConversation for any number of connections, requests,  *)
(* attempts and breaks, any requests and any responses of user code: the   *)
(* answer that a caller gets is its own attempt's unless the connection    *)
(* was littered with an unread answer or strayed into the rest of an       *)
(* unread request, a connection that was announced closed is left alone,   *)
(* and the server answers what it takes for a head once, that rest         *)
(* included, and does what it announced.                                   *)
(*                                                                         *)
(* The server's part of the invariant is about one task at a time and      *)
(* holds whoever the client is; the caller's part is about what is on its  *)
(* way between the two, and changes with the server's steps only as        *)
(* Carried says.                                                           *)
(***************************************************************************)
EXTENDS HttpConversation, SequenceTheorems, FiniteSetTheorems, TLAPS
-----------------------------------------------------------------------------
(* Types.                                                                    *)

Responses == UserMakes \cup {ErrorResponse}

WireTypes ==
  /\ variant \in Variants
  /\ up \in [Conns -> Seq(RequestHeads \cup BodyTokens(Tags))]
  /\ down \in [Conns -> Seq(ResponseHeads \cup BodyTokens(AnyTag))]
  /\ open \subseteq Conns

TaskTypes ==
  /\ ServerTypeOK
  /\ request \in [Conns -> RequestHeads \cup {NoRequest}]
  /\ response \in [Conns -> Responses \cup {NoResponse}]
  /\ intercept \in [Conns -> BOOLEAN]
  /\ due \in [Conns -> AnyTag]
  /\ said \in [Conns -> Headers \cup {"nothing", "as the user wants"}]
  /\ strayed \subseteq Conns

CallerTypes ==
  /\ ClientTypeOK
  /\ number \in Nat /\ attempt \in Nat
  /\ sending \in RequestHeads \cup {NoAnswer}
  /\ answer \in ResponseHeads \cup {NoAnswer}
  /\ fresh \subseteq Conns /\ valid \subseteq Conns
  /\ littered \subseteq Conns /\ toldClose \subseteq Conns

TypeOK == WireTypes /\ TaskTypes /\ CallerTypes

-----------------------------------------------------------------------------
(* The server's task, whoever its client is.                                 *)

Lasting == {"nothing", "keep-alive", "as the user wants"}

\* Where the task has a request to answer, and where a response.
Asked(c) ==
  (pc[c] \in {"route", "endpoint"} \/ (pc[c] \in {"formed", "ready"} /\ ~serverAsync))
     => /\ request[c] \in RequestHeads
        /\ ~serverAsync => due[c] = request[c].tag
Formed(c) == pc[c] \in {"formed", "ready", "body"} => response[c] \in Responses

\* Between two heads nothing is owed.
Settled(c) ==
  /\ pc[c] = "off" => due[c] = NoTag
  /\ (pc[c] \in {"head", "body", "done"} /\ c \in open) => due[c] = NoTag

\* What was announced last, by what the task is about to do.
Kept(c) ==
  /\ pc[c] \in {"off", "head", "route", "endpoint"} => said[c] \in Lasting /\ state[c] = "ALIVE"
  /\ pc[c] \in {"formed", "ready"} =>
       \/ /\ state[c] = "ALIVE" /\ said[c] \in Lasting
          /\ ~serverAsync => response[c] # ErrorResponse
       \/ response[c] = ErrorResponse /\ (~serverAsync => state[c] = "CLOSING" /\ said[c] \in Lasting)
  /\ pc[c] \in {"body", "done"} =>
       /\ state[c] = "ALIVE" => said[c] \in Lasting
       /\ (state[c] # "ALIVE" /\ c \in open) => said[c] \in {"close", "as the user wants"}

ServerInv == \A c \in Conns : Asked(c) /\ Formed(c) /\ Settled(c) /\ Kept(c)

-----------------------------------------------------------------------------
(* The caller's exchanges.                                                   *)
NoHead(queue) == \A i \in 1 .. Len(queue) : queue[i].kind # "head"
AllPieces(queue) == \A i \in 1 .. Len(queue) : queue[i].kind = "piece"

\* The server may still send a head on the connection, or the end of a chunked body.
Busy(c) ==
  /\ c \in open
  /\ \/ pc[c] \in {"route", "endpoint", "formed", "ready"}
     \/ pc[c] = "body" /\ response[c].coding = "chunked"

\* Nothing is on its way to the server, nothing is being answered.
ServerQuiet(c) == ~Busy(c) /\ NoHead(up[c])
Quiet(c) == ServerQuiet(c) /\ AllPieces(down[c])

\* What ends a response: its last chunk, or its head, when a body of known size, if any,
\* follows.
Ending(token) == token.kind = "last" \/ (token.kind = "head" /\ token.coding # "chunked")

\* The executor has one request on a connection at a time, ...
OneRequest(c) ==
  /\ \A i, j \in 1 .. Len(up[c]) : up[c][i].kind = "head" /\ up[c][j].kind = "head" => i = j
  /\ Busy(c) => NoHead(up[c])

\* ... and what ends its response is the last that comes, but for pieces.
EndsLast(c) ==
  \A i \in 1 .. Len(down[c]) :
    Ending(down[c][i]) =>
      ServerQuiet(c) /\ \A j \in i + 1 .. Len(down[c]) : down[c][j].kind = "piece"

Current == [number |-> number, attempt |-> attempt]

\* All heads on the connection of a caller that waits belong to its attempt.
OwnHeads(c, tag) ==
  /\ \A i \in 1 .. Len(up[c]) : up[c][i].kind = "head" => up[c][i].tag = tag
  /\ \A i \in 1 .. Len(down[c]) : down[c][i].kind = "head" => down[c][i].tag = tag
  /\ Busy(c) => Tag(request[c]) = tag

\* The executor makes no heads that cannot be parsed.
GoodForms(c) == \A i \in 1 .. Len(up[c]) : up[c][i].kind = "head" => up[c][i].form = "good"

\* An answer is the attempt's own, and one without chunks is the last of its exchange.
OwnAnswer(c) ==
  answer \notin Empties => answer.tag = Current /\ (answer.coding # "chunked" => Quiet(c))

WireInv ==
  /\ \A c \in Conns : GoodForms(c)
  /\ \A c \in Conns \ (littered \cup strayed) :
       /\ OneRequest(c) /\ EndsLast(c)
       /\ c \in idle => Quiet(c)
       /\ c = handle =>
            /\ cpc = "send" => Quiet(c)
            /\ cpc = "await" => OwnHeads(c, Current)
            /\ cpc \in {"got", "answered"} => OwnAnswer(c)

\* Connections not yet opened are as they were.
FreshInv ==
  \A c \in fresh :
    /\ c \notin open \cup valid \cup littered \cup toldClose /\ c # handle
    /\ pc[c] = "off" /\ up[c] = <<>> /\ down[c] = <<>>

\* The caller has a connection where it uses one, and the provider does not have it too.
HandleInv ==
  /\ cpc \in {"rest", "attempt"} => handle = NoConnection
  /\ cpc \in {"send", "await", "got", "answered"} => handle \in Conns
  /\ cpc \in {"send", "await"} => handle \in valid
  /\ handle \notin idle
  /\ cpc \in {"got", "answered"} => answer \in ResponseHeads
  /\ cpc # "rest" =>
       /\ sending \in RequestHeads /\ sending.form = "good" /\ sending.tag.number = number
       /\ cpc = "send" => sending.tag = Current

\* A connection whose server said "close" is in use until its answer is dropped, and is
\* invalid after that.
ToldInv ==
  \A c \in toldClose \cap valid :
    c = handle /\ cpc \in {"got", "answered", "retry"} /\ c \in onDestroy

\* A foreign client leaves the caller at rest.
CallerInv ==
  /\ foreign => cpc = "rest" /\ idle = {} /\ valid = {}
  /\ foreign \/ WireInv

IInv == TypeOK /\ ServerInv /\ FreshInv /\ HandleInv /\ ToldInv /\ CallerInv

-----------------------------------------------------------------------------
(* Queues of tokens.                                                         *)

\* A set of numbers has a least element.
LEMMA LeastNumber ==
  ASSUME NEW S \in SUBSET Nat, S # {}
  PROVE  Min(S) \in S /\ \A y \in S : Min(S) <= y
<1> DEFINE T == {0 .. n : n \in S}
<1>1. T \subseteq FiniteSubsetsOf(Nat) /\ T # {}
  <2>1. \A n \in Nat : 0 .. n \in FiniteSubsetsOf(Nat)
    BY FS_Interval DEF FiniteSubsetsOf
  <2> QED BY <2>1
<1>2. PICK t \in T : \A u \in T : ~(<<u, t>> \in StrictSubsetOrdering(Nat))
  BY <1>1, FS_StrictSubsetOrderingWellFounded, WFMin
<1>3. PICK x \in S : t = 0 .. x
  OBVIOUS
<1>4. ASSUME NEW y \in S, ~(x <= y) PROVE FALSE
  <2>1. 0 .. y \in SUBSET Nat /\ 0 .. x \in SUBSET Nat
    OBVIOUS
  <2>2. 0 .. y \subseteq 0 .. x /\ x \notin 0 .. y /\ x \in 0 .. x
    BY <1>4
  <2>3. <<0 .. y, 0 .. x>> \in StrictSubsetOrdering(Nat)
    BY <2>1, <2>2 DEF StrictSubsetOrdering
  <2> QED BY <1>2, <1>3, <2>3
<1> QED
  BY <1>4 DEF Min

\* HeadAt gives the first token that is no piece, or 0 when there is none.
LEMMA HeadAtFacts ==
  ASSUME NEW S, NEW queue \in Seq(S)
  PROVE  /\ HeadAt(queue) \in 0 .. Len(queue)
         /\ HeadAt(queue) > 0 => queue[HeadAt(queue)].kind # "piece"
         /\ \A i \in 1 .. Len(queue) : i < HeadAt(queue) => queue[i].kind = "piece"
         /\ HeadAt(queue) = 0 => AllPieces(queue)
<1> DEFINE I == {i \in 1 .. Len(queue) : queue[i].kind # "piece"}
<1>1. HeadAt(queue) = IF I # {} THEN Min(I) ELSE 0
  BY DEF HeadAt, SelectInSeq
<1>2. I \in SUBSET Nat /\ Len(queue) \in Nat
  BY LenProperties
<1>3. I # {} => Min(I) \in I /\ \A y \in I : Min(I) <= y
  BY <1>2, LeastNumber
<1>4. \A i : i \in I <=> i \in 1 .. Len(queue) /\ queue[i].kind # "piece"
  OBVIOUS
<1> HIDE DEF I
<1>5. CASE I = {}
  BY <1>1, <1>2, <1>4, <1>5 DEF AllPieces
<1>6. CASE I # {}
  BY <1>1, <1>2, <1>3, <1>4, <1>6
<1> QED
  BY <1>5, <1>6

\* BodyEnd gives the end of a body, 0 before it has come; a chunked one is pieces until
\* there.
LEMMA BodyEndFacts ==
  ASSUME NEW S, NEW queue \in Seq(S), NEW head, head.pieces \in Nat
  PROVE  /\ BodyEnd(head, queue) \in 0 .. Len(queue)
         /\ (head.coding = "chunked" /\ BodyEnd(head, queue) > 0) =>
              \A i \in 1 .. Len(queue) : i < BodyEnd(head, queue) => queue[i].kind = "piece"
<1> DEFINE I == {i \in 1 .. Len(queue) : queue[i].kind # "piece"}
<1>1. Len(queue) \in Nat
  BY LenProperties
<1>2. CASE head.coding = "chunked"
  <2>1. BodyEnd(head, queue) = IF I # {} THEN Min(I) ELSE 0
    BY <1>2 DEF BodyEnd, SelectInSeq
  <2>2. I \in SUBSET Nat
    OBVIOUS
  <2>3. I # {} => Min(I) \in I /\ \A y \in I : Min(I) <= y
    BY <2>2, LeastNumber
  <2>4. \A i : i \in I <=> i \in 1 .. Len(queue) /\ queue[i].kind # "piece"
    OBVIOUS
  <2> HIDE DEF I
  <2>5. CASE I = {}
    BY <1>1, <2>1, <2>5
  <2>6. CASE I # {}
    BY <1>1, <2>1, <2>3, <2>4, <2>6
  <2> QED
    BY <2>5, <2>6
<1>3. CASE head.coding # "chunked"
  BY <1>1, <1>3 DEF BodyEnd
<1> QED
  BY <1>2, <1>3

\* What goes with a body is part of the queue, and all of it when it ends in a last chunk.
LEMMA DecodedFacts ==
  ASSUME NEW S, NEW queue \in Seq(S), NEW head, head.pieces \in Nat
  PROVE  /\ Decoded(head, queue) \in 0 .. Len(queue)
         /\ queue[BodyEnd(head, queue)].kind = "last" => Decoded(head, queue) = BodyEnd(head, queue)
<1> DEFINE n == BodyEnd(head, queue)
<1>1. n \in 0 .. Len(queue) /\ Len(queue) \in Nat
  BY BodyEndFacts, LenProperties
<1>2. Decoded(head, queue) =
        IF head.coding = "chunked" /\ n > 1 /\ queue[n].kind = "head" THEN n - 2 ELSE n
  BY DEF Decoded
<1> HIDE DEF n
<1>3. Decoded(head, queue) \in 0 .. Len(queue)
  BY <1>1, <1>2
<1>4. queue[n].kind = "last" => Decoded(head, queue) = n
  BY <1>2
<1> QED
  BY <1>3, <1>4 DEF n

\* What is left of a queue.
LEMMA DropFacts ==
  ASSUME NEW S, NEW queue \in Seq(S), NEW n \in 0 .. Len(queue)
  PROVE  /\ DropFirst(queue, n) \in Seq(S)
         /\ Len(DropFirst(queue, n)) = Len(queue) - n
         /\ \A i \in 1 .. Len(queue) - n : DropFirst(queue, n)[i] = queue[i + n]
<1>1. Len(queue) \in Nat
  BY LenProperties
<1>2. \A i \in n + 1 .. Len(queue) : queue[i] \in S
  BY <1>1, ElementOfSeq
<1>3. /\ DropFirst(queue, n) \in Seq(S)
      /\ Len(DropFirst(queue, n)) = IF n + 1 <= Len(queue) THEN Len(queue) - (n + 1) + 1 ELSE 0
      /\ \A i \in 1 .. Len(queue) - (n + 1) + 1 :
           DropFirst(queue, n)[i] = queue[n + 1 + i - 1]
  BY <1>1, <1>2, SubSeqProperties DEF DropFirst
<1> QED
  BY <1>1, <1>3

\* All of a queue, and nothing of it, are what is left of it.
LEMMA DropEnds ==
  ASSUME NEW S, NEW queue \in Seq(S)
  PROVE  DropFirst(queue, 0) = queue /\ DropFirst(queue, Len(queue)) = <<>>
<1>1. Len(queue) \in Nat
  BY LenProperties
<1>2. DropFirst(queue, 0) = queue
  BY SubSeqFull DEF DropFirst
<1>3. DropFirst(queue, Len(queue)) = <<>>
  BY <1>1, SubSeqEmpty DEF DropFirst
<1> QED
  BY <1>2, <1>3

\* The tokens of a body: pieces, and a last chunk at the end of a chunked one.
LEMMA BodyFacts ==
  ASSUME NEW T, NEW head, head.tag \in T, head.pieces \in Nat
  PROVE  /\ Body(head) \in Seq(BodyTokens(T))
         /\ \A i \in 1 .. Len(Body(head)) :
              \/ Body(head)[i].kind = "piece"
              \/ i = Len(Body(head)) /\ head.coding = "chunked" /\ Body(head)[i].kind = "last"
         /\ SubSeq(Body(head), 1, head.pieces) \in Seq(BodyTokens(T))
         /\ AllPieces(SubSeq(Body(head), 1, head.pieces))
<1> DEFINE pieces == [i \in 1 .. head.pieces |-> Piece(head.tag)]
           end == IF head.coding = "chunked" THEN <<LastChunk(head.tag)>> ELSE <<>>
<1>1. Piece(head.tag) \in BodyTokens(T) /\ Piece(head.tag).kind = "piece"
  BY DEF Piece, BodyTokens
<1>2. LastChunk(head.tag) \in BodyTokens(T) /\ LastChunk(head.tag).kind = "last"
  BY DEF LastChunk, BodyTokens
<1>3. pieces \in Seq(BodyTokens(T)) /\ Len(pieces) = head.pieces
  BY <1>1
<1>4. end \in Seq(BodyTokens(T))
  BY <1>2
<1>5. /\ Len(end) \in Nat
      /\ head.coding = "chunked" => Len(end) = 1 /\ end[1] = LastChunk(head.tag)
      /\ head.coding # "chunked" => Len(end) = 0
  OBVIOUS
<1>6. /\ Body(head) \in Seq(BodyTokens(T))
      /\ Len(Body(head)) = Len(pieces) + Len(end)
      /\ \A i \in 1 .. Len(pieces) + Len(end) :
           Body(head)[i] = IF i <= Len(pieces) THEN pieces[i] ELSE end[i - Len(pieces)]
  <2> HIDE DEF pieces, end
  <2>1. Body(head) = pieces \o end
    BY DEF Body, pieces, end
  <2> QED
    BY <2>1, <1>3, <1>4, ConcatProperties
<1>7. \A i \in 1 .. head.pieces : pieces[i].kind = "piece"
  BY <1>1
<1> HIDE DEF pieces, end
<1>8. /\ Len(Body(head)) = head.pieces + Len(end)
      /\ \A i \in 1 .. head.pieces : Body(head)[i].kind = "piece"
      /\ \A i \in 1 .. Len(Body(head)) : i > head.pieces => Body(head)[i] = end[i - head.pieces]
  <2>1. \A i \in 1 .. head.pieces : Body(head)[i] = pieces[i]
    <3> TAKE i \in 1 .. head.pieces
    <3>1. i \in 1 .. Len(pieces) + Len(end) /\ i <= Len(pieces)
      BY <1>3, <1>5
    <3> QED
      BY <3>1, <1>6
  <2>2. \A i \in 1 .. Len(Body(head)) : i > head.pieces => Body(head)[i] = end[i - head.pieces]
    BY <1>3, <1>5, <1>6
  <2> QED
    BY <2>1, <2>2, <1>3, <1>6, <1>7
<1>11. \A i \in 1 .. Len(Body(head)) :
        \/ Body(head)[i].kind = "piece"
        \/ i = Len(Body(head)) /\ head.coding = "chunked" /\ Body(head)[i].kind = "last"
  <2> SUFFICES ASSUME NEW i \in 1 .. Len(Body(head)), ~(i \in 1 .. head.pieces)
               PROVE  i = Len(Body(head)) /\ head.coding = "chunked" /\ Body(head)[i].kind = "last"
    BY <1>8
  <2>1. i > head.pieces /\ Len(end) # 0
    BY <1>5, <1>8
  <2>2. head.coding = "chunked"
    BY <2>1, <1>5
  <2>3. i = head.pieces + 1 /\ i = Len(Body(head))
    <3>1. Len(end) = 1
      BY <2>2, <1>5
    <3>2. Len(Body(head)) = head.pieces + 1
      BY <3>1, <1>8
    <3> QED
      BY <2>1, <3>2
  <2>4. i - head.pieces = 1
    BY <2>3
  <2> QED
    BY <2>1, <2>2, <2>3, <2>4, <1>2, <1>5, <1>8
<1>9. /\ SubSeq(Body(head), 1, head.pieces) \in Seq(BodyTokens(T))
      /\ Len(SubSeq(Body(head), 1, head.pieces)) = head.pieces
      /\ \A i \in 1 .. head.pieces : SubSeq(Body(head), 1, head.pieces)[i] = Body(head)[i]
  <2>1. Len(end) \in Nat
    BY <1>5
  <2>2. \A i \in 1 .. head.pieces : Body(head)[i] \in BodyTokens(T)
    BY <1>3, <1>6, <2>1, ElementOfSeq
  <2>3. /\ SubSeq(Body(head), 1, head.pieces) \in Seq(BodyTokens(T))
        /\ Len(SubSeq(Body(head), 1, head.pieces)) =
             IF 1 <= head.pieces THEN head.pieces - 1 + 1 ELSE 0
        /\ \A i \in 1 .. head.pieces - 1 + 1 :
             SubSeq(Body(head), 1, head.pieces)[i] = Body(head)[1 + i - 1]
    BY <2>2, SubSeqProperties
  <2> QED
    BY <2>3
<1>10. AllPieces(SubSeq(Body(head), 1, head.pieces))
  BY <1>8, <1>9 DEF AllPieces
<1> QED
  BY <1>6, <1>9, <1>10, <1>11

-----------------------------------------------------------------------------
(* The server's task.                                                        *)

\* What is taken for a head is read as one with the same tag.
LEMMA Reads ==
  ASSUME WireTypes, NEW c \in Conns, NEW n, n = HeadAt(up[c]), n > 0
  PROVE  /\ n \in 1 .. Len(up[c])
         /\ up[c][n] \in RequestHeads \/ up[c][n].kind = "last"
         /\ up[c][n].tag \in AnyTag
         /\ \A req \in ReadRequest(c, n) : req \in RequestHeads /\ req.tag = up[c][n].tag
         /\ DropFirst(up[c], n) \in Seq(RequestHeads \cup BodyTokens(Tags))
<1>1. up[c] \in Seq(RequestHeads \cup BodyTokens(Tags)) /\ Len(up[c]) \in Nat
  BY LenProperties DEF WireTypes
<1>2. n \in 1 .. Len(up[c]) /\ up[c][n].kind # "piece"
  BY <1>1, HeadAtFacts
<1>3. /\ up[c][n] \in RequestHeads \/ up[c][n].kind = "last"
      /\ up[c][n].tag \in Tags
      /\ up[c][n] \in RequestHeads => up[c][n].kind = "head"
  <2>1. up[c][n] \in RequestHeads \cup BodyTokens(Tags)
    BY <1>1, <1>2, ElementOfSeq
  <2> QED
    BY <1>2, <2>1 DEF BodyTokens, RequestHeads
<1>4. /\ \A h \in RequestHeads : /\ [h EXCEPT !.connection = "none"] \in RequestHeads
                                 /\ [h EXCEPT !.connection = "none"].tag = h.tag
      /\ \A h \in RequestHeads : \A req \in Shifted(h) : req \in RequestHeads /\ req.tag = h.tag
  <2>1. ASSUME NEW h \in RequestHeads
        PROVE  /\ [h EXCEPT !.connection = "none"] \in RequestHeads
               /\ [h EXCEPT !.connection = "none"].tag = h.tag
    BY DEF RequestHeads, Headers
  <2>2. ASSUME NEW h \in RequestHeads, NEW req \in Shifted(h)
        PROVE  req \in RequestHeads /\ req.tag = h.tag
    <3>1. PICK f \in {"strange", "bad line"}, k \in {h.connection, "none"} :
            req = [h EXCEPT !.form = f, !.connection = k]
      BY <2>2 DEF Shifted
    <3>2. f \in Forms /\ k \in Headers
      BY DEF RequestHeads, Headers, Forms
    <3> QED
      BY <3>1, <3>2 DEF RequestHeads
  <2> QED
    BY <2>1, <2>2
<1>5. \A tag \in Tags : /\ RequestHead(tag, "none", "sized", 0, "bad line") \in RequestHeads
                        /\ RequestHead(tag, "none", "sized", 0, "bad line").tag = tag
  BY DEF RequestHead, RequestHeads, Headers, Codings, Forms
<1>6. \A req \in ReadRequest(c, n) : req \in RequestHeads /\ req.tag = up[c][n].tag
  <2>1. CASE up[c][n].kind = "last"
    <3>1. ReadRequest(c, n) = {RequestHead(up[c][n].tag, "none", "sized", 0, "bad line")}
      BY <2>1 DEF ReadRequest
    <3> QED
      BY <1>3, <1>5, <3>1
  <2>2. CASE up[c][n] \in RequestHeads
    <3>1. /\ up[c][n].kind # "last" /\ up[c][n].connection \in Headers /\ "none" \in Headers
      BY <1>3, <2>2 DEF RequestHeads, Headers
    <3>2. CASE n > 1
      <4>1. ReadRequest(c, n) = Shifted(up[c][n])
        BY <3>1, <3>2 DEF ReadRequest
      <4> QED
        BY <1>4, <2>2, <4>1
    <3>3. CASE ~(n > 1)
      <4>1. CASE up[c][n].form = "bad line"
        <5>1. ReadRequest(c, n) = {[up[c][n] EXCEPT !.connection = "none"]}
          BY <3>1, <3>3, <4>1 DEF ReadRequest
        <5> QED
          BY <1>4, <2>2, <5>1, Zenon
      <4>2. CASE up[c][n].form = "bad field"
        <5>1. ReadRequest(c, n) = {up[c][n], [up[c][n] EXCEPT !.connection = "none"]}
          BY <3>1, <3>3, <4>2 DEF ReadRequest
        <5> QED
          BY <1>4, <2>2, <5>1, Zenon
      <4>3. CASE up[c][n].form \notin {"bad line", "bad field"}
        <5>1. ReadRequest(c, n) = {up[c][n]}
          BY <3>1, <3>3, <4>3 DEF ReadRequest
        <5> QED
          BY <2>2, <5>1, Zenon
      <4> QED
        BY <4>1, <4>2, <4>3
    <3> QED
      BY <3>2, <3>3
  <2> QED
    BY <1>3, <2>1, <2>2
<1>7. DropFirst(up[c], n) \in Seq(RequestHeads \cup BodyTokens(Tags))
  BY <1>1, <1>2, DropFacts
<1> QED
  BY <1>2, <1>3, <1>6, <1>7 DEF AnyTag

\* The invariant of one connection's task.
TaskAt(c) == Asked(c) /\ Formed(c) /\ Settled(c) /\ Kept(c)

\* What a step of the task of c leaves alone.
Elsewhere(c) ==
  \A d \in Conns \ {c} :
    /\ pc'[d] = pc[d] /\ state'[d] = state[d] /\ request'[d] = request[d]
    /\ response'[d] = response[d] /\ due'[d] = due[d] /\ said'[d] = said[d]
    /\ up'[d] = up[d] /\ down'[d] = down[d]
    /\ d \in open' <=> d \in open

\* A step of one task leaves the invariant of the others.
LEMMA ElsewhereKept ==
  ASSUME ServerInv, NEW c \in Conns, Elsewhere(c), UNCHANGED variant, TaskAt(c)'
  PROVE  ServerInv'
<1> SUFFICES ASSUME NEW d \in Conns \ {c} PROVE TaskAt(d)'
  BY DEF ServerInv, TaskAt
<1>1. /\ pc'[d] = pc[d] /\ state'[d] = state[d] /\ request'[d] = request[d]
      /\ response'[d] = response[d] /\ due'[d] = due[d] /\ said'[d] = said[d]
      /\ d \in open' <=> d \in open
      /\ serverAsync' = serverAsync
  BY DEF Elsewhere, serverAsync
<1>2. TaskAt(d)
  BY DEF ServerInv, TaskAt
<1>3. Asked(d)' /\ Formed(d)'
  BY <1>1, <1>2 DEF TaskAt, Asked, Formed
<1>4. Settled(d)' /\ Kept(d)'
  BY <1>1, <1>2 DEF TaskAt, Settled, Kept
<1> QED
  BY <1>3, <1>4 DEF TaskAt

\* The invariant and the types after a step of a task, and what the step leaves alone.
TaskKept(c) == WireTypes' /\ TaskTypes' /\ Elsewhere(c) /\ TaskAt(c)'

\* A task that ends closes its connection and owes nothing.
LEMMA FinishKeeps ==
  ASSUME WireTypes, TaskTypes, NEW c \in Conns, Finish(c), UNCHANGED variant,
         down' \in [Conns -> Seq(ResponseHeads \cup BodyTokens(AnyTag))],
         \A d \in Conns \ {c} : down'[d] = down[d]
  PROVE  TaskKept(c)
<1> USE DEF Finish, Goto, Set
<1>1. WireTypes'
  <2>1. <<>> \in Seq(RequestHeads \cup BodyTokens(Tags))
    BY EmptySeq
  <2> QED
    BY <2>1 DEF WireTypes
<1>2. TaskTypes'
  BY DEF TaskTypes, ServerTypeOK, AnyTag
<1>3. Elsewhere(c)
  BY DEF Elsewhere, WireTypes, TaskTypes, ServerTypeOK
<1>4. TaskAt(c)'
  BY DEF TaskAt, Asked, Formed, Settled, Kept, TaskTypes, ServerTypeOK
<1> QED
  BY <1>1, <1>2, <1>3, <1>4 DEF TaskKept

\* A task starts with nothing said and nothing owed.
LEMMA StartKeeps ==
  ASSUME WireTypes, TaskTypes, NEW c \in Conns, TaskAt(c), Start(c), UNCHANGED variant
  PROVE  TaskKept(c)
<1> USE DEF Start, Goto, wireVars
<1>1. WireTypes'
  BY DEF WireTypes
<1>2. TaskTypes'
  BY DEF TaskTypes, ServerTypeOK
<1>3. Elsewhere(c)
  BY DEF Elsewhere, TaskTypes, ServerTypeOK
<1>4. TaskAt(c)'
  BY DEF TaskAt, Asked, Formed, Settled, Kept, TaskTypes, ServerTypeOK, serverAsync
<1> QED
  BY <1>1, <1>2, <1>3, <1>4 DEF TaskKept

\* A blocking task that has read a head owes its answer; one that could not read ends.
LEMMA TaskReadHeadKeeps ==
  ASSUME WireTypes, TaskTypes, NEW c \in Conns, TaskAt(c), TaskReadHead(c), UNCHANGED variant
  PROVE  TaskKept(c)
<1> DEFINE n == HeadAt(up[c])
<1>1. CASE n > 0
  <2>1. /\ pc[c] = "head" /\ ~serverAsync
        /\ up' = [up EXCEPT ![c] = DropFirst(up[c], n)]
        /\ due' = [due EXCEPT ![c] = up[c][n].tag]
        /\ strayed' \subseteq strayed \cup {c}
        /\ state' = [state EXCEPT ![c] = "ALIVE"]
        /\ pc' = [pc EXCEPT ![c] = "route"]
        /\ UNCHANGED <<down, open, response, intercept, said>>
    BY <1>1 DEF TaskReadHead, TakeHead, Set, Goto
  <2>2. PICK req \in ReadRequest(c, n) : request' = [request EXCEPT ![c] = req]
    BY <1>1 DEF TaskReadHead, TakeHead, Set, Goto
  <2> HIDE DEF n
  <2>3. /\ req \in RequestHeads /\ req.tag = up[c][n].tag
        /\ DropFirst(up[c], n) \in Seq(RequestHeads \cup BodyTokens(Tags))
    BY <1>1, <2>2, Reads DEF n
  <2>4. up[c][n].tag \in AnyTag
    BY <1>1, Reads DEF n
  <2>5. WireTypes'
    BY <2>1, <2>3 DEF WireTypes
  <2>6. TaskTypes'
    BY <2>1, <2>2, <2>3, <2>4 DEF TaskTypes, ServerTypeOK
  <2>7. Elsewhere(c)
    BY <2>1, <2>2 DEF Elsewhere, WireTypes, TaskTypes, ServerTypeOK
  <2>8. TaskAt(c)'
    <3>1. /\ pc'[c] = "route" /\ request'[c] = req /\ due'[c] = req.tag /\ state'[c] = "ALIVE"
          /\ said'[c] = said[c] /\ said[c] \in Lasting
      BY <2>1, <2>2, <2>3 DEF TaskTypes, ServerTypeOK, TaskAt, Kept
    <3> QED
      BY <3>1, <2>3 DEF TaskAt, Asked, Formed, Settled, Kept
  <2> QED
    BY <2>5, <2>6, <2>7, <2>8 DEF TaskKept
<1>2. CASE ~(n > 0)
  BY <1>2, FinishKeeps DEF TaskReadHead, WireTypes
<1> QED
  BY <1>1, <1>2

\* A coroutine that has read a head, or failed to, is on its way to a response.
LEMMA CoroutineReadHeadKeeps ==
  ASSUME WireTypes, TaskTypes, NEW c \in Conns, TaskAt(c), CoroutineReadHead(c),
         UNCHANGED variant
  PROVE  TaskKept(c)
<1> DEFINE n == HeadAt(up[c])
<1>1. /\ pc[c] = "head" /\ serverAsync
      /\ intercept' = [intercept EXCEPT ![c] = TRUE]
      /\ pc[c] = "head" => said[c] \in Lasting /\ state[c] = "ALIVE"
  BY DEF CoroutineReadHead, Set, TaskAt, Kept
<1>a. n > 0 => n # 0
  <2>1. n \in Nat
    <3>1. up[c] \in Seq(RequestHeads \cup BodyTokens(Tags))
      BY DEF WireTypes
    <3> QED
      BY <3>1, HeadAtFacts, LenProperties
  <2> QED
    BY <2>1
<1>2. CASE n > 0 /\ ~Unreadable(up[c][n])
  <2>1. /\ up' = [up EXCEPT ![c] = DropFirst(up[c], n)]
        /\ due' = [due EXCEPT ![c] = up[c][n].tag]
        /\ strayed' \subseteq strayed \cup {c}
        /\ pc' = [pc EXCEPT ![c] = "route"]
        /\ UNCHANGED <<down, open, state, response, said>>
    BY <1>a, <1>2 DEF CoroutineReadHead, TakeHead, Set, Goto
  <2>2. PICK req \in ReadRequest(c, n) : request' = [request EXCEPT ![c] = req]
    BY <1>a, <1>2 DEF CoroutineReadHead, TakeHead, Set, Goto
  <2> HIDE DEF n
  <2>3. /\ req \in RequestHeads
        /\ DropFirst(up[c], n) \in Seq(RequestHeads \cup BodyTokens(Tags))
    BY <1>2, <2>2, Reads DEF n
  <2>4. up[c][n].tag \in AnyTag
    BY <1>2, Reads DEF n
  <2>5. WireTypes'
    BY <2>1, <2>3 DEF WireTypes
  <2>6. TaskTypes'
    BY <1>1, <2>1, <2>2, <2>3, <2>4 DEF TaskTypes, ServerTypeOK
  <2>7. Elsewhere(c)
    BY <2>1, <2>2 DEF Elsewhere, WireTypes, TaskTypes, ServerTypeOK
  <2>8. TaskAt(c)'
    <3>1. /\ pc'[c] = "route" /\ request'[c] = req /\ state'[c] = "ALIVE"
          /\ said'[c] = said[c] /\ said[c] \in Lasting /\ serverAsync'
      BY <1>1, <2>1, <2>2 DEF TaskTypes, ServerTypeOK, serverAsync
    <3> QED
      BY <3>1, <2>3 DEF TaskAt, Asked, Formed, Settled, Kept
  <2> QED
    BY <2>5, <2>6, <2>7, <2>8 DEF TaskKept
<1>3. CASE n > 0 /\ Unreadable(up[c][n])
  <2>1. /\ up' = [up EXCEPT ![c] = DropFirst(up[c], n)]
        /\ due' = [due EXCEPT ![c] = up[c][n].tag]
        /\ strayed' \subseteq strayed \cup {c}
        /\ response' = [response EXCEPT ![c] = ErrorResponse]
        /\ pc' = [pc EXCEPT ![c] = "formed"]
        /\ UNCHANGED <<down, open, state, request, said>>
    BY <1>a, <1>3 DEF CoroutineReadHead, TakeHead, Set, Goto
  <2> HIDE DEF n
  <2>2. DropFirst(up[c], n) \in Seq(RequestHeads \cup BodyTokens(Tags))
    BY <1>3, Reads DEF n
  <2>3. up[c][n].tag \in AnyTag
    BY <1>3, Reads DEF n
  <2>4. WireTypes'
    BY <2>1, <2>2 DEF WireTypes
  <2>5. TaskTypes'
    BY <1>1, <2>1, <2>3 DEF TaskTypes, ServerTypeOK, Responses
  <2>6. Elsewhere(c)
    BY <2>1 DEF Elsewhere, WireTypes, TaskTypes, ServerTypeOK
  <2>7. TaskAt(c)'
    <3>1. /\ pc'[c] = "formed" /\ response'[c] = ErrorResponse /\ serverAsync'
          /\ response'[c] \in Responses
      BY <1>1, <2>1 DEF TaskTypes, ServerTypeOK, serverAsync, Responses
    <3> QED
      BY <3>1 DEF TaskAt, Asked, Formed, Settled, Kept
  <2> QED
    BY <2>4, <2>5, <2>6, <2>7 DEF TaskKept
<1>4. CASE Handled(c)
  <2>1. /\ response' = [response EXCEPT ![c] = ErrorResponse]
        /\ pc' = [pc EXCEPT ![c] = "formed"]
        /\ UNCHANGED <<up, down, open, state, request, due, said, strayed>>
    BY <1>4 DEF Handled, Set, Goto, wireVars
  <2>2. WireTypes' /\ TaskTypes'
    BY <1>1, <2>1 DEF WireTypes, TaskTypes, ServerTypeOK, Responses
  <2>3. Elsewhere(c)
    BY <2>1 DEF Elsewhere, TaskTypes, ServerTypeOK
  <2>4. TaskAt(c)'
    <3>1. /\ pc'[c] = "formed" /\ response'[c] = ErrorResponse /\ serverAsync'
          /\ response'[c] \in Responses
      BY <1>1, <2>1 DEF TaskTypes, ServerTypeOK, serverAsync, Responses
    <3> QED
      BY <3>1 DEF TaskAt, Asked, Formed, Settled, Kept
  <2> QED
    BY <2>2, <2>3, <2>4 DEF TaskKept
<1> QED
  BY <1>2, <1>3, <1>4 DEF CoroutineReadHead

\* A step that leaves queues, connections, request and history alone.
LEMMA QueuesKept ==
  ASSUME WireTypes, TaskTypes, NEW c \in Conns,
         UNCHANGED <<up, down, open, request, due, said, strayed, variant>>,
         NEW label \in {"off", "head", "route", "endpoint", "formed", "ready", "body", "done",
                        "upgraded", "gone"},
         NEW st \in {"ALIVE", "CLOSING", "DELEGATED"},
         NEW resp \in Responses \cup {NoResponse},
         pc' = [pc EXCEPT ![c] = label], state' = [state EXCEPT ![c] = st],
         response' = [response EXCEPT ![c] = resp],
         intercept' \in [Conns -> BOOLEAN]
  PROVE  WireTypes' /\ TaskTypes' /\ Elsewhere(c)
<1>1. WireTypes'
  BY DEF WireTypes
<1>2. TaskTypes'
  BY DEF TaskTypes, ServerTypeOK
<1>3. Elsewhere(c)
  BY DEF Elsewhere, TaskTypes, ServerTypeOK
<1> QED
  BY <1>1, <1>2, <1>3

\* A function that is not changed is changed to what it is.
LEMMA Same ==
  ASSUME NEW S, NEW f \in [Conns -> S], NEW c \in Conns
  PROVE  f = [f EXCEPT ![c] = f[c]]
OBVIOUS

\* Routing leads to an endpoint, or to the error handler's response.
LEMMA RouteKeeps ==
  ASSUME ConversationConstants, WireTypes, TaskTypes, NEW c \in Conns, TaskAt(c), Route(c),
         UNCHANGED variant
  PROVE  TaskKept(c)
<1>1. /\ pc[c] = "route" /\ UNCHANGED <<up, down, open, request, due, said, strayed, intercept>>
  BY DEF Route, Caught, Handled, Set, Goto, wireVars
<1>2. /\ state[c] \in {"ALIVE", "CLOSING", "DELEGATED"}
      /\ response[c] \in Responses \cup {NoResponse}
      /\ intercept' \in [Conns -> BOOLEAN]
      /\ state = [state EXCEPT ![c] = state[c]]
      /\ response = [response EXCEPT ![c] = response[c]]
      /\ serverAsync' = serverAsync
  BY <1>1 DEF TaskTypes, ServerTypeOK, serverAsync
<1>3. /\ request[c] \in RequestHeads /\ (~serverAsync => due[c] = request[c].tag)
      /\ said[c] \in Lasting /\ state[c] = "ALIVE"
  BY <1>1 DEF TaskAt, Asked, Kept
<1>4. CASE \E resp \in InterceptorResponses :
             /\ response' = [response EXCEPT ![c] = resp]
             /\ pc' = [pc EXCEPT ![c] = "formed"]
             /\ UNCHANGED state
  <2>1. PICK resp \in InterceptorResponses : response' = [response EXCEPT ![c] = resp]
    BY <1>4
  <2>2. resp \in Responses /\ resp # ErrorResponse
    BY DEF Responses, UserMakes, ConversationConstants
  <2>3. WireTypes' /\ TaskTypes' /\ Elsewhere(c)
    BY <1>1, <1>2, <1>4, <2>1, <2>2, QueuesKept
  <2>4. /\ pc'[c] = "formed" /\ response'[c] = resp /\ state'[c] = state[c]
    BY <1>4, <2>1 DEF TaskTypes, ServerTypeOK
  <2>5. TaskAt(c)'
    BY <1>1, <1>2, <1>3, <2>2, <2>4 DEF TaskAt, Asked, Formed, Settled, Kept
  <2> QED
    BY <2>3, <2>5 DEF TaskKept
<1>5. CASE pc' = [pc EXCEPT ![c] = "endpoint"] /\ UNCHANGED <<state, response>>
  <2>1. WireTypes' /\ TaskTypes' /\ Elsewhere(c)
    BY <1>1, <1>2, <1>5, QueuesKept
  <2>2. pc'[c] = "endpoint" /\ response'[c] = response[c] /\ state'[c] = state[c]
    BY <1>5 DEF TaskTypes, ServerTypeOK
  <2>3. TaskAt(c)'
    BY <1>1, <1>2, <1>3, <2>2 DEF TaskAt, Asked, Formed, Settled, Kept
  <2> QED
    BY <2>1, <2>3 DEF TaskKept
<1>6. CASE /\ response' = [response EXCEPT ![c] = ErrorResponse]
           /\ pc' = [pc EXCEPT ![c] = "formed"]
           /\ \/ state' = [state EXCEPT ![c] = "CLOSING"] /\ ~serverAsync
              \/ UNCHANGED state /\ serverAsync
  <2>1. ErrorResponse \in Responses
    BY DEF Responses
  <2>2. WireTypes' /\ TaskTypes' /\ Elsewhere(c)
    BY <1>1, <1>2, <1>6, <2>1, QueuesKept
  <2>3. /\ pc'[c] = "formed" /\ response'[c] = ErrorResponse
        /\ ~serverAsync => state'[c] = "CLOSING"
    BY <1>6 DEF TaskTypes, ServerTypeOK
  <2>4. TaskAt(c)'
    BY <1>1, <1>2, <1>3, <2>1, <2>3 DEF TaskAt, Asked, Formed, Settled, Kept
  <2> QED
    BY <2>2, <2>4 DEF TaskKept
<1> QED
  BY <1>4, <1>5, <1>6 DEF Route, Caught, Handled, Set, Goto, wireVars

\* An endpoint, whatever it takes of the body, leaves a response.
LEMMA EndpointKeeps ==
  ASSUME ConversationConstants, WireTypes, TaskTypes, NEW c \in Conns, TaskAt(c), Endpoint(c),
         UNCHANGED variant
  PROVE  TaskKept(c)
<1>1. /\ pc[c] = "endpoint" /\ pc' = [pc EXCEPT ![c] = "formed"]
      /\ UNCHANGED <<down, open, request, intercept, due, said, strayed>>
  BY DEF Endpoint, Goto
<1>2. PICK queue \in Seq(RequestHeads \cup BodyTokens(Tags)) : up' = [up EXCEPT ![c] = queue]
  <2>1. PICK reads \in {FALSE, HasBody(request[c])} :
          up' = [up EXCEPT ![c] = IF ~reads THEN up[c]
                                  ELSE IF BodyEnd(request[c], up[c]) = 0 THEN <<>>
                                  ELSE DropFirst(up[c], Decoded(request[c], up[c]))]
    BY DEF Endpoint, Set
  <2>2. up[c] \in Seq(RequestHeads \cup BodyTokens(Tags))
    BY DEF WireTypes
  <2>3. request[c].pieces \in Nat
    BY <1>1 DEF TaskAt, Asked, RequestHeads
  <2>4. Decoded(request[c], up[c]) \in 0 .. Len(up[c])
    BY <2>2, <2>3, DecodedFacts
  <2>5. DropFirst(up[c], Decoded(request[c], up[c])) \in Seq(RequestHeads \cup BodyTokens(Tags))
    BY <2>2, <2>4, DropFacts
  <2>6. <<>> \in Seq(RequestHeads \cup BodyTokens(Tags))
    BY EmptySeq
  <2> QED
    BY <2>1, <2>2, <2>5, <2>6
<1>3. /\ request[c] \in RequestHeads /\ (~serverAsync => due[c] = request[c].tag)
      /\ said[c] \in Lasting /\ state[c] = "ALIVE"
  BY <1>1 DEF TaskAt, Asked, Kept
<1>4. PICK resp \in Responses :
        /\ response' = [response EXCEPT ![c] = resp]
        /\ \/ UNCHANGED state /\ (~serverAsync => resp # ErrorResponse)
           \/ resp = ErrorResponse /\ ~serverAsync /\ state' = [state EXCEPT ![c] = "CLOSING"]
  BY DEF Endpoint, Caught, Set, Responses, UserMakes, ConversationConstants
<1>5. WireTypes'
  BY <1>1, <1>2 DEF WireTypes
<1>6. TaskTypes'
  BY <1>1, <1>4 DEF TaskTypes, ServerTypeOK
<1>7. Elsewhere(c)
  BY <1>1, <1>2, <1>4 DEF Elsewhere, WireTypes, TaskTypes, ServerTypeOK
<1>8. /\ pc'[c] = "formed" /\ response'[c] = resp /\ serverAsync' = serverAsync
      /\ \/ state'[c] = "ALIVE" /\ (~serverAsync => resp # ErrorResponse)
         \/ resp = ErrorResponse /\ ~serverAsync /\ state'[c] = "CLOSING"
  BY <1>1, <1>3, <1>4 DEF TaskTypes, ServerTypeOK, serverAsync
<1>9. TaskAt(c)'
  BY <1>1, <1>3, <1>4, <1>8 DEF TaskAt, Asked, Formed, Settled, Kept
<1> QED
  BY <1>5, <1>6, <1>7, <1>9 DEF TaskKept

\* The interceptors replace a response by another, once.
LEMMA InterceptKeeps ==
  ASSUME ConversationConstants, WireTypes, TaskTypes, NEW c \in Conns, TaskAt(c), Intercept(c),
         UNCHANGED variant
  PROVE  TaskKept(c)
<1>1. /\ pc[c] = "formed" /\ UNCHANGED <<up, down, open, request, due, said, strayed>>
      /\ intercept' \in [Conns -> BOOLEAN]
  BY DEF Intercept, Set, wireVars, TaskTypes
<1>2. PICK resp \in Responses :
        /\ response' = [response EXCEPT ![c] = resp]
        /\ \/ /\ resp = response[c] /\ pc' = [pc EXCEPT ![c] = "ready"] /\ UNCHANGED state
           \/ /\ resp = ErrorResponse /\ ~serverAsync /\ pc' = [pc EXCEPT ![c] = "ready"]
              /\ state' = [state EXCEPT ![c] = "CLOSING"]
           \/ /\ resp = ErrorResponse /\ serverAsync
              /\ UNCHANGED <<pc, state>>
  <2>1. response[c] \in Responses /\ response = [response EXCEPT ![c] = response[c]]
    BY <1>1 DEF TaskAt, Formed, TaskTypes
  <2>2. ErrorResponse \in Responses
    BY DEF Responses
  <2> QED
    BY <2>1, <2>2 DEF Intercept, Caught, Set, Goto
<1>3. /\ state = [state EXCEPT ![c] = state[c]] /\ pc = [pc EXCEPT ![c] = pc[c]]
      /\ state[c] \in {"ALIVE", "CLOSING", "DELEGATED"}
      /\ serverAsync' = serverAsync
  BY DEF TaskTypes, ServerTypeOK, serverAsync
<1>4. WireTypes' /\ TaskTypes' /\ Elsewhere(c)
  <2>1. CASE pc' = [pc EXCEPT ![c] = "ready"] /\ UNCHANGED state
    BY <1>1, <1>2, <1>3, <2>1, QueuesKept
  <2>2. CASE pc' = [pc EXCEPT ![c] = "ready"] /\ state' = [state EXCEPT ![c] = "CLOSING"]
    BY <1>1, <1>2, <2>2, QueuesKept
  <2>3. CASE UNCHANGED <<pc, state>>
    BY <1>1, <1>2, <1>3, <2>3, QueuesKept
  <2> QED
    BY <1>2, <2>1, <2>2, <2>3
<1>5. /\ response'[c] = resp /\ pc'[c] \in {"formed", "ready"}
      /\ \/ resp = response[c] /\ state'[c] = state[c]
         \/ /\ resp = ErrorResponse
            /\ ~serverAsync => state'[c] = "CLOSING"
  BY <1>1, <1>2 DEF TaskTypes, ServerTypeOK
<1>6. TaskAt(c)'
  <2>1. Asked(c)' /\ Formed(c)' /\ Settled(c)'
    BY <1>1, <1>2, <1>3, <1>5 DEF TaskAt, Asked, Formed, Settled
  <2>2. Kept(c)'
    BY <1>1, <1>2, <1>3, <1>5 DEF TaskAt, Kept
  <2> QED
    BY <2>1, <2>2 DEF TaskAt
<1> QED
  BY <1>4, <1>6 DEF TaskKept

\* What responses are made of.
LEMMA ResponseFields ==
  ASSUME ConversationConstants, NEW resp \in Responses
  PROVE  /\ resp \in UserResponses
         /\ resp.status \in Nat /\ resp.connection \in Headers /\ resp.coding \in Codings
         /\ resp.pieces \in Nat
         /\ resp.throws => resp.coding = "chunked"
<1>1. ErrorResponse \in UserResponses /\ ~ErrorResponse.throws
  BY DEF ErrorResponse, UserResponses, Headers, Codings
<1>2. resp \in UserResponses /\ (resp.throws => resp.coding = "chunked")
  BY <1>1 DEF ConversationConstants, Responses
<1> QED
  BY <1>2 DEF UserResponses

\* The tag of an answer.
LEMMA TagType == ASSUME TaskTypes, NEW c \in Conns PROVE Tag(request[c]) \in AnyTag
<1>1. request[c] \in RequestHeads \cup {NoRequest}
  BY DEF TaskTypes
<1>2. \A h \in RequestHeads : h.tag \in Tags
  BY DEF RequestHeads
<1> QED
  BY <1>1, <1>2 DEF Tag, AnyTag

\* What the task sends is decided by its state, or by the response when it was alive.
LEMMA Considered ==
  ASSUME ConversationConstants, NEW req, NEW resp \in Responses,
         NEW st \in {"ALIVE", "CLOSING", "DELEGATED"},
         st # "ALIVE" => resp = ErrorResponse
  PROVE  LET next == ConsiderConnectionState(req, resp, st) IN
         /\ next \in {"ALIVE", "CLOSING", "DELEGATED"}
         /\ st # "ALIVE" => next = st
         /\ Announced(resp, next) \in Headers
         /\ resp.connection = "none" =>
              \/ next = "ALIVE" /\ Announced(resp, next) = "keep-alive"
              \/ next = "CLOSING" /\ Announced(resp, next) = "close"
         /\ resp = ErrorResponse => Announced(resp, next) = "close"
<1> DEFINE next == ConsiderConnectionState(req, resp, st)
<1>1. next \in {"ALIVE", "CLOSING", "DELEGATED"} /\ (st # "ALIVE" => next = st)
  BY DEF ConsiderConnectionState
<1>2. st = "ALIVE" /\ resp.connection = "none" => next \in {"ALIVE", "CLOSING"}
  BY DEF ConsiderConnectionState
<1>3. ErrorResponse.connection = "close" /\ resp.connection \in Headers
  BY ResponseFields DEF ErrorResponse
<1>4. resp.connection = "none" => next \in {"ALIVE", "CLOSING"}
  BY <1>2, <1>3
<1> HIDE DEF next
<1>5. CASE resp.connection = "none"
  <2>1. resp # ErrorResponse
    BY <1>3, <1>5
  <2> QED
    BY <1>1, <1>4, <1>5, <2>1 DEF Announced, Headers, next
<1>6. CASE resp.connection # "none"
  <2>1. Announced(resp, next) = resp.connection
    BY <1>6 DEF Announced
  <2> QED
    BY <1>1, <1>3, <1>6, <2>1 DEF next
<1> QED
  BY <1>5, <1>6

\* A head that is sent is what was owed, and says what the task will do next.
LEMMA SendHeadKeeps ==
  ASSUME ConversationConstants, WireTypes, TaskTypes, NEW c \in Conns, TaskAt(c),
         SendHead(c), UNCHANGED variant
  PROVE  TaskKept(c)
<1> DEFINE resp == response[c]
           st == ConsiderConnectionState(request[c], resp, state[c])
           head == ResponseHead(Tag(request[c]), resp.status, Announced(resp, st),
                                resp.coding, resp.pieces)
<1>1. /\ pc[c] = "ready" /\ resp \in Responses
      /\ state[c] \in {"ALIVE", "CLOSING", "DELEGATED"}
      /\ state[c] # "ALIVE" => resp = ErrorResponse
      /\ (state[c] = "ALIVE" /\ resp # ErrorResponse) => said[c] \in Lasting
      /\ (~serverAsync /\ resp = ErrorResponse) => state[c] = "CLOSING"
  BY DEF SendHead, TaskAt, Formed, Kept, TaskTypes, ServerTypeOK
<1>2. /\ st \in {"ALIVE", "CLOSING", "DELEGATED"}
      /\ state[c] # "ALIVE" => st = state[c]
      /\ Announced(resp, st) \in Headers
      /\ resp.connection = "none" =>
           \/ st = "ALIVE" /\ Announced(resp, st) = "keep-alive"
           \/ st = "CLOSING" /\ Announced(resp, st) = "close"
      /\ resp = ErrorResponse => Announced(resp, st) = "close"
  BY <1>1, Considered
<1>3. head \in ResponseHeads /\ head.connection = Announced(resp, st)
  <2>1. resp.status \in Nat /\ resp.coding \in Codings /\ resp.pieces \in Nat
    BY <1>1, ResponseFields
  <2>2. Tag(request[c]) \in AnyTag
    BY TagType
  <2> HIDE DEF resp, st
  <2> QED
    BY <1>2, <2>1, <2>2 DEF ResponseHead, ResponseHeads
<1>4. CASE /\ c \in open
           /\ down' = [down EXCEPT ![c] = Append(down[c], head)]
           /\ due' = [due EXCEPT ![c] = NoTag]
           /\ said' = [said EXCEPT ![c] =
                         IF resp.connection = "none" \/ (resp = ErrorResponse /\ ~serverAsync)
                         THEN head.connection ELSE "as the user wants"]
           /\ state' = [state EXCEPT ![c] = st]
           /\ pc' = [pc EXCEPT ![c] = "body"]
           /\ UNCHANGED <<up, open, request, response, intercept, strayed>>
  <2> HIDE DEF resp, st, head
  <2>1. Append(down[c], head) \in Seq(ResponseHeads \cup BodyTokens(AnyTag))
    BY <1>3, AppendProperties DEF WireTypes
  <2>2. WireTypes'
    BY <1>4, <2>1 DEF WireTypes
  <2>3. TaskTypes'
    BY <1>2, <1>3, <1>4 DEF TaskTypes, ServerTypeOK, AnyTag
  <2>4. Elsewhere(c)
    BY <1>4 DEF Elsewhere, WireTypes, TaskTypes, ServerTypeOK
  <2>5. /\ pc'[c] = "body" /\ state'[c] = st /\ response'[c] = resp /\ due'[c] = NoTag
        /\ \/ said'[c] = "as the user wants"
           \/ said'[c] = head.connection /\ resp.connection = "none"
           \/ said'[c] = head.connection /\ resp = ErrorResponse /\ ~serverAsync
    BY <1>4 DEF TaskTypes, ServerTypeOK, resp
  <2>6. ~serverAsync /\ resp = ErrorResponse => st = "CLOSING"
    BY <1>1, <1>2
  <2>7. TaskAt(c)'
    BY <1>1, <1>2, <1>3, <1>4, <2>5, <2>6 DEF TaskAt, Asked, Formed, Settled, Kept, Lasting
  <2> QED
    BY <2>2, <2>3, <2>4, <2>7 DEF TaskKept
<1>5. CASE /\ c \notin open /\ ~serverAsync
           /\ state' = [state EXCEPT ![c] = st]
           /\ pc' = [pc EXCEPT ![c] = "body"]
           /\ UNCHANGED <<up, down, open, request, response, intercept, due, said, strayed>>
  <2> HIDE DEF resp, st, head
  <2>1. /\ response = [response EXCEPT ![c] = resp] /\ resp \in Responses \cup {NoResponse}
        /\ intercept' \in [Conns -> BOOLEAN]
    BY <1>5 DEF TaskTypes, resp
  <2>2. WireTypes' /\ TaskTypes' /\ Elsewhere(c)
    BY <1>2, <1>5, <2>1, QueuesKept
  <2>3. pc'[c] = "body" /\ state'[c] = st /\ response'[c] = resp /\ said'[c] = said[c]
    BY <1>5 DEF TaskTypes, ServerTypeOK, resp
  <2>4. st = "ALIVE" => said[c] \in Lasting
    BY <1>1, <1>2, <1>5
  <2>5. TaskAt(c)'
    BY <1>1, <1>5, <2>3, <2>4 DEF TaskAt, Asked, Formed, Settled, Kept
  <2> QED
    BY <2>2, <2>5 DEF TaskKept
<1>6. CASE Finish(c) /\ UNCHANGED down
  BY <1>6, FinishKeeps DEF WireTypes
<1> QED
  BY <1>4, <1>5, <1>6 DEF SendHead, Set, Goto, wireVars

\* The tokens of a response's body, and those of it that were sent when it threw.
LEMMA ResponseBody ==
  ASSUME ConversationConstants, TaskTypes, NEW c \in Conns, response[c] \in Responses
  PROVE  LET of == [tag |-> Tag(request[c]), coding |-> response[c].coding,
                    pieces |-> response[c].pieces] IN
         /\ of.tag \in AnyTag /\ of.pieces \in Nat
         /\ Body(of) \in Seq(BodyTokens(AnyTag))
         /\ SubSeq(Body(of), 1, response[c].pieces) \in Seq(BodyTokens(AnyTag))
         /\ AllPieces(SubSeq(Body(of), 1, response[c].pieces))
         /\ \A i \in 1 .. Len(Body(of)) :
              \/ Body(of)[i].kind = "piece"
              \/ /\ i = Len(Body(of)) /\ response[c].coding = "chunked"
                 /\ Body(of)[i].kind = "last"
<1> DEFINE of == [tag |-> Tag(request[c]), coding |-> response[c].coding,
                  pieces |-> response[c].pieces]
<1>1. /\ of.tag \in AnyTag /\ of.pieces \in Nat
      /\ of.coding = response[c].coding /\ of.pieces = response[c].pieces
  <2>1. Tag(request[c]) \in AnyTag
    BY TagType
  <2>2. response[c].pieces \in Nat
    BY ResponseFields
  <2> QED
    BY <2>1, <2>2
<1> HIDE DEF of
<1>2. /\ Body(of) \in Seq(BodyTokens(AnyTag))
      /\ \A i \in 1 .. Len(Body(of)) :
           \/ Body(of)[i].kind = "piece"
           \/ i = Len(Body(of)) /\ of.coding = "chunked" /\ Body(of)[i].kind = "last"
      /\ SubSeq(Body(of), 1, of.pieces) \in Seq(BodyTokens(AnyTag))
      /\ AllPieces(SubSeq(Body(of), 1, of.pieces))
  BY <1>1, BodyFacts
<1>3. /\ of.tag \in AnyTag /\ of.pieces \in Nat
      /\ Body(of) \in Seq(BodyTokens(AnyTag))
      /\ SubSeq(Body(of), 1, response[c].pieces) \in Seq(BodyTokens(AnyTag))
      /\ AllPieces(SubSeq(Body(of), 1, response[c].pieces))
      /\ \A i \in 1 .. Len(Body(of)) :
           \/ Body(of)[i].kind = "piece"
           \/ i = Len(Body(of)) /\ response[c].coding = "chunked" /\ Body(of)[i].kind = "last"
  BY <1>1, <1>2
<1> QED
  BY <1>3 DEF of

\* The step from the head of a response to what follows its body.
LEMMA SendBodyKeeps ==
  ASSUME ConversationConstants, WireTypes, TaskTypes, NEW c \in Conns, TaskAt(c),
         SendBody(c), UNCHANGED variant
  PROVE  TaskKept(c)
<1> DEFINE body == Body([tag |-> Tag(request[c]), coding |-> response[c].coding,
                         pieces |-> response[c].pieces])
           part == SubSeq(body, 1, response[c].pieces)
<1>1. /\ pc[c] = "body" /\ response[c] \in Responses
      /\ state[c] = "ALIVE" => said[c] \in Lasting
      /\ (state[c] # "ALIVE" /\ c \in open) => said[c] \in {"close", "as the user wants"}
      /\ c \in open => due[c] = NoTag
  BY DEF SendBody, TaskAt, Formed, Kept, Settled
<1>2. \E queue : down' = [down EXCEPT ![c] = queue] /\ queue \in {down[c], down[c] \o body, down[c] \o part}
  <2>1. down = [down EXCEPT ![c] = down[c]]
    BY DEF WireTypes
  <2> QED
    BY <2>1 DEF SendBody, Set
<1>3. PICK queue \in {down[c], down[c] \o body, down[c] \o part} : down' = [down EXCEPT ![c] = queue]
  BY <1>2
<1>4. queue \in Seq(ResponseHeads \cup BodyTokens(AnyTag))
  <2>1. body \in Seq(BodyTokens(AnyTag)) /\ part \in Seq(BodyTokens(AnyTag))
    BY <1>1, ResponseBody
  <2> HIDE DEF body, part
  <2>2. body \in Seq(ResponseHeads \cup BodyTokens(AnyTag)) /\ part \in Seq(ResponseHeads \cup BodyTokens(AnyTag))
    BY <2>1
  <2>3. down[c] \in Seq(ResponseHeads \cup BodyTokens(AnyTag))
    BY DEF WireTypes
  <2>4. \A more \in Seq(ResponseHeads \cup BodyTokens(AnyTag)) :
          down[c] \o more \in Seq(ResponseHeads \cup BodyTokens(AnyTag))
    BY <2>3, ConcatProperties
  <2> QED
    BY <2>2, <2>3, <2>4
<1>5. /\ down' \in [Conns -> Seq(ResponseHeads \cup BodyTokens(AnyTag))]
      /\ \A d \in Conns \ {c} : down'[d] = down[d]
  BY <1>3, <1>4 DEF WireTypes
<1> HIDE DEF body, part
<1>6. CASE Finish(c)
  BY <1>5, <1>6, FinishKeeps
<1>7. CASE /\ pc' = [pc EXCEPT ![c] = "done"]
           /\ UNCHANGED <<up, open, state, request, response, intercept, due, said, strayed>>
  <2>1. WireTypes'
    BY <1>5, <1>7 DEF WireTypes
  <2>2. TaskTypes'
    BY <1>7 DEF TaskTypes, ServerTypeOK
  <2>3. Elsewhere(c)
    BY <1>5, <1>7 DEF Elsewhere, TaskTypes, ServerTypeOK
  <2>4. pc'[c] = "done"
    BY <1>7 DEF TaskTypes, ServerTypeOK
  <2>5. TaskAt(c)'
    BY <1>1, <1>7, <2>4 DEF TaskAt, Asked, Formed, Settled, Kept
  <2> QED
    BY <2>1, <2>2, <2>3, <2>5 DEF TaskKept
<1>8. CASE /\ serverAsync
           /\ response' = [response EXCEPT ![c] = ErrorResponse]
           /\ pc' = [pc EXCEPT ![c] = "formed"]
           /\ UNCHANGED <<up, open, state, request, intercept, due, said, strayed>>
  <2>1. ErrorResponse \in Responses
    BY DEF Responses
  <2>2. WireTypes'
    BY <1>5, <1>8 DEF WireTypes
  <2>3. TaskTypes'
    BY <1>8, <2>1 DEF TaskTypes, ServerTypeOK
  <2>4. Elsewhere(c)
    BY <1>5, <1>8 DEF Elsewhere, TaskTypes, ServerTypeOK
  <2>5. pc'[c] = "formed" /\ response'[c] = ErrorResponse /\ serverAsync'
    BY <1>8 DEF TaskTypes, ServerTypeOK, serverAsync
  <2>6. TaskAt(c)'
    BY <1>1, <1>8, <2>1, <2>5 DEF TaskAt, Asked, Formed, Settled, Kept
  <2> QED
    BY <2>2, <2>3, <2>4, <2>6 DEF TaskKept
<1> QED
  BY <1>6, <1>7, <1>8 DEF SendBody, Set, Goto

\* The end of an exchange.
LEMMA DoneKeeps ==
  ASSUME WireTypes, TaskTypes, NEW c \in Conns, TaskAt(c), Done(c), UNCHANGED variant
  PROVE  TaskKept(c)
<1>1. /\ pc[c] = "done" /\ UNCHANGED down
      /\ state[c] = "ALIVE" => said[c] \in Lasting
      /\ c \in open => due[c] = NoTag
  BY DEF Done, TaskAt, Kept, Settled
<1>2. CASE /\ state[c] = "ALIVE" /\ pc' = [pc EXCEPT ![c] = "head"]
           /\ request' = [request EXCEPT ![c] = IF serverAsync THEN request[c] ELSE NoRequest]
           /\ response' = [response EXCEPT ![c] = IF serverAsync THEN response[c] ELSE NoResponse]
           /\ UNCHANGED <<up, open, state, intercept, due, said, strayed>>
  <2>1. WireTypes'
    BY <1>1, <1>2 DEF WireTypes
  <2>2. TaskTypes'
    <3>1. /\ (IF serverAsync THEN request[c] ELSE NoRequest) \in RequestHeads \cup {NoRequest}
          /\ (IF serverAsync THEN response[c] ELSE NoResponse) \in Responses \cup {NoResponse}
      BY DEF TaskTypes
    <3> QED
      BY <1>2, <3>1 DEF TaskTypes, ServerTypeOK
  <2>3. Elsewhere(c)
    BY <1>1, <1>2 DEF Elsewhere, TaskTypes, ServerTypeOK
  <2>4. pc'[c] = "head"
    BY <1>2 DEF TaskTypes, ServerTypeOK
  <2>5. TaskAt(c)'
    BY <1>1, <1>2, <2>4 DEF TaskAt, Asked, Formed, Settled, Kept
  <2> QED
    BY <2>1, <2>2, <2>3, <2>5 DEF TaskKept
<1>3. CASE /\ pc' = [pc EXCEPT ![c] = "upgraded"]
           /\ UNCHANGED <<up, open, state, request, response, intercept, due, said, strayed>>
  <2>1. WireTypes' /\ TaskTypes'
    BY <1>1, <1>3 DEF WireTypes, TaskTypes, ServerTypeOK
  <2>2. Elsewhere(c)
    BY <1>1, <1>3 DEF Elsewhere, TaskTypes, ServerTypeOK
  <2>3. pc'[c] = "upgraded"
    BY <1>3 DEF TaskTypes, ServerTypeOK
  <2>4. TaskAt(c)'
    BY <2>3 DEF TaskAt, Asked, Formed, Settled, Kept
  <2> QED
    BY <2>1, <2>2, <2>4 DEF TaskKept
<1>4. CASE Finish(c)
  BY <1>1, <1>4, FinishKeeps DEF WireTypes
<1> QED
  BY <1>2, <1>3, <1>4 DEF Done, Set, Goto

\* What a step of a task leaves alone for the rest.
LEMMA ServerStepKeeps ==
  ASSUME ConversationConstants, WireTypes, TaskTypes, ServerInv,
         NEW c \in Conns, ServerStep(c), UNCHANGED variant
  PROVE  WireTypes' /\ TaskTypes' /\ ServerInv' /\ Elsewhere(c)
<1>1. TaskAt(c)
  BY DEF ServerInv, TaskAt
<1>2. TaskKept(c)
  <2>1. CASE Start(c)
    BY <1>1, <2>1, StartKeeps
  <2>2. CASE TaskReadHead(c)
    BY <1>1, <2>2, TaskReadHeadKeeps
  <2>3. CASE CoroutineReadHead(c)
    BY <1>1, <2>3, CoroutineReadHeadKeeps
  <2>4. CASE Route(c)
    BY <1>1, <2>4, RouteKeeps
  <2>5. CASE Endpoint(c)
    BY <1>1, <2>5, EndpointKeeps
  <2>6. CASE Intercept(c)
    BY <1>1, <2>6, InterceptKeeps
  <2>7. CASE SendHead(c)
    BY <1>1, <2>7, SendHeadKeeps
  <2>8. CASE SendBody(c)
    BY <1>1, <2>8, SendBodyKeeps
  <2>9. CASE Done(c)
    BY <1>1, <2>9, DoneKeeps
  <2>10. CASE Released(c)
    BY <2>10, FinishKeeps DEF Released, WireTypes
  <2> QED
    BY <2>1, <2>2, <2>3, <2>4, <2>5, <2>6, <2>7, <2>8, <2>9, <2>10 DEF ServerStep
<1> QED
  BY <1>2, ElsewhereKept DEF TaskKept

-----------------------------------------------------------------------------
(* One connection, while neither side writes to it.                          *)

\* What a step of either side keeps of a connection with one request at a time, unless it
\* takes the rest of a body for another.
Carried(c) ==
  GoodForms(c) =>
    /\ GoodForms(c)'
    /\ (OneRequest(c) /\ c \notin strayed') =>
         /\ OneRequest(c)'
         /\ EndsLast(c) => EndsLast(c)'
         /\ Quiet(c) => Quiet(c)'
         /\ \A tag : OwnHeads(c, tag) => OwnHeads(c, tag)'

\* Tokens are taken from the front, and the server begins nothing.
Calm(c) ==
  /\ \E n \in 0 .. Len(up[c]) : up'[c] = DropFirst(up[c], n)
  /\ \E n \in 0 .. Len(down[c]) : down'[c] = DropFirst(down[c], n)
  /\ Busy(c)' => Busy(c) /\ Tag(request[c])' = Tag(request[c])

\* What is on its way.
LEMMA Queues ==
  ASSUME WireTypes, NEW c \in Conns
  PROVE  /\ up[c] \in Seq(RequestHeads \cup BodyTokens(Tags)) /\ Len(up[c]) \in Nat
         /\ down[c] \in Seq(ResponseHeads \cup BodyTokens(AnyTag)) /\ Len(down[c]) \in Nat
<1>1. /\ up[c] \in Seq(RequestHeads \cup BodyTokens(Tags))
      /\ down[c] \in Seq(ResponseHeads \cup BodyTokens(AnyTag))
  BY DEF WireTypes
<1> QED
  BY <1>1, LenProperties

\* A queue that is as it was, or empty, has lost tokens from its front only.
LEMMA AsItWas ==
  ASSUME NEW S, NEW queue \in Seq(S), NEW rest, rest = queue \/ rest = <<>>
  PROVE  \E n \in 0 .. Len(queue) : rest = DropFirst(queue, n)
<1>1. Len(queue) \in Nat
  BY LenProperties
<1>2. 0 \in 0 .. Len(queue) /\ Len(queue) \in 0 .. Len(queue)
  BY <1>1
<1> QED
  BY <1>2, DropEnds

\* Where a queue only loses its first tokens and nothing begins, the caller's facts stay.
LEMMA CalmCarries ==
  ASSUME WireTypes, NEW c \in Conns, Calm(c)
  PROVE  Carried(c)
<1>1. PICK n \in 0 .. Len(up[c]) : up'[c] = DropFirst(up[c], n)
  BY DEF Calm
<1>2. PICK m \in 0 .. Len(down[c]) : down'[c] = DropFirst(down[c], m)
  BY DEF Calm
<1>3. Len(up[c]) \in Nat /\ Len(down[c]) \in Nat
  BY Queues
<1>4. /\ Len(up'[c]) = Len(up[c]) - n
      /\ \A i \in 1 .. Len(up'[c]) : up'[c][i] = up[c][i + n]
  <2>1. up[c] \in Seq(RequestHeads \cup BodyTokens(Tags))
    BY Queues
  <2>2. /\ Len(DropFirst(up[c], n)) = Len(up[c]) - n
        /\ \A i \in 1 .. Len(up[c]) - n : DropFirst(up[c], n)[i] = up[c][i + n]
    BY <2>1, DropFacts
  <2> QED
    BY <1>1, <2>2
<1>5. /\ Len(down'[c]) = Len(down[c]) - m
      /\ \A i \in 1 .. Len(down'[c]) : down'[c][i] = down[c][i + m]
  <2>1. down[c] \in Seq(ResponseHeads \cup BodyTokens(AnyTag))
    BY Queues
  <2>2. /\ Len(DropFirst(down[c], m)) = Len(down[c]) - m
        /\ \A i \in 1 .. Len(down[c]) - m : DropFirst(down[c], m)[i] = down[c][i + m]
    BY <2>1, DropFacts
  <2> QED
    BY <1>2, <2>2
<1>6. \A i \in 1 .. Len(up'[c]) : i + n \in 1 .. Len(up[c])
  BY <1>3, <1>4
<1>7. \A i \in 1 .. Len(down'[c]) : i + m \in 1 .. Len(down[c])
  BY <1>3, <1>5
<1>8. Busy(c)' => Busy(c) /\ Tag(request'[c]) = Tag(request[c])
  BY DEF Calm
<1>9. GoodForms(c) => GoodForms(c)'
  BY <1>4, <1>6 DEF GoodForms
<1>10. NoHead(up[c]) => NoHead(up'[c])
  BY <1>4, <1>6 DEF NoHead
<1>11. OneRequest(c) => OneRequest(c)'
  <2>1. SUFFICES ASSUME OneRequest(c), NEW i \in 1 .. Len(up'[c]), NEW j \in 1 .. Len(up'[c]),
                        up'[c][i].kind = "head", up'[c][j].kind = "head"
                 PROVE  i = j
    BY <1>8, <1>10 DEF OneRequest
  <2>2. i + n = j + n
    BY <2>1, <1>4, <1>6 DEF OneRequest
  <2> QED
    BY <2>2
<1>12. ServerQuiet(c) => ServerQuiet(c)'
  BY <1>8, <1>10 DEF ServerQuiet
<1>13. EndsLast(c) => EndsLast(c)'
  <2>1. SUFFICES ASSUME EndsLast(c), NEW i \in 1 .. Len(down'[c]), Ending(down'[c][i])
                 PROVE  /\ ServerQuiet(c)'
                        /\ \A j \in i + 1 .. Len(down'[c]) : down'[c][j].kind = "piece"
    BY DEF EndsLast, Ending
  <2>2. Ending(down[c][i + m])
    BY <2>1, <1>5
  <2>3. ServerQuiet(c) /\ \A j \in i + m + 1 .. Len(down[c]) : down[c][j].kind = "piece"
    BY <2>1, <2>2, <1>7 DEF EndsLast
  <2>4. \A j \in i + 1 .. Len(down'[c]) : j \in 1 .. Len(down'[c]) /\ j + m \in i + m + 1 .. Len(down[c])
    BY <1>3, <1>5
  <2> QED
    BY <2>3, <2>4, <1>5, <1>12
<1>14. Quiet(c) => Quiet(c)'
  BY <1>5, <1>7, <1>12 DEF Quiet, AllPieces
<1>15. ASSUME NEW tag, OwnHeads(c, tag)
       PROVE  OwnHeads(c, tag)'
  <2>1. \A i \in 1 .. Len(up'[c]) : up'[c][i].kind = "head" => up'[c][i].tag = tag
    BY <1>4, <1>6, <1>15 DEF OwnHeads
  <2>2. \A i \in 1 .. Len(down'[c]) : down'[c][i].kind = "head" => down'[c][i].tag = tag
    BY <1>5, <1>7, <1>15 DEF OwnHeads
  <2>3. Busy(c)' => Tag(request'[c]) = tag
    BY <1>8, <1>15 DEF OwnHeads
  <2> QED
    BY <2>1, <2>2, <2>3 DEF OwnHeads
<1> QED
  BY <1>9, <1>11, <1>13, <1>14, <1>15 DEF Carried

\* Where a step does nothing, all is as it was.
LEMMA UntouchedCarries ==
  ASSUME WireTypes, NEW c \in Conns, up'[c] = up[c], down'[c] = down[c],
         pc'[c] = pc[c], request'[c] = request[c], response'[c] = response[c],
         c \in open' => c \in open
  PROVE  Carried(c)
<1>1. Busy(c)' => Busy(c) /\ Tag(request[c])' = Tag(request[c])
  BY DEF Busy, Tag
<1>2. Calm(c)
  BY <1>1, Queues, AsItWas DEF Calm
<1> QED
  BY <1>2, CalmCarries

\* The end of a task does not disturb the caller.
LEMMA FinishCarries ==
  ASSUME WireTypes, TaskTypes, NEW c \in Conns, Finish(c), UNCHANGED down
  PROVE  Carried(c)
<1>1. c \notin open' /\ up'[c] = <<>>
  BY DEF Finish, Set, WireTypes
<1>2. Calm(c)
  BY <1>1, Queues, AsItWas DEF Calm, Busy
<1> QED
  BY <1>2, CalmCarries

-----------------------------------------------------------------------------
(* The server's steps.                                                       *)

\* The head that comes is the only one: after it there is none, and what is answered is it.
LEMMA HeadTaken ==
  ASSUME WireTypes, NEW c \in Conns, NEW n, n = HeadAt(up[c]), n > 0,
         up'[c] = DropFirst(up[c], n), down'[c] = down[c],
         Tag(request'[c]) = up[c][n].tag, up[c][n].kind = "head"
  PROVE  Carried(c)
<1>1. /\ up[c] \in Seq(RequestHeads \cup BodyTokens(Tags)) /\ Len(up[c]) \in Nat
      /\ Len(down[c]) \in Nat
  BY Queues
<1>2. n \in 1 .. Len(up[c]) /\ up[c][n].kind = "head"
  BY Reads
<1>3. /\ Len(up'[c]) = Len(up[c]) - n
      /\ \A i \in 1 .. Len(up'[c]) : up'[c][i] = up[c][i + n]
  <2>1. /\ Len(DropFirst(up[c], n)) = Len(up[c]) - n
        /\ \A i \in 1 .. Len(up[c]) - n : DropFirst(up[c], n)[i] = up[c][i + n]
    <3>1. n \in 0 .. Len(up[c])
      BY <1>1, <1>2
    <3> QED
      BY <1>1, <3>1, DropFacts
  <2> QED
    BY <2>1
<1>4. \A i \in 1 .. Len(up'[c]) : i + n \in 1 .. Len(up[c]) /\ i + n # n
  BY <1>1, <1>2, <1>3
<1>5. GoodForms(c) => GoodForms(c)'
  BY <1>3, <1>4 DEF GoodForms
<1>6. OneRequest(c) => NoHead(up'[c])
  BY <1>2, <1>3, <1>4 DEF OneRequest, NoHead
<1>7. OneRequest(c) => OneRequest(c)'
  BY <1>6 DEF OneRequest, NoHead
<1>8. ~NoHead(up[c])
  BY <1>2 DEF NoHead
<1>9. EndsLast(c) => EndsLast(c)'
  BY <1>8 DEF EndsLast, ServerQuiet, Ending
<1>10. ~Quiet(c)
  BY <1>8 DEF Quiet, ServerQuiet
<1>11. \A tag : OwnHeads(c, tag) => OwnHeads(c, tag)'
  <2> SUFFICES ASSUME NEW tag, OwnHeads(c, tag) PROVE OwnHeads(c, tag)'
    OBVIOUS
  <2>1. Tag(request[c])' = tag
    BY <1>2 DEF OwnHeads
  <2>2. \A i \in 1 .. Len(up'[c]) : up'[c][i].kind = "head" => up'[c][i].tag = tag
    BY <1>3, <1>4 DEF OwnHeads
  <2>3. \A i \in 1 .. Len(down'[c]) : down'[c][i].kind = "head" => down'[c][i].tag = tag
    BY DEF OwnHeads
  <2> QED
    BY <2>1, <2>2, <2>3 DEF OwnHeads
<1> QED
  BY <1>5, <1>7, <1>9, <1>10, <1>11 DEF Carried

\* A head that is read keeps its tag; one that cannot be parsed the executor does not send,
\* and the rest of a body leads the connection astray.
LEMMA ReadHeadCarries ==
  ASSUME ConversationConstants, WireTypes, TaskTypes, NEW c \in Conns,
         TaskReadHead(c) \/ CoroutineReadHead(c)
  PROVE  Carried(c)
<1> DEFINE n == HeadAt(up[c])
<1>1. n \in Nat
  BY Queues, HeadAtFacts
<1>2. CASE /\ n > 0 /\ up[c][n].kind = "head"
           /\ up' = [up EXCEPT ![c] = DropFirst(up[c], n)] /\ UNCHANGED down
           /\ \E req \in ReadRequest(c, n) : request' = [request EXCEPT ![c] = req]
  <2>1. PICK req \in ReadRequest(c, n) : request' = [request EXCEPT ![c] = req]
    BY <1>2
  <2>2. req \in RequestHeads /\ req.tag = up[c][n].tag
    BY <1>2, Reads
  <2>3. Tag(request'[c]) = up[c][n].tag
    BY <2>1, <2>2 DEF Tag, TaskTypes, ConversationConstants
  <2>4. up'[c] = DropFirst(up[c], n) /\ down'[c] = down[c]
    BY <1>2 DEF WireTypes
  <2> HIDE DEF n
  <2> QED
    BY <1>2, <2>3, <2>4, HeadTaken DEF n
<1>3. CASE n > 0 /\ up[c][n].kind = "head" /\ up[c][n].form \in {"bad line", "bad field"}
  <2>1. n \in 1 .. Len(up[c])
    BY <1>3, Reads
  <2>2. ~GoodForms(c)
    BY <1>3, <2>1 DEF GoodForms
  <2> QED
    BY <2>2 DEF Carried
<1>4. CASE /\ n > 0 /\ up[c][n].kind = "last" /\ c \in strayed'
           /\ up' = [up EXCEPT ![c] = DropFirst(up[c], n)]
  <2>1. n \in 1 .. Len(up[c])
    BY <1>4, Reads
  <2> HIDE DEF n
  <2>2. up[c] \in Seq(RequestHeads \cup BodyTokens(Tags)) /\ Len(up[c]) \in Nat
    BY Queues
  <2>3. n \in 0 .. Len(up[c])
    BY <2>1, <2>2
  <2>4. /\ Len(up'[c]) = Len(up[c]) - n
        /\ \A i \in 1 .. Len(up'[c]) : up'[c][i] = up[c][i + n]
    <3>1. up'[c] = DropFirst(up[c], n)
      BY <1>4 DEF WireTypes
    <3>2. /\ Len(DropFirst(up[c], n)) = Len(up[c]) - n
          /\ \A i \in 1 .. Len(up[c]) - n : DropFirst(up[c], n)[i] = up[c][i + n]
      BY <2>2, <2>3, DropFacts
    <3> QED
      BY <3>1, <3>2
  <2>5. \A i \in 1 .. Len(up'[c]) : i + n \in 1 .. Len(up[c])
    BY <2>1, <2>2, <2>4
  <2>6. GoodForms(c) => GoodForms(c)'
    BY <2>4, <2>5 DEF GoodForms
  <2> QED
    BY <1>4, <2>6 DEF Carried
<1>5. CASE Finish(c) /\ UNCHANGED down
  BY <1>5, FinishCarries
<1>6. CASE c \notin open /\ UNCHANGED wireVars
  <2>1. Calm(c)
    BY <1>6, Queues, AsItWas DEF Calm, Busy, wireVars
  <2> QED
    BY <2>1, CalmCarries
<1>7. /\ n > 0 => n # 0
      /\ n > 0 => up[c][n].kind = "head" \/ up[c][n].kind = "last"
  BY <1>1, Reads DEF RequestHeads
<1>8. CASE TaskReadHead(c)
  BY <1>2, <1>5, <1>7, <1>4, <1>8 DEF TaskReadHead, TakeHead, Set, Goto
<1>9. CASE CoroutineReadHead(c)
  BY <1>2, <1>3, <1>6, <1>7, <1>4, <1>9
     DEF CoroutineReadHead, Unreadable, TakeHead, Handled, Set, Goto
<1> QED
  BY <1>8, <1>9

\* Steps of a task that send nothing.
LEMMA InsideCarries ==
  ASSUME ConversationConstants, WireTypes, TaskTypes, NEW c \in Conns, TaskAt(c),
         Start(c) \/ Route(c) \/ Endpoint(c) \/ Intercept(c) \/ Done(c) \/ Released(c)
  PROVE  Carried(c)
<1>1. ASSUME Start(c) \/ Route(c) \/ Intercept(c) PROVE Carried(c)
  <2>1. UNCHANGED <<up, down, open, request>>
    BY <1>1 DEF Start, Route, Intercept, Caught, Handled, Set, wireVars
  <2>2. CASE Start(c)
    <3>1. pc'[c] = "head"
      BY <2>2 DEF Start, Goto, TaskTypes, ServerTypeOK
    <3>2. Calm(c)
      BY <2>1, <3>1, Queues, AsItWas DEF Calm, Busy
    <3> QED
      BY <3>2, CalmCarries
  <2>3. CASE Route(c) \/ Intercept(c)
    <3>1. pc[c] \in {"route", "formed"}
      BY <2>3 DEF Route, Intercept
    <3>2. Busy(c)' => Busy(c) /\ Tag(request[c])' = Tag(request[c])
      BY <2>1, <3>1 DEF Busy, Tag
    <3>3. Calm(c)
      BY <2>1, <3>2, Queues, AsItWas DEF Calm
    <3> QED
      BY <3>3, CalmCarries
  <2> QED
    BY <1>1, <2>2, <2>3
<1>2. CASE Endpoint(c)
  <2>1. pc[c] = "endpoint" /\ UNCHANGED <<down, open, request>>
    BY <1>2 DEF Endpoint
  <2>2. \E n \in 0 .. Len(up[c]) : up'[c] = DropFirst(up[c], n)
    <3> DEFINE m == Decoded(request[c], up[c])
    <3>1. up'[c] = up[c] \/ up'[c] = <<>> \/ up'[c] = DropFirst(up[c], m)
      BY <1>2 DEF Endpoint, Set, WireTypes
    <3>2. m \in 0 .. Len(up[c])
      <4>1. request[c].pieces \in Nat
        BY <2>1 DEF TaskAt, Asked, RequestHeads
      <4> QED
        BY <4>1, Queues, DecodedFacts
    <3> HIDE DEF m
    <3> QED
      BY <3>1, <3>2, Queues, AsItWas
  <2>3. Busy(c)' => Busy(c) /\ Tag(request[c])' = Tag(request[c])
    BY <2>1 DEF Busy, Tag
  <2>4. \E n \in 0 .. Len(down[c]) : down'[c] = DropFirst(down[c], n)
    <3>1. down'[c] = down[c]
      BY <2>1
    <3> QED
      BY <3>1, Queues, AsItWas
  <2>5. Calm(c)
    BY <2>2, <2>3, <2>4 DEF Calm
  <2> QED
    BY <2>5, CalmCarries
<1>3. CASE (Done(c) \/ Released(c)) /\ ~Finish(c)
  <2>1. UNCHANGED <<up, down, open>> /\ pc'[c] \in {"head", "upgraded"}
    BY <1>3 DEF Done, Released, Goto, TaskTypes, ServerTypeOK
  <2>2. Calm(c)
    BY <2>1, Queues, AsItWas DEF Calm, Busy
  <2> QED
    BY <2>2, CalmCarries
<1>4. CASE (Done(c) \/ Released(c)) /\ Finish(c)
  BY <1>4, FinishCarries DEF Done, Released
<1> QED
  BY <1>1, <1>2, <1>3, <1>4

\* Two queues in a row.
LEMMA Joined ==
  ASSUME NEW S, NEW queue \in Seq(S), NEW more \in Seq(S)
  PROVE  /\ queue \o more \in Seq(S)
         /\ Len(queue) \in Nat /\ Len(more) \in Nat
         /\ Len(queue \o more) = Len(queue) + Len(more)
         /\ \A i \in 1 .. Len(queue) : (queue \o more)[i] = queue[i]
         /\ \A i \in 1 .. Len(more) : (queue \o more)[Len(queue) + i] = more[i]
         /\ \A i \in 1 .. Len(queue \o more) :
              \/ i \in 1 .. Len(queue)
              \/ i > Len(queue) /\ \E j \in 1 .. Len(more) : i = Len(queue) + j
<1>1. /\ queue \o more \in Seq(S)
      /\ Len(queue) \in Nat /\ Len(more) \in Nat
      /\ Len(queue \o more) = Len(queue) + Len(more)
      /\ \A i \in 1 .. Len(queue) + Len(more) :
           (queue \o more)[i] = IF i <= Len(queue) THEN queue[i] ELSE more[i - Len(queue)]
  BY ConcatProperties, LenProperties
<1>2. \A i \in 1 .. Len(queue) : (queue \o more)[i] = queue[i]
  <2> TAKE i \in 1 .. Len(queue)
  <2>1. i \in 1 .. Len(queue) + Len(more) /\ i <= Len(queue)
    BY <1>1
  <2> QED
    BY <2>1, <1>1
<1>3. \A i \in 1 .. Len(more) : (queue \o more)[Len(queue) + i] = more[i]
  <2> TAKE i \in 1 .. Len(more)
  <2>1. /\ Len(queue) + i \in 1 .. Len(queue) + Len(more) /\ ~(Len(queue) + i <= Len(queue))
        /\ (Len(queue) + i) - Len(queue) = i
    BY <1>1
  <2> QED
    BY <2>1, <1>1
<1>4. \A i \in 1 .. Len(queue) + Len(more) :
        \/ i \in 1 .. Len(queue)
        \/ i > Len(queue) /\ \E j \in 1 .. Len(more) : i = Len(queue) + j
  <2> SUFFICES ASSUME NEW i \in 1 .. Len(queue) + Len(more), i \notin 1 .. Len(queue)
               PROVE  i > Len(queue) /\ \E j \in 1 .. Len(more) : i = Len(queue) + j
    OBVIOUS
  <2>1. i > Len(queue) /\ i - Len(queue) \in 1 .. Len(more) /\ i = Len(queue) + (i - Len(queue))
    BY <1>1
  <2> QED
    BY <2>1
<1> QED
  BY <1>1, <1>2, <1>3, <1>4

\* What is sent while a request is answered: its end is the last of it.
LEMMA AnswerCarries ==
  ASSUME WireTypes, NEW c \in Conns, Busy(c),
         NEW more \in Seq(ResponseHeads \cup BodyTokens(AnyTag)),
         up'[c] = up[c] \/ up'[c] = <<>>, down'[c] = down[c] \o more,
         \A i \in 1 .. Len(more) :
           /\ Ending(more[i]) => i = Len(more) /\ ~Busy(c)'
           /\ more[i].kind = "head" => more[i].tag = Tag(request[c]),
         Busy(c)' => Tag(request'[c]) = Tag(request[c])
  PROVE  Carried(c)
<1>1. /\ down[c] \in Seq(ResponseHeads \cup BodyTokens(AnyTag)) /\ Len(down[c]) \in Nat
      /\ Len(up[c]) \in Nat
  BY Queues
<1>2. /\ Len(more) \in Nat
      /\ Len(down'[c]) = Len(down[c]) + Len(more)
      /\ \A i \in 1 .. Len(down[c]) : down'[c][i] = down[c][i]
      /\ \A i \in 1 .. Len(more) : down'[c][Len(down[c]) + i] = more[i]
      /\ \A i \in 1 .. Len(down'[c]) :
           i \in 1 .. Len(down[c]) \/ \E j \in 1 .. Len(more) : i = Len(down[c]) + j
  BY <1>1, Joined
<1>3. Len(<<>>) = 0 /\ (\A i \in 1 .. 0 : FALSE)
  OBVIOUS
<1>4. GoodForms(c) => GoodForms(c)'
  BY <1>3 DEF GoodForms
<1>5. SUFFICES ASSUME OneRequest(c)
               PROVE  /\ OneRequest(c)'
                      /\ EndsLast(c) => EndsLast(c)'
                      /\ Quiet(c) => Quiet(c)'
                      /\ \A tag : OwnHeads(c, tag) => OwnHeads(c, tag)'
  BY <1>4 DEF Carried
<1>6. NoHead(up[c]) /\ NoHead(up'[c])
  BY <1>3, <1>5 DEF OneRequest, NoHead
<1>7. OneRequest(c)'
  BY <1>6 DEF OneRequest, NoHead
<1>8. ~ServerQuiet(c) /\ ~Quiet(c)
  BY DEF ServerQuiet, Quiet
<1>9. ASSUME EndsLast(c) PROVE EndsLast(c)'
  <2>1. \A i \in 1 .. Len(down[c]) : ~Ending(down[c][i])
    BY <1>8, <1>9 DEF EndsLast
  <2>2. SUFFICES ASSUME NEW i \in 1 .. Len(down'[c]), Ending(down'[c][i])
                 PROVE  ServerQuiet(c)' /\ \A j \in i + 1 .. Len(down'[c]) : FALSE
    BY DEF EndsLast, Ending
  <2>3. PICK j \in 1 .. Len(more) : i = Len(down[c]) + j
    BY <2>1, <2>2, <1>2
  <2>4. j = Len(more) /\ ~Busy(c)'
    BY <2>2, <2>3, <1>2
  <2>5. ServerQuiet(c)'
    BY <2>4, <1>6 DEF ServerQuiet
  <2>6. i = Len(down'[c])
    BY <2>3, <2>4, <1>2
  <2> QED
    BY <2>5, <2>6
<1>10. ASSUME NEW tag, OwnHeads(c, tag) PROVE OwnHeads(c, tag)'
  <2>1. Tag(request[c]) = tag
    BY <1>10 DEF OwnHeads
  <2>2. \A i \in 1 .. Len(up'[c]) : up'[c][i].kind = "head" => up'[c][i].tag = tag
    BY <1>6 DEF NoHead
  <2>3. \A i \in 1 .. Len(down'[c]) : down'[c][i].kind = "head" => down'[c][i].tag = tag
    <3> TAKE i \in 1 .. Len(down'[c])
    <3>1. CASE i \in 1 .. Len(down[c])
      BY <3>1, <1>2, <1>10 DEF OwnHeads
    <3>2. ASSUME NEW j \in 1 .. Len(more), i = Len(down[c]) + j
          PROVE  down'[c][i].kind = "head" => down'[c][i].tag = tag
      BY <3>2, <2>1, <1>2
    <3> QED
      BY <3>1, <3>2, <1>2
  <2>4. Busy(c)' => Tag(request[c])' = tag
    BY <2>1
  <2> QED
    BY <2>2, <2>3, <2>4 DEF OwnHeads
<1> QED
  BY <1>7, <1>8, <1>9, <1>10

\* The same, as one fact about the whole.
Joins(whole, queue, more) ==
  /\ Len(queue) \in Nat /\ Len(more) \in Nat
  /\ Len(whole) = Len(queue) + Len(more)
  /\ \A i \in 1 .. Len(queue) : whole[i] = queue[i]
  /\ \A i \in 1 .. Len(more) : whole[Len(queue) + i] = more[i]
  /\ \A i \in 1 .. Len(whole) :
       \/ i \in 1 .. Len(queue)
       \/ i > Len(queue) /\ \E j \in 1 .. Len(more) : i = Len(queue) + j

\* A concatenation joins its parts.
LEMMA JoinedWhole ==
  ASSUME NEW S, NEW queue \in Seq(S), NEW more \in Seq(S)
  PROVE  queue \o more \in Seq(S) /\ Joins(queue \o more, queue, more)
BY Joined DEF Joins

\* Pieces may follow at any time.
LEMMA PiecesCarry ==
  ASSUME WireTypes, NEW c \in Conns, ~Busy(c)',
         NEW more \in Seq(ResponseHeads \cup BodyTokens(AnyTag)), AllPieces(more),
         up'[c] = up[c], down'[c] = down[c] \o more
  PROVE  Carried(c)
<1>1. down[c] \in Seq(ResponseHeads \cup BodyTokens(AnyTag)) /\ Len(down[c]) \in Nat
  BY Queues
<1>2. /\ Len(more) \in Nat
      /\ Len(down'[c]) = Len(down[c]) + Len(more)
      /\ \A i \in 1 .. Len(down[c]) : down'[c][i] = down[c][i]
      /\ \A i \in 1 .. Len(more) : down'[c][Len(down[c]) + i] = more[i]
      /\ \A i \in 1 .. Len(down'[c]) :
           \/ i \in 1 .. Len(down[c])
           \/ i > Len(down[c]) /\ \E j \in 1 .. Len(more) : i = Len(down[c]) + j
  <2>1. Joins(down'[c], down[c], more)
    BY <1>1, JoinedWhole
  <2> QED
    BY <2>1 DEF Joins
<1>3. \A i \in 1 .. Len(down'[c]) : i > Len(down[c]) => down'[c][i].kind = "piece"
  <2> SUFFICES ASSUME NEW i \in 1 .. Len(down'[c]), i > Len(down[c])
               PROVE  down'[c][i].kind = "piece"
    OBVIOUS
  <2>1. i \notin 1 .. Len(down[c])
    BY <1>1
  <2>2. PICK j \in 1 .. Len(more) : i = Len(down[c]) + j
    BY <2>1, <1>2
  <2> QED
    BY <2>2, <1>2 DEF AllPieces
<1>4. \A i \in 1 .. Len(down'[c]) : down'[c][i].kind = "piece" \/ (i \in 1 .. Len(down[c]) /\ down'[c][i] = down[c][i])
  BY <1>2, <1>3
<1>5. GoodForms(c) => GoodForms(c)'
  BY DEF GoodForms
<1>6. OneRequest(c) => OneRequest(c)'
  BY DEF OneRequest
<1>7. ServerQuiet(c) => ServerQuiet(c)'
  BY DEF ServerQuiet
<1>8. ASSUME EndsLast(c) PROVE EndsLast(c)'
  <2>1. SUFFICES ASSUME NEW i \in 1 .. Len(down'[c]), Ending(down'[c][i])
                 PROVE  /\ ServerQuiet(c)'
                        /\ \A j \in i + 1 .. Len(down'[c]) : down'[c][j].kind = "piece"
    BY DEF EndsLast, Ending
  <2>2. i \in 1 .. Len(down[c]) /\ Ending(down[c][i])
    BY <2>1, <1>4 DEF Ending
  <2>3. ServerQuiet(c) /\ \A j \in i + 1 .. Len(down[c]) : down[c][j].kind = "piece"
    BY <2>2, <1>8 DEF EndsLast
  <2>4. \A j \in i + 1 .. Len(down'[c]) : j \in 1 .. Len(down'[c]) /\ (j \in i + 1 .. Len(down[c]) \/ j > Len(down[c]))
    BY <1>1, <1>2
  <2> QED
    BY <2>3, <2>4, <1>3, <1>4, <1>7
<1>9. Quiet(c) => Quiet(c)'
  BY <1>4, <1>7 DEF Quiet, AllPieces
<1>10. \A tag : OwnHeads(c, tag) => OwnHeads(c, tag)'
  BY <1>4 DEF OwnHeads
<1> QED
  BY <1>5, <1>6, <1>8, <1>9, <1>10 DEF Carried

\* The head of an answer belongs to the request that is answered.
LEMMA SendHeadCarries ==
  ASSUME ConversationConstants, WireTypes, TaskTypes, NEW c \in Conns, TaskAt(c), SendHead(c)
  PROVE  Carried(c)
<1> DEFINE resp == response[c]
           st == ConsiderConnectionState(request[c], resp, state[c])
           head == ResponseHead(Tag(request[c]), resp.status, Announced(resp, st),
                                resp.coding, resp.pieces)
<1>1. /\ pc[c] = "ready" /\ resp \in Responses
      /\ state[c] \in {"ALIVE", "CLOSING", "DELEGATED"}
      /\ state[c] # "ALIVE" => resp = ErrorResponse
  BY DEF SendHead, TaskAt, Formed, Kept, TaskTypes, ServerTypeOK
<1>2. CASE /\ c \in open
           /\ down' = [down EXCEPT ![c] = Append(down[c], head)]
           /\ pc' = [pc EXCEPT ![c] = "body"]
           /\ UNCHANGED <<up, open, request, response>>
  <2>1. /\ head \in ResponseHeads /\ head.kind = "head" /\ head.coding = response[c].coding
        /\ head.tag = Tag(request[c])
    <3>1. resp.status \in Nat /\ resp.coding \in Codings /\ resp.pieces \in Nat
      BY <1>1, ResponseFields
    <3>2. Tag(request[c]) \in AnyTag
      BY TagType
    <3>3. Announced(resp, st) \in Headers
      BY <1>1, Considered
    <3> HIDE DEF st
    <3> QED
      BY <3>1, <3>2, <3>3 DEF ResponseHead, ResponseHeads
  <2> HIDE DEF resp, st, head
  <2>2. /\ <<head>> \in Seq(ResponseHeads \cup BodyTokens(AnyTag))
        /\ Len(<<head>>) = 1 /\ <<head>>[1] = head
    BY <2>1
  <2>3. down'[c] = down[c] \o <<head>>
    <3>1. down[c] \in Seq(ResponseHeads \cup BodyTokens(AnyTag))
      BY Queues
    <3>2. Append(down[c], head) = down[c] \o <<head>>
      BY <2>1, <3>1, AppendIsConcat
    <3> QED
      BY <1>2, <3>2 DEF WireTypes
  <2>4. Busy(c) /\ up'[c] = up[c] /\ request'[c] = request[c]
    BY <1>1, <1>2 DEF Busy
  <2>5. pc'[c] = "body" /\ response'[c] = response[c]
    BY <1>2 DEF TaskTypes, ServerTypeOK
  <2>6. Ending(head) => ~Busy(c)'
    BY <2>1, <2>5 DEF Ending, Busy
  <2>7. \A i \in 1 .. Len(<<head>>) :
          /\ Ending(<<head>>[i]) => i = Len(<<head>>) /\ ~Busy(c)'
          /\ <<head>>[i].kind = "head" => <<head>>[i].tag = Tag(request[c])
    BY <2>1, <2>2, <2>6
  <2> DEFINE more == <<head>>
  <2>8. /\ more \in Seq(ResponseHeads \cup BodyTokens(AnyTag)) /\ down'[c] = down[c] \o more
        /\ \A i \in 1 .. Len(more) :
             /\ Ending(more[i]) => i = Len(more) /\ ~Busy(c)'
             /\ more[i].kind = "head" => more[i].tag = Tag(request[c])
    BY <2>2, <2>3, <2>7
  <2> HIDE DEF more
  <2> QED
    BY <2>4, <2>8, AnswerCarries
<1>3. CASE c \notin open /\ UNCHANGED wireVars
  <2>1. Calm(c)
    BY <1>3, Queues, AsItWas DEF Calm, Busy, wireVars
  <2> QED
    BY <2>1, CalmCarries
<1>4. CASE Finish(c) /\ UNCHANGED down
  BY <1>4, FinishCarries
<1> QED
  BY <1>2, <1>3, <1>4 DEF SendHead, Set, Goto

\* What follows a head are pieces, and the end of a chunked body, once.
LEMMA SendBodyCarries ==
  ASSUME ConversationConstants, WireTypes, TaskTypes, NEW c \in Conns, TaskAt(c), SendBody(c)
  PROVE  Carried(c)
<1> DEFINE body == Body([tag |-> Tag(request[c]), coding |-> response[c].coding,
                         pieces |-> response[c].pieces])
           part == SubSeq(body, 1, response[c].pieces)
<1>1. /\ pc[c] = "body" /\ response[c] \in Responses
      /\ response[c].throws => response[c].coding = "chunked"
  BY ResponseFields DEF SendBody, TaskAt, Formed
<1>2. /\ body \in Seq(BodyTokens(AnyTag)) /\ part \in Seq(BodyTokens(AnyTag)) /\ AllPieces(part)
      /\ \A i \in 1 .. Len(body) :
           \/ body[i].kind = "piece"
           \/ i = Len(body) /\ response[c].coding = "chunked" /\ body[i].kind = "last"
  BY <1>1, ResponseBody
<1>3. CASE c \notin open
  <2>1. c \notin open' /\ (up'[c] = up[c] \/ up'[c] = <<>>) /\ down'[c] = down[c]
    BY <1>3 DEF SendBody, Finish, Set, WireTypes
  <2>2. Calm(c)
    BY <2>1, Queues, AsItWas DEF Calm, Busy
  <2> QED
    BY <2>2, CalmCarries
<1>4. CASE c \in open
  <2>1. \/ /\ ~response[c].throws /\ down' = [down EXCEPT ![c] = down[c] \o body]
           /\ pc' = [pc EXCEPT ![c] = "done"] /\ UNCHANGED <<up, request>>
        \/ /\ response[c].throws /\ down' = [down EXCEPT ![c] = down[c] \o part]
           /\ \/ UNCHANGED <<up, request>>
              \/ Finish(c)
    BY <1>4 DEF SendBody, Set, Goto
  <2> HIDE DEF body, part
  <2>2. CASE /\ ~response[c].throws /\ down' = [down EXCEPT ![c] = down[c] \o body]
             /\ pc' = [pc EXCEPT ![c] = "done"] /\ UNCHANGED <<up, request>>
    <3>1. ~Busy(c)' /\ down'[c] = down[c] \o body /\ up'[c] = up[c]
      BY <2>2 DEF Busy, TaskTypes, ServerTypeOK, WireTypes
    <3>2. body \in Seq(ResponseHeads \cup BodyTokens(AnyTag))
      BY <1>2
    <3>3. CASE response[c].coding = "chunked"
      <4>1. Busy(c)
        BY <1>1, <1>4, <3>3 DEF Busy
      <4>2. \A i \in 1 .. Len(body) :
              /\ Ending(body[i]) => i = Len(body) /\ ~Busy(c)'
              /\ body[i].kind = "head" => body[i].tag = Tag(request[c])
        BY <1>2, <3>1 DEF Ending
      <4> QED
        BY <3>1, <3>2, <4>1, <4>2, AnswerCarries
    <3>4. CASE response[c].coding # "chunked"
      <4>1. AllPieces(body)
        BY <1>2, <3>4 DEF AllPieces
      <4> QED
        BY <3>1, <3>2, <4>1, PiecesCarry
    <3> QED
      BY <3>3, <3>4
  <2>3. CASE /\ response[c].throws /\ down' = [down EXCEPT ![c] = down[c] \o part]
             /\ UNCHANGED <<up, request>> \/ Finish(c)
    <3>1. /\ down'[c] = down[c] \o part /\ part \in Seq(ResponseHeads \cup BodyTokens(AnyTag))
          /\ up'[c] = up[c] \/ up'[c] = <<>>
          /\ Busy(c)' => request'[c] = request[c]
      BY <1>2, <2>3 DEF Finish, Set, WireTypes, Busy
    <3>2. Busy(c)
      BY <1>1, <1>4, <2>3 DEF Busy
    <3>3. \A i \in 1 .. Len(part) : ~Ending(part[i]) /\ part[i].kind # "head"
      BY <1>2 DEF AllPieces, Ending
    <3> QED
      BY <3>1, <3>2, <3>3, AnswerCarries
  <2> QED
    BY <2>1, <2>2, <2>3
<1> QED
  BY <1>3, <1>4

\* Every step of a task, for every connection.
LEMMA ServerCarries ==
  ASSUME ConversationConstants, WireTypes, TaskTypes, ServerInv, NEW c \in Conns,
         ServerStep(c), Elsewhere(c)
  PROVE  \A d \in Conns : Carried(d)
<1>1. TaskAt(c)
  BY DEF ServerInv, TaskAt
<1>2. Carried(c)
  <2>1. CASE TaskReadHead(c) \/ CoroutineReadHead(c)
    BY <2>1, ReadHeadCarries
  <2>2. CASE Start(c) \/ Route(c) \/ Endpoint(c) \/ Intercept(c) \/ Done(c) \/ Released(c)
    BY <1>1, <2>2, InsideCarries
  <2>3. CASE SendHead(c)
    BY <1>1, <2>3, SendHeadCarries
  <2>4. CASE SendBody(c)
    BY <1>1, <2>4, SendBodyCarries
  <2> QED
    BY <2>1, <2>2, <2>3, <2>4 DEF ServerStep
<1>3. ASSUME NEW d \in Conns \ {c} PROVE Carried(d)
  BY UntouchedCarries DEF Elsewhere
<1> QED
  BY <1>2, <1>3

-----------------------------------------------------------------------------
(* Steps that leave the caller alone.                                        *)

\* While the caller does nothing its invariant depends on what the server sends only.
LEMMA CallerWaits ==
  ASSUME WireInv, \A c \in Conns : Carried(c), UNCHANGED clientVars, strayed \subseteq strayed'
  PROVE  WireInv'
<1>1. UNCHANGED <<cpc, number, attempt, handle, idle, answer, littered>>
  BY DEF clientVars
<1>2. \A c \in Conns : GoodForms(c)'
  BY DEF WireInv, Carried
<1>3. ASSUME NEW c \in Conns \ (littered \cup strayed')
      PROVE  /\ OneRequest(c)' /\ EndsLast(c)'
             /\ c \in idle => Quiet(c)'
             /\ c = handle =>
                  /\ cpc = "send" => Quiet(c)'
                  /\ cpc = "await" => OwnHeads(c, Current)'
                  /\ cpc \in {"got", "answered"} => OwnAnswer(c)'
  <2>1. /\ GoodForms(c) /\ OneRequest(c) /\ EndsLast(c)
        /\ OneRequest(c)' /\ EndsLast(c)' /\ (Quiet(c) => Quiet(c)')
        /\ \A tag : OwnHeads(c, tag) => OwnHeads(c, tag)'
    BY DEF WireInv, Carried
  <2>2. OwnHeads(c, Current) => OwnHeads(c, Current)'
    <3>1. PICK tag : tag = Current
      OBVIOUS
    <3>2. Current' = tag
      BY <1>1, <3>1 DEF Current
    <3>3. OwnHeads(c, Current) => OwnHeads(c, tag)
      BY <3>1
    <3>4. OwnHeads(c, tag)' => OwnHeads(c, Current)'
      BY <3>2 DEF OwnHeads
    <3> QED
      BY <2>1, <3>3, <3>4
  <2>3. OwnAnswer(c) => OwnAnswer(c)'
    BY <1>1, <2>1 DEF OwnAnswer, Current
  <2> QED
    BY <2>1, <2>2, <2>3 DEF WireInv
<1> QED
  BY <1>1, <1>2, <1>3 DEF WireInv

\* No step of a task brings a connection back from astray.
LEMMA Straying ==
  ASSUME NEW c \in Conns, ServerStep(c)
  PROVE  strayed \subseteq strayed'
<1>1. CASE TaskReadHead(c) \/ CoroutineReadHead(c)
  BY <1>1 DEF TaskReadHead, CoroutineReadHead, TakeHead, Finish, Handled
<1>2. CASE Start(c) \/ Route(c) \/ Endpoint(c) \/ Intercept(c)
  BY <1>2 DEF Start, Route, Endpoint, Intercept, Handled
<1>3. CASE SendHead(c) \/ SendBody(c) \/ Done(c) \/ Released(c)
  BY <1>3 DEF SendHead, SendBody, Done, Released, Finish
<1> QED
  BY <1>1, <1>2, <1>3 DEF ServerStep

\* Every step of a task keeps the invariant.
LEMMA ServerKeeps ==
  ASSUME ConversationConstants, IInv, NEW c \in Conns, Server(c)
  PROVE  IInv'
<1>1. /\ WireTypes /\ TaskTypes /\ CallerTypes /\ ServerInv
      /\ ServerStep(c) /\ UNCHANGED clientVars /\ UNCHANGED variant
  BY DEF IInv, TypeOK, Server
<1>2. WireTypes' /\ TaskTypes' /\ ServerInv' /\ Elsewhere(c)
  BY <1>1, ServerStepKeeps
<1>3. CallerTypes' /\ HandleInv' /\ ToldInv'
  BY <1>1 DEF clientVars, CallerTypes, ClientTypeOK, HandleInv, ToldInv, IInv, Current
<1>4. FreshInv'
  <2>1. c \notin fresh
    BY <1>1 DEF IInv, FreshInv, ServerStep, Start, TaskReadHead, CoroutineReadHead, Route,
                Endpoint, Intercept, SendHead, SendBody, Done, Released
  <2> SUFFICES ASSUME NEW d \in fresh
               PROVE  /\ d \notin (open \cup valid \cup littered \cup toldClose)' /\ d # handle'
                      /\ pc'[d] = "off" /\ up'[d] = <<>> /\ down'[d] = <<>>
    BY <1>1 DEF FreshInv, clientVars
  <2>2. d \in Conns \ {c}
    BY <1>1, <2>1 DEF CallerTypes
  <2>3. /\ d \notin open \cup valid \cup littered \cup toldClose /\ d # handle
        /\ pc[d] = "off" /\ up[d] = <<>> /\ down[d] = <<>>
    BY DEF IInv, FreshInv
  <2>4. pc'[d] = pc[d] /\ up'[d] = up[d] /\ down'[d] = down[d] /\ (d \in open' <=> d \in open)
    BY <1>2, <2>2 DEF Elsewhere
  <2> QED
    BY <1>1, <2>3, <2>4 DEF clientVars
<1>5. CallerInv'
  <2>1. foreign' = foreign
    BY <1>1 DEF foreign
  <2>2. foreign \/ WireInv'
    <3>1. \A d \in Conns : Carried(d)
      BY <1>1, <1>2, ServerCarries
    <3> QED
      BY <1>1, <3>1, CallerWaits, Straying DEF IInv, CallerInv
  <2> QED
    BY <1>1, <2>1, <2>2 DEF IInv, CallerInv, clientVars
<1> QED
  BY <1>2, <1>3, <1>4, <1>5 DEF IInv, TypeOK

\* The task's invariant where the task does nothing: connections close, or open for it.
LEMMA TasksWait ==
  ASSUME ServerInv, UNCHANGED <<serverVars, variant>>,
         \A c \in Conns : c \in open' => c \in open \/ pc[c] = "off"
  PROVE  ServerInv'
<1> SUFFICES ASSUME NEW c \in Conns PROVE Asked(c)' /\ Formed(c)' /\ Settled(c)' /\ Kept(c)'
  BY DEF ServerInv
<1>1. /\ UNCHANGED <<pc, state, request, response, due, said, strayed>> /\ serverAsync' = serverAsync
      /\ c \in open' => c \in open \/ pc[c] = "off"
  BY DEF serverVars, serverAsync
<1>2. Asked(c) /\ Formed(c) /\ Settled(c) /\ Kept(c)
  BY DEF ServerInv
<1>3. Asked(c)' /\ Formed(c)'
  BY <1>1, <1>2 DEF Asked, Formed
<1>4. Settled(c)' /\ Kept(c)'
  BY <1>1, <1>2 DEF Settled, Kept
<1> QED
  BY <1>3, <1>4

\* A connection that breaks loses what was on its way and keeps the invariant.
LEMMA BreakKeeps ==
  ASSUME ConversationConstants, IInv, NEW c \in Conns, Break(c), UNCHANGED variant
  PROVE  IInv'
<1>1. /\ WireTypes /\ TaskTypes /\ CallerTypes /\ ServerInv
      /\ c \in open /\ open' = open \ {c} /\ UNCHANGED serverVars /\ UNCHANGED clientVars
      /\ \/ UNCHANGED <<up, down>>
         \/ up' = [up EXCEPT ![c] = <<>>] /\ down' = [down EXCEPT ![c] = <<>>]
  BY DEF IInv, TypeOK, Break
<1>2. WireTypes'
  <2>1. <<>> \in Seq(RequestHeads \cup BodyTokens(Tags)) /\ <<>> \in Seq(ResponseHeads \cup BodyTokens(AnyTag))
    BY EmptySeq
  <2> QED
    BY <1>1, <2>1 DEF WireTypes
<1>3. TaskTypes'
  BY <1>1 DEF serverVars, TaskTypes, ServerTypeOK
<1>4. CallerTypes' /\ HandleInv' /\ ToldInv'
  BY <1>1 DEF clientVars, CallerTypes, ClientTypeOK, HandleInv, ToldInv, IInv, Current
<1>5. ServerInv'
  BY <1>1, TasksWait
<1>6. FreshInv'
  <2>1. c \notin fresh
    BY <1>1 DEF IInv, FreshInv
  <2> SUFFICES ASSUME NEW d \in fresh
               PROVE  /\ d \notin (open \cup valid \cup littered \cup toldClose)' /\ d # handle'
                      /\ pc'[d] = "off" /\ up'[d] = <<>> /\ down'[d] = <<>>
    BY <1>1 DEF FreshInv, clientVars
  <2>2. /\ d \notin open \cup valid \cup littered \cup toldClose /\ d # handle
        /\ pc[d] = "off" /\ up[d] = <<>> /\ down[d] = <<>>
    BY DEF IInv, FreshInv
  <2>3. d \in Conns \ {c}
    BY <1>1, <2>1 DEF CallerTypes
  <2> QED
    BY <1>1, <2>2, <2>3 DEF clientVars, serverVars, WireTypes
<1>7. CallerInv'
  <2>1. foreign' = foreign
    BY DEF foreign
  <2>2. ASSUME NEW d \in Conns PROVE Carried(d)
    <3>1. /\ up'[d] = up[d] \/ up'[d] = <<>>
          /\ down'[d] = down[d] \/ down'[d] = <<>>
      BY <1>1 DEF WireTypes
    <3>2. Busy(d)' => Busy(d) /\ Tag(request[d])' = Tag(request[d])
      BY <1>1 DEF Busy, Tag, serverVars
    <3>3. Calm(d)
      BY <1>1, <3>1, <3>2, Queues, AsItWas DEF Calm
    <3> QED
      BY <1>1, <3>3, CalmCarries
  <2>3. foreign \/ WireInv'
    BY <1>1, <2>2, CallerWaits DEF IInv, CallerInv, serverVars
  <2> QED
    BY <1>1, <2>1, <2>3 DEF IInv, CallerInv, clientVars
<1> QED
  BY <1>2, <1>3, <1>4, <1>5, <1>6, <1>7 DEF IInv, TypeOK

-----------------------------------------------------------------------------
(* Another client.                                                           *)

\* Another client, whatever it sends, keeps what the server promises.
LEMMA ForeignKeeps ==
  ASSUME ConversationConstants, IInv, NEW c \in Conns, Foreign(c), UNCHANGED variant
  PROVE  IInv'
<1>1. /\ WireTypes /\ TaskTypes /\ CallerTypes /\ ServerInv /\ FreshInv /\ HandleInv
      /\ foreign /\ cpc = "rest" /\ idle = {} /\ valid = {} /\ handle = NoConnection
      /\ foreign' = foreign
      /\ UNCHANGED serverVars
      /\ UNCHANGED <<cpc, attempt, sending, handle, valid, onDestroy, idle, answer,
                     littered, toldClose>>
  BY DEF IInv, TypeOK, CallerInv, HandleInv, Foreign, ForeignConnect, ForeignSend,
         ForeignTake, ForeignClose, clientVars, foreign
<1>2. /\ number' \in Nat /\ fresh' \subseteq Conns
      /\ WireTypes'
      /\ \A d \in Conns : d \in open' => d \in open \/ pc[d] = "off"
      /\ FreshInv'
  <2>1. CASE ForeignConnect
    <3>1. fresh = Conns /\ fresh' = Conns \ {Min(Conns)} /\ open' = {Min(Conns)}
          /\ UNCHANGED <<up, down, number>>
      BY <2>1 DEF ForeignConnect
    <3>2. Min(Conns) \in Conns
      BY LeastNumber DEF ConversationConstants
    <3>3. WireTypes'
      BY <1>1, <3>1, <3>2 DEF WireTypes
    <3>4. \A d \in Conns : pc[d] = "off"
      BY <1>1, <3>1 DEF FreshInv
    <3>5. FreshInv'
      BY <1>1, <3>1, <3>4 DEF FreshInv, serverVars
    <3> QED
      BY <1>1, <3>1, <3>3, <3>4, <3>5 DEF CallerTypes
  <2>2. CASE ForeignSend(c)
    <3>1. /\ c \in open /\ number' = number + 1 /\ UNCHANGED <<down, open, fresh>>
      BY <2>2 DEF ForeignSend
    <3>2. PICK r \in Requests :
            LET head == RequestHead([number |-> number + 1, attempt |-> 1], r.connection,
                                    r.coding, r.pieces, r.form) IN
            up' = [up EXCEPT ![c] = up[c] \o <<head>> \o Body(head)]
      BY <2>2, <1>1 DEF ForeignSend, WireTypes
    <3> DEFINE head == RequestHead([number |-> number + 1, attempt |-> 1], r.connection,
                                   r.coding, r.pieces, r.form)
    <3>3. head \in RequestHeads /\ head.tag \in Tags /\ head.pieces \in Nat
      <4>1. r \in UserRequests
        BY DEF ConversationConstants
      <4>2. [number |-> number + 1, attempt |-> 1] \in Tags
        BY <1>1 DEF CallerTypes, Tags
      <4> QED
        BY <4>1, <4>2 DEF RequestHead, RequestHeads, UserRequests, AnyTag
    <3>4. up' = [up EXCEPT ![c] = up[c] \o <<head>> \o Body(head)]
      BY <3>2
    <3> HIDE DEF head
    <3>5. up[c] \o <<head>> \o Body(head) \in Seq(RequestHeads \cup BodyTokens(Tags))
      <4>1. up[c] \in Seq(RequestHeads \cup BodyTokens(Tags))
        BY <1>1, Queues
      <4>2. <<head>> \in Seq(RequestHeads \cup BodyTokens(Tags))
        BY <3>3
      <4>3. Body(head) \in Seq(RequestHeads \cup BodyTokens(Tags))
        <5>1. Body(head) \in Seq(BodyTokens(Tags))
          BY <3>3, BodyFacts
        <5> QED
          BY <5>1
      <4>4. up[c] \o <<head>> \in Seq(RequestHeads \cup BodyTokens(Tags))
        BY <4>1, <4>2, Joined
      <4> QED
        BY <4>3, <4>4, Joined
    <3>6. WireTypes'
      BY <1>1, <3>1, <3>4, <3>5 DEF WireTypes
    <3>7. c \notin fresh
      BY <1>1, <3>1 DEF FreshInv
    <3>8. \A d \in fresh : up'[d] = up[d]
      BY <1>1, <3>4, <3>7 DEF CallerTypes, WireTypes
    <3>9. FreshInv'
      BY <1>1, <3>1, <3>8 DEF FreshInv, serverVars
    <3> QED
      BY <1>1, <3>1, <3>6, <3>9 DEF CallerTypes
  <2>3. CASE ForeignTake(c)
    <3>1. /\ down[c] # <<>> /\ down' = [down EXCEPT ![c] = <<>>]
          /\ UNCHANGED <<up, open, fresh, number>>
      BY <2>3 DEF ForeignTake, clientVars
    <3>2. WireTypes'
      <4>1. <<>> \in Seq(ResponseHeads \cup BodyTokens(AnyTag))
        BY EmptySeq
      <4> QED
        BY <1>1, <3>1, <4>1 DEF WireTypes
    <3>3. \A d \in fresh : down'[d] = down[d]
      BY <1>1, <3>1 DEF CallerTypes, WireTypes, FreshInv
    <3>4. FreshInv'
      BY <1>1, <3>1, <3>3 DEF FreshInv, serverVars
    <3> QED
      BY <1>1, <3>1, <3>2, <3>4 DEF CallerTypes
  <2>4. CASE ForeignClose(c)
    <3>1. open' = open \ {c} /\ UNCHANGED <<up, down, fresh, number>>
      BY <2>4 DEF ForeignClose, clientVars
    <3>2. WireTypes'
      BY <1>1, <3>1 DEF WireTypes
    <3>3. FreshInv'
      BY <1>1, <3>1 DEF FreshInv, serverVars
    <3> QED
      BY <1>1, <3>1, <3>2, <3>3 DEF CallerTypes
  <2> QED
    BY <2>1, <2>2, <2>3, <2>4 DEF Foreign
<1>3. TaskTypes'
  BY <1>1 DEF serverVars, TaskTypes, ServerTypeOK
<1>4. CallerTypes'
  BY <1>1, <1>2 DEF CallerTypes, ClientTypeOK
<1>5. HandleInv' /\ ToldInv' /\ CallerInv'
  BY <1>1 DEF HandleInv, ToldInv, CallerInv
<1>6. ServerInv'
  BY <1>1, <1>2, TasksWait
<1> QED
  BY <1>2, <1>3, <1>4, <1>5, <1>6 DEF IInv, TypeOK

-----------------------------------------------------------------------------
(* The executor's steps.                                                     *)

\* What is kept of a connection that a step of the executor does not write to.
LEMMA LaneKept ==
  ASSUME WireInv, NEW c \in Conns, Carried(c), UNCHANGED serverVars
  PROVE  /\ GoodForms(c)'
         /\ c \notin littered \cup strayed =>
              /\ OneRequest(c)' /\ EndsLast(c)' /\ (Quiet(c) => Quiet(c)')
              /\ c \in idle => Quiet(c)'
              /\ \A tag : OwnHeads(c, tag) => OwnHeads(c, tag)'
BY DEF WireInv, Carried, serverVars

\* The client takes tokens from a connection.
LEMMA ReadingCarries ==
  ASSUME WireTypes, NEW c \in Conns, UNCHANGED serverVars, up'[c] = up[c],
         \E n \in 0 .. Len(down[c]) : down'[c] = DropFirst(down[c], n),
         c \in open' => c \in open
  PROVE  Carried(c)
<1>1. Busy(c)' => Busy(c) /\ Tag(request[c])' = Tag(request[c])
  BY DEF Busy, Tag, serverVars
<1>2. Calm(c)
  <2>1. \E n \in 0 .. Len(up[c]) : up'[c] = DropFirst(up[c], n)
    <3>1. up[c] \in Seq(RequestHeads \cup BodyTokens(Tags)) /\ 0 \in 0 .. Len(up[c])
      BY Queues
    <3>2. DropFirst(up[c], 0) = up[c]
      BY <3>1, DropEnds
    <3> QED
      BY <3>1, <3>2
  <2> QED
    BY <1>1, <2>1 DEF Calm
<1> QED
  BY <1>2, CalmCarries

\* A proxy that is invalidated closes its connection, and no other.
LEMMA Invalidated ==
  ASSUME NEW c, InvalidateProxy(c)
  PROVE  /\ valid' = valid \ {c} /\ open' \subseteq open
         /\ \A d : d # c => (d \in open' <=> d \in open)
BY DEF InvalidateProxy

\* A proxy that is dropped is invalid then, or idle.
LEMMA Dropped ==
  ASSUME NEW c, DropProxy(c), idle \subseteq valid, c \notin idle
  PROVE  /\ valid' \subseteq valid /\ valid \ {c} \subseteq valid' /\ open' \subseteq open
         /\ \A d : d # c => (d \in open' <=> d \in open)
         /\ c \in onDestroy => c \notin valid'
         /\ idle' = (IF c \in valid' THEN idle \cup {c} ELSE idle) /\ idle' \subseteq valid'
         /\ onDestroy' = onDestroy \ {c}
<1>1. CASE c \in onDestroy
  BY <1>1, Invalidated DEF DropProxy
<1>2. CASE c \notin onDestroy
  BY <1>2 DEF DropProxy
<1> QED
  BY <1>1, <1>2

\* What is left on a connection is kept, or forgotten.
LEMMA Left ==
  ASSUME WireTypes, NEW c \in Conns, NEW n \in 0 .. Len(down[c]), NEW queue,
         queue = DropFirst(down[c], n) \/ queue = <<>>, Leave(c, queue)
  PROVE  /\ down' \in [Conns -> Seq(ResponseHeads \cup BodyTokens(AnyTag))]
         /\ \A d \in Conns \ {c} : down'[d] = down[d]
         /\ \E m \in 0 .. Len(down[c]) : down'[c] = DropFirst(down[c], m)
<1>1. down[c] \in Seq(ResponseHeads \cup BodyTokens(AnyTag)) /\ Len(down[c]) \in Nat
  BY Queues
<1>2. PICK m \in 0 .. Len(down[c]) : (IF c \in valid' THEN queue ELSE <<>>) = DropFirst(down[c], m)
  BY <1>1, AsItWas
<1>3. DropFirst(down[c], m) \in Seq(ResponseHeads \cup BodyTokens(AnyTag))
  BY <1>1, DropFacts
<1>4. down' = [down EXCEPT ![c] = DropFirst(down[c], m)]
  BY <1>2 DEF Leave
<1> QED
  BY <1>3, <1>4 DEF WireTypes

\* All that a step of the executor has to keep.
LEMMA ClientStepKeeps ==
  ASSUME IInv, ~foreign, UNCHANGED <<serverVars, variant>>,
         \A c \in Conns : c \in open' => c \in open \/ pc[c] = "off",
         WireTypes', CallerTypes', FreshInv', HandleInv', ToldInv', WireInv'
  PROVE  IInv'
<1>1. TaskTypes'
  BY DEF IInv, TypeOK, serverVars, TaskTypes, ServerTypeOK
<1>2. ServerInv'
  BY TasksWait DEF IInv
<1>3. CallerInv'
  BY DEF CallerInv, foreign
<1> QED
  BY <1>1, <1>2, <1>3 DEF IInv, TypeOK

\* Steps that touch no queue.
LEMMA NothingCarried ==
  ASSUME WireTypes, UNCHANGED <<up, down, serverVars>>, open' \subseteq open,
         NEW c \in Conns
  PROVE  Carried(c)
<1>1. \E n \in 0 .. Len(down[c]) : down'[c] = DropFirst(down[c], n)
  BY Queues, AsItWas
<1> QED
  BY <1>1, ReadingCarries

\* A new request rests on no connection.
LEMMA BeginKeeps ==
  ASSUME ConversationConstants, IInv, ~foreign, Begin, UNCHANGED <<serverVars, variant>>
  PROVE  IInv'
<1>1. /\ WireTypes /\ CallerTypes /\ FreshInv /\ HandleInv /\ ToldInv /\ WireInv
      /\ cpc = "rest" /\ cpc' = "attempt" /\ number' = number + 1 /\ attempt' = 0
      /\ UNCHANGED <<up, down, open, handle, fresh, valid, onDestroy, idle, answer,
                     littered, toldClose>>
  BY DEF IInv, TypeOK, CallerInv, Begin, wireVars
<1>2. PICK r \in CallerRequests :
        sending' = RequestHead([number |-> number + 1, attempt |-> 0],
                               r.connection, r.coding, r.pieces, "good")
  BY DEF Begin
<1>3. sending' \in RequestHeads /\ sending'.form = "good" /\ sending'.tag.number = number'
  <2>1. r \in UserRequests
    BY DEF ConversationConstants
  <2>2. [number |-> number + 1, attempt |-> 0] \in Tags
    BY <1>1 DEF CallerTypes, Tags
  <2> QED
    BY <1>1, <1>2, <2>1, <2>2 DEF RequestHead, RequestHeads, UserRequests, Forms
<1>4. WireTypes'
  BY <1>1 DEF WireTypes
<1>5. CallerTypes'
  BY <1>1, <1>3 DEF CallerTypes, ClientTypeOK
<1>6. FreshInv'
  BY <1>1 DEF FreshInv, serverVars
<1>7. HandleInv' /\ ToldInv'
  BY <1>1, <1>3 DEF HandleInv, ToldInv
<1>8. WireInv'
  <2>1. \A c \in Conns : Carried(c)
    BY <1>1, NothingCarried
  <2> QED
    BY <1>1, <2>1, LaneKept DEF WireInv, serverVars
<1> QED
  BY <1>1, <1>4, <1>5, <1>6, <1>7, <1>8, ClientStepKeeps

\* The next attempt gets a connection on which nothing is left of another, or none.
LEMMA AttemptKeeps ==
  ASSUME ConversationConstants, IInv, ~foreign, Attempt, UNCHANGED <<serverVars, variant>>
  PROVE  IInv'
<1>1. /\ WireTypes /\ CallerTypes /\ FreshInv /\ HandleInv /\ ToldInv /\ WireInv
      /\ cpc = "attempt" /\ attempt' = attempt + 1
      /\ sending' = [sending EXCEPT !.tag.attempt = attempt + 1]
      /\ UNCHANGED <<up, down, number, onDestroy, answer, littered, toldClose>>
  BY DEF IInv, TypeOK, CallerInv, Attempt
<1>2. /\ sending' \in RequestHeads /\ sending'.form = "good"
      /\ sending'.tag = Current' /\ sending'.tag.number = number'
  <2>1. /\ sending \in RequestHeads /\ sending.form = "good" /\ sending.tag.number = number
        /\ attempt \in Nat /\ number \in Nat
    BY <1>1 DEF HandleInv, CallerTypes
  <2>2. sending.tag \in Tags
    BY <2>1 DEF RequestHeads
  <2>3. sending'.tag = [number |-> number, attempt |-> attempt + 1]
    BY <1>1, <2>1, <2>2 DEF RequestHeads, Tags
  <2>4. sending'.tag \in Tags
    BY <2>1, <2>3 DEF Tags
  <2>5. sending' \in RequestHeads /\ sending'.form = "good"
    BY <1>1, <2>1, <2>4 DEF RequestHeads
  <2> QED
    BY <1>1, <2>3, <2>5 DEF Current
<1>3. \A c \in toldClose : c \notin valid
  BY <1>1 DEF ToldInv, CallerTypes
<1>4. CASE \E c \in idle : /\ handle' = c /\ idle' = idle \ {c} /\ cpc' = "send"
                           /\ UNCHANGED <<open, valid, fresh>>
  <2>1. PICK c \in idle : /\ handle' = c /\ idle' = idle \ {c} /\ cpc' = "send"
                          /\ UNCHANGED <<open, valid, fresh>>
    BY <1>4
  <2>2. c \in Conns /\ c \in valid
    BY <1>1 DEF CallerTypes, ClientTypeOK
  <2>3. WireTypes'
    BY <1>1, <2>1 DEF WireTypes
  <2>4. CallerTypes'
    BY <1>1, <1>2, <2>1, <2>2 DEF CallerTypes, ClientTypeOK
  <2>5. FreshInv'
    BY <1>1, <2>1, <2>2 DEF FreshInv, serverVars
  <2>6. HandleInv' /\ ToldInv'
    BY <1>1, <1>2, <1>3, <2>1, <2>2 DEF HandleInv, ToldInv
  <2>7. WireInv'
    <3>1. \A d \in Conns : Carried(d)
      BY <1>1, <2>1, NothingCarried
    <3>2. \A d \in Conns : /\ GoodForms(d)'
                           /\ d \notin littered \cup strayed =>
                                OneRequest(d)' /\ EndsLast(d)' /\ (d \in idle => Quiet(d)')
      BY <1>1, <3>1, LaneKept
    <3> QED
      BY <1>1, <2>1, <3>2 DEF WireInv, serverVars
  <2> QED
    BY <2>1, <2>3, <2>4, <2>5, <2>6, <2>7, ClientStepKeeps
<1>5. CASE /\ fresh # {}
           /\ handle' = Min(fresh) /\ fresh' = fresh \ {Min(fresh)} /\ cpc' = "send"
           /\ open' = open \cup {Min(fresh)} /\ valid' = valid \cup {Min(fresh)}
           /\ UNCHANGED idle
  <2>1. PICK c : c = Min(fresh)
    OBVIOUS
  <2>2. /\ c \in fresh /\ c \in Conns
        /\ handle' = c /\ fresh' = fresh \ {c} /\ cpc' = "send"
        /\ open' = open \cup {c} /\ valid' = valid \cup {c} /\ UNCHANGED idle
    <3>1. fresh \in SUBSET Nat /\ fresh \subseteq Conns
      BY <1>1 DEF CallerTypes, ConversationConstants
    <3> QED
      BY <1>5, <2>1, <3>1, LeastNumber
  <2>3. /\ c \notin open \cup valid \cup littered \cup toldClose /\ c \notin idle
        /\ pc[c] = "off" /\ up[c] = <<>> /\ down[c] = <<>> /\ c # NoConnection
    BY <1>1, <2>2 DEF FreshInv, CallerTypes, ClientTypeOK, ConversationConstants
  <2>4. WireTypes'
    BY <1>1, <2>2 DEF WireTypes
  <2>5. CallerTypes'
    BY <1>1, <1>2, <2>2 DEF CallerTypes, ClientTypeOK
  <2>6. FreshInv'
    BY <1>1, <2>2 DEF FreshInv, serverVars
  <2>7. HandleInv' /\ ToldInv'
    BY <1>1, <1>2, <1>3, <2>2, <2>3 DEF HandleInv, ToldInv
  <2>8. /\ GoodForms(c)' /\ OneRequest(c)' /\ EndsLast(c)' /\ Quiet(c)'
    <3>1. Len(up'[c]) = 0 /\ Len(down'[c]) = 0 /\ pc'[c] = "off" /\ (\A i \in 1 .. 0 : FALSE)
      BY <1>1, <2>3 DEF serverVars
    <3>2. ~Busy(c)' /\ NoHead(up'[c]) /\ AllPieces(down'[c])
      BY <3>1 DEF Busy, NoHead, AllPieces
    <3> QED
      BY <3>1, <3>2 DEF GoodForms, OneRequest, EndsLast, Quiet, ServerQuiet, Ending
  <2>9. WireInv'
    <3>1. \A d \in Conns \ {c} : Carried(d)
      <4> TAKE d \in Conns \ {c}
      <4>1. /\ up'[d] = up[d]
            /\ d \in open' => d \in open
            /\ \E n \in 0 .. Len(down[d]) : down'[d] = DropFirst(down[d], n)
        BY <1>1, <2>2, Queues, AsItWas
      <4> QED
        BY <1>1, <4>1, ReadingCarries
    <3>2. \A d \in Conns \ {c} : /\ GoodForms(d)'
                                 /\ d \notin littered \cup strayed =>
                                      OneRequest(d)' /\ EndsLast(d)' /\ (d \in idle => Quiet(d)')
      BY <1>1, <3>1, LaneKept
    <3> QED
      BY <1>1, <2>2, <2>3, <2>8, <3>2 DEF WireInv, serverVars
  <2>10. \A d \in Conns : d \in open' => d \in open \/ pc[d] = "off"
    BY <2>2, <2>3
  <2> QED
    BY <2>4, <2>5, <2>6, <2>7, <2>9, <2>10, ClientStepKeeps
<1>6. CASE cpc' = "failed" /\ UNCHANGED <<handle, open, valid, idle, fresh>>
  <2>1. WireTypes' /\ CallerTypes' /\ FreshInv'
    BY <1>1, <1>2, <1>6 DEF WireTypes, CallerTypes, ClientTypeOK, FreshInv, serverVars
  <2>2. HandleInv' /\ ToldInv'
    BY <1>1, <1>2, <1>3, <1>6 DEF HandleInv, ToldInv
  <2>3. WireInv'
    <3>1. \A d \in Conns : Carried(d)
      BY <1>1, <1>6, NothingCarried
    <3>2. \A d \in Conns : /\ GoodForms(d)'
                           /\ d \notin littered \cup strayed =>
                                OneRequest(d)' /\ EndsLast(d)' /\ (d \in idle => Quiet(d)')
      BY <1>1, <3>1, LaneKept
    <3> QED
      BY <1>1, <1>6, <3>2 DEF WireInv, serverVars
  <2> QED
    BY <1>6, <2>1, <2>2, <2>3, ClientStepKeeps
<1> QED
  BY <1>4, <1>5, <1>6 DEF Attempt

\* A request goes out on a quiet connection: it is the only one there.
LEMMA RequestWritten ==
  ASSUME WireTypes, NEW c \in Conns, NEW tokens \in Seq(RequestHeads \cup BodyTokens(Tags)),
         1 \in 1 .. Len(tokens), tokens[1].form = "good",
         \A i \in 1 .. Len(tokens) : i # 1 => tokens[i].kind # "head",
         up'[c] = up[c] \o tokens, UNCHANGED serverVars, c \in open' => c \in open,
         \E n \in 0 .. Len(down[c]) : down'[c] = DropFirst(down[c], n)
  PROVE  /\ GoodForms(c) => GoodForms(c)'
         /\ Quiet(c) =>
              /\ OneRequest(c)' /\ EndsLast(c)'
              /\ \A i \in 1 .. Len(up'[c]) : up'[c][i].kind = "head" => up'[c][i].tag = tokens[1].tag
              /\ AllPieces(down'[c]) /\ ~Busy(c)'
<1>1. /\ up[c] \in Seq(RequestHeads \cup BodyTokens(Tags)) /\ Len(up[c]) \in Nat
      /\ down[c] \in Seq(ResponseHeads \cup BodyTokens(AnyTag)) /\ Len(down[c]) \in Nat
  BY Queues
<1>2. /\ Len(tokens) \in Nat
      /\ \A i \in 1 .. Len(up[c]) : up'[c][i] = up[c][i]
      /\ \A i \in 1 .. Len(tokens) : up'[c][Len(up[c]) + i] = tokens[i]
      /\ \A i \in 1 .. Len(up'[c]) :
           \/ i \in 1 .. Len(up[c])
           \/ i > Len(up[c]) /\ \E j \in 1 .. Len(tokens) : i = Len(up[c]) + j
  BY <1>1, Joined
<1>3. \A i \in 1 .. Len(up'[c]) :
        up'[c][i].kind = "head" =>
          \/ i \in 1 .. Len(up[c]) /\ up'[c][i] = up[c][i]
          \/ i = Len(up[c]) + 1 /\ up'[c][i] = tokens[1]
  <2> SUFFICES ASSUME NEW i \in 1 .. Len(up'[c]), up'[c][i].kind = "head", i \notin 1 .. Len(up[c])
               PROVE  i = Len(up[c]) + 1 /\ up'[c][i] = tokens[1]
    BY <1>2
  <2>1. PICK j \in 1 .. Len(tokens) : i = Len(up[c]) + j
    BY <1>2
  <2>2. j = 1
    BY <2>1, <1>2
  <2> QED
    BY <2>1, <2>2, <1>2
<1>4. GoodForms(c) => GoodForms(c)'
  BY <1>3 DEF GoodForms
<1>5. SUFFICES ASSUME Quiet(c)
               PROVE  /\ OneRequest(c)' /\ EndsLast(c)'
                      /\ \A i \in 1 .. Len(up'[c]) :
                           up'[c][i].kind = "head" => up'[c][i].tag = tokens[1].tag
                      /\ AllPieces(down'[c]) /\ ~Busy(c)'
  BY <1>4
<1>6. \A i \in 1 .. Len(up'[c]) :
        up'[c][i].kind = "head" => i = Len(up[c]) + 1 /\ up'[c][i] = tokens[1]
  BY <1>3, <1>5 DEF Quiet, ServerQuiet, NoHead
<1>7. ~Busy(c)'
  BY <1>5 DEF Busy, Quiet, ServerQuiet, serverVars
<1>8. OneRequest(c)'
  BY <1>6, <1>7 DEF OneRequest
<1>9. AllPieces(down'[c])
  <2>1. PICK n \in 0 .. Len(down[c]) : down'[c] = DropFirst(down[c], n)
    OBVIOUS
  <2>2. /\ Len(DropFirst(down[c], n)) = Len(down[c]) - n
        /\ \A i \in 1 .. Len(down[c]) - n : DropFirst(down[c], n)[i] = down[c][i + n]
    BY <1>1, DropFacts
  <2>3. \A i \in 1 .. Len(down[c]) - n : i + n \in 1 .. Len(down[c])
    BY <1>1
  <2>4. \A i \in 1 .. Len(down[c]) : down[c][i].kind = "piece"
    BY <1>5 DEF Quiet, AllPieces
  <2>5. ASSUME NEW i \in 1 .. Len(down'[c])
        PROVE  down'[c][i].kind = "piece"
    <3>1. i \in 1 .. Len(down[c]) - n
      BY <2>1, <2>2
    <3>2. down'[c][i] = down[c][i + n]
      BY <3>1, <2>1, <2>2
    <3> QED
      BY <3>1, <3>2, <2>3, <2>4
  <2> QED
    BY <2>5 DEF AllPieces
<1>10. EndsLast(c)'
  BY <1>9 DEF EndsLast, AllPieces, Ending
<1> QED
  BY <1>6, <1>7, <1>8, <1>9, <1>10

\* What is written for a request, all of it or the part before its body threw.
LEMMA RequestTokens ==
  ASSUME NEW head \in RequestHeads
  PROVE  \A tokens \in {<<head>> \o Body(head), <<head, Piece(head.tag)>>} :
           /\ tokens \in Seq(RequestHeads \cup BodyTokens(Tags))
           /\ 1 \in 1 .. Len(tokens) /\ tokens[1] = head
           /\ \A i \in 1 .. Len(tokens) : i # 1 => tokens[i].kind # "head"
<1>1. head.tag \in Tags /\ head.pieces \in Nat
  BY DEF RequestHeads
<1>2. /\ Body(head) \in Seq(BodyTokens(Tags))
      /\ \A i \in 1 .. Len(Body(head)) : Body(head)[i].kind # "head"
  BY <1>1, BodyFacts
<1>3. <<head>> \in Seq(RequestHeads \cup BodyTokens(Tags)) /\ Len(<<head>>) = 1 /\ <<head>>[1] = head
  OBVIOUS
<1>4. ASSUME NEW tokens, tokens = <<head>> \o Body(head)
      PROVE  /\ tokens \in Seq(RequestHeads \cup BodyTokens(Tags))
             /\ 1 \in 1 .. Len(tokens) /\ tokens[1] = head
             /\ \A i \in 1 .. Len(tokens) : i # 1 => tokens[i].kind # "head"
  <2> DEFINE first == <<head>>
             body == Body(head)
  <2>1. first \in Seq(RequestHeads \cup BodyTokens(Tags)) /\ Len(first) = 1 /\ first[1] = head
    BY <1>3
  <2>2. /\ body \in Seq(RequestHeads \cup BodyTokens(Tags))
        /\ \A i \in 1 .. Len(body) : body[i].kind # "head"
    BY <1>2
  <2>3. tokens = first \o body
    BY <1>4
  <2> HIDE DEF first, body
  <2>4. /\ tokens \in Seq(RequestHeads \cup BodyTokens(Tags)) /\ Len(body) \in Nat
        /\ Len(tokens) = Len(first) + Len(body)
        /\ \A i \in 1 .. Len(first) : tokens[i] = first[i]
        /\ \A i \in 1 .. Len(body) : tokens[Len(first) + i] = body[i]
        /\ \A i \in 1 .. Len(tokens) :
             \/ i \in 1 .. Len(first)
             \/ i > Len(first) /\ \E j \in 1 .. Len(body) : i = Len(first) + j
    <3>1. tokens \in Seq(RequestHeads \cup BodyTokens(Tags)) /\ Joins(tokens, first, body)
      BY <2>1, <2>2, <2>3, JoinedWhole
    <3> QED
      BY <3>1 DEF Joins
  <2>5. ASSUME NEW i \in 1 .. Len(tokens), i # 1 PROVE tokens[i].kind # "head"
    <3>1. i \notin 1 .. Len(first)
      BY <2>1, <2>5
    <3>2. PICK j \in 1 .. Len(body) : i = Len(first) + j
      BY <2>4, <3>1
    <3> QED
      BY <3>2, <2>2, <2>4
  <2>6. 1 \in 1 .. Len(tokens) /\ 1 \in 1 .. Len(first)
    BY <2>1, <2>4
  <2> QED
    BY <2>1, <2>4, <2>5, <2>6
<1>5. ASSUME NEW tokens, tokens = <<head, Piece(head.tag)>>
      PROVE  /\ tokens \in Seq(RequestHeads \cup BodyTokens(Tags))
             /\ 1 \in 1 .. Len(tokens) /\ tokens[1] = head
             /\ \A i \in 1 .. Len(tokens) : i # 1 => tokens[i].kind # "head"
  <2>1. Piece(head.tag) \in BodyTokens(Tags) /\ Piece(head.tag).kind # "head"
    BY <1>1 DEF Piece, BodyTokens
  <2> QED
    BY <2>1, <1>5
<1> QED
  BY <1>4, <1>5

\* Where all is quiet, all heads are anybody's.
LEMMA QuietOwns == ASSUME NEW c, Quiet(c)', NEW tag PROVE OwnHeads(c, tag)'
BY DEF Quiet, ServerQuiet, NoHead, AllPieces, OwnHeads

\* A request is sent where nothing is on its way: its heads are the only ones there.
LEMMA SendKeeps ==
  ASSUME ConversationConstants, IInv, ~foreign, Send, UNCHANGED <<serverVars, variant>>
  PROVE  IInv'
<1>1. PICK c : c = handle
  OBVIOUS
<1>2. /\ WireTypes /\ CallerTypes /\ FreshInv /\ HandleInv /\ ToldInv /\ WireInv
      /\ cpc = "send" /\ c \in Conns /\ c \notin idle
      /\ sending \in RequestHeads /\ sending.form = "good" /\ sending.tag = Current
      /\ sending.tag.number = number
      /\ UNCHANGED <<number, attempt, sending, handle, onDestroy, idle, fresh, answer,
                     littered, toldClose>>
      /\ Leave(c, down[c]) /\ cpc' \in {"await", "failed"}
  BY <1>1 DEF IInv, TypeOK, CallerInv, HandleInv, Send
<1>3. /\ valid' \subseteq valid /\ valid \ {c} \subseteq valid' /\ open' \subseteq open
      /\ \A d : d # c => (d \in open' <=> d \in open)
      /\ cpc' = "await" => valid' = valid
  <2>1. UNCHANGED <<open, valid>> \/ (InvalidateProxy(c) /\ cpc' = "failed")
    BY <1>1 DEF Send
  <2> QED
    BY <2>1, Invalidated
<1>4. /\ down' \in [Conns -> Seq(ResponseHeads \cup BodyTokens(AnyTag))]
      /\ \A d \in Conns \ {c} : down'[d] = down[d]
      /\ \E m \in 0 .. Len(down[c]) : down'[c] = DropFirst(down[c], m)
  <2>1. down[c] = DropFirst(down[c], 0) /\ 0 \in 0 .. Len(down[c])
    <3>1. down[c] \in Seq(ResponseHeads \cup BodyTokens(AnyTag)) /\ 0 \in 0 .. Len(down[c])
      BY <1>2, Queues
    <3> QED
      BY <3>1, DropEnds
  <2> QED
    BY <1>2, <2>1, Left
<1>5. \/ UNCHANGED up
      \/ \E tokens \in {<<sending>> \o Body(sending), <<sending, Piece(sending.tag)>>} :
           up' = [up EXCEPT ![c] = up[c] \o tokens]
  BY <1>1, <1>2 DEF Send, WireTypes
<1>6. /\ up' \in [Conns -> Seq(RequestHeads \cup BodyTokens(Tags))]
      /\ \A d \in Conns \ {c} : up'[d] = up[d]
      /\ GoodForms(c)'
      /\ c \notin littered \cup strayed =>
           OneRequest(c)' /\ EndsLast(c)' /\ OwnHeads(c, Current)'
  <2>1. GoodForms(c) /\ (c \notin littered \cup strayed => Quiet(c))
    BY <1>1, <1>2 DEF WireInv
  <2>2. CASE UNCHANGED up
    <3>1. Carried(c)
      BY <1>2, <1>3, <1>4, <2>2, ReadingCarries
    <3>2. /\ GoodForms(c)'
          /\ c \notin littered \cup strayed => OneRequest(c)' /\ EndsLast(c)' /\ Quiet(c)'
      BY <1>2, <2>1, <3>1, LaneKept
    <3>3. c \notin littered \cup strayed => OwnHeads(c, Current)'
      <4>1. PICK tag : tag = Current'
        OBVIOUS
      <4>2. c \notin littered \cup strayed => OwnHeads(c, tag)'
        BY <3>2, QuietOwns
      <4> QED
        BY <4>1, <4>2 DEF OwnHeads
    <3> QED
      BY <1>2, <2>2, <3>2, <3>3 DEF WireTypes
  <2>3. CASE \E tokens \in {<<sending>> \o Body(sending), <<sending, Piece(sending.tag)>>} :
               up' = [up EXCEPT ![c] = up[c] \o tokens]
    <3>1. PICK tokens \in {<<sending>> \o Body(sending), <<sending, Piece(sending.tag)>>} :
            up' = [up EXCEPT ![c] = up[c] \o tokens]
      BY <2>3
    <3>2. /\ tokens \in Seq(RequestHeads \cup BodyTokens(Tags))
          /\ 1 \in 1 .. Len(tokens) /\ tokens[1] = sending
          /\ \A i \in 1 .. Len(tokens) : i # 1 => tokens[i].kind # "head"
      BY <1>2, <3>1, RequestTokens
    <3>3. /\ up'[c] = up[c] \o tokens
          /\ up' \in [Conns -> Seq(RequestHeads \cup BodyTokens(Tags))]
          /\ \A d \in Conns \ {c} : up'[d] = up[d]
      <4>1. up[c] \o tokens \in Seq(RequestHeads \cup BodyTokens(Tags))
        <5>1. up[c] \in Seq(RequestHeads \cup BodyTokens(Tags))
          BY <1>2, Queues
        <5> QED
          BY <3>2, <5>1, Joined
      <4> QED
        BY <1>2, <3>1, <4>1 DEF WireTypes
    <3>4. /\ GoodForms(c) => GoodForms(c)'
          /\ Quiet(c) =>
               /\ OneRequest(c)' /\ EndsLast(c)'
               /\ \A i \in 1 .. Len(up'[c]) :
                    up'[c][i].kind = "head" => up'[c][i].tag = tokens[1].tag
               /\ AllPieces(down'[c]) /\ ~Busy(c)'
      <4>1. tokens[1].form = "good" /\ (c \in open' => c \in open)
        BY <1>2, <1>3, <3>2
      <4> QED
        BY <1>2, <1>4, <3>2, <3>3, <4>1, RequestWritten
    <3>5. tokens[1].tag = Current'
      BY <1>2, <3>2 DEF Current
    <3>6. Quiet(c) => OwnHeads(c, Current)'
      BY <3>4, <3>5 DEF OwnHeads, AllPieces
    <3> QED
      BY <2>1, <3>3, <3>4, <3>6
  <2> QED
    BY <1>5, <2>2, <2>3
<1>7. WireTypes'
  BY <1>2, <1>3, <1>4, <1>6 DEF WireTypes
<1>8. CallerTypes'
  BY <1>2, <1>3 DEF CallerTypes, ClientTypeOK
<1>9. FreshInv'
  BY <1>1, <1>2, <1>3, <1>4, <1>6 DEF FreshInv, CallerTypes, serverVars
<1>10. HandleInv' /\ ToldInv'
  BY <1>1, <1>2, <1>3 DEF HandleInv, ToldInv, Current
<1>11. WireInv'
  <2>1. \A d \in Conns \ {c} : Carried(d)
    <3> TAKE d \in Conns \ {c}
    <3>1. /\ up'[d] = up[d]
          /\ d \in open' => d \in open
          /\ \E n \in 0 .. Len(down[d]) : down'[d] = DropFirst(down[d], n)
      BY <1>2, <1>3, <1>4, <1>6, Queues, AsItWas
    <3> QED
      BY <1>2, <3>1, ReadingCarries
  <2>2. \A d \in Conns \ {c} : /\ GoodForms(d)'
                               /\ d \notin littered \cup strayed =>
                                    OneRequest(d)' /\ EndsLast(d)' /\ (d \in idle => Quiet(d)')
    BY <1>2, <2>1, LaneKept
  <2> QED
    BY <1>1, <1>2, <1>6, <2>2 DEF WireInv, serverVars
<1> QED
  BY <1>3, <1>7, <1>8, <1>9, <1>10, <1>11, ClientStepKeeps

\* The first head that comes is the attempt's own; what may be before it spoils it.
LEMMA AnswerReadKeeps ==
  ASSUME ConversationConstants, IInv, ~foreign, ReadHead, UNCHANGED <<serverVars, variant>>
  PROVE  IInv'
<1>1. PICK c : c = handle
  OBVIOUS
<1> DEFINE n == HeadAt(down[c])
<1>2. /\ WireTypes /\ CallerTypes /\ FreshInv /\ HandleInv /\ ToldInv /\ WireInv
      /\ cpc = "await" /\ c \in Conns /\ c \notin idle
      /\ UNCHANGED <<up, number, attempt, sending, handle, idle, fresh, littered>>
  BY <1>1 DEF IInv, TypeOK, CallerInv, HandleInv, ReadHead
<1>3. /\ down[c] \in Seq(ResponseHeads \cup BodyTokens(AnyTag)) /\ Len(down[c]) \in Nat
      /\ n \in 0 .. Len(down[c])
      /\ n > 0 => n \in 1 .. Len(down[c]) /\ n # 0
  <2>1. down[c] \in Seq(ResponseHeads \cup BodyTokens(AnyTag)) /\ Len(down[c]) \in Nat
    BY <1>2, Queues
  <2>2. n \in 0 .. Len(down[c])
    BY <2>1, HeadAtFacts
  <2> HIDE DEF n
  <2> QED
    BY <2>1, <2>2
<1>4. /\ \A c2 \in toldClose : c2 \notin valid
      /\ c \notin fresh
  BY <1>1, <1>2 DEF ToldInv, CallerTypes, FreshInv
<1>5. \/ /\ n > 0 /\ down[c][n].kind = "head"
         /\ Accept(down[c][n]) /\ Leave(c, DropFirst(down[c], n))
      \/ /\ \E empty \in Empties : Accept(empty)
         /\ Leave(c, DropFirst(down[c], n)) \/ Leave(c, <<>>)
      \/ /\ Refuse /\ (Leave(c, DropFirst(down[c], n)) \/ Leave(c, <<>>))
  BY <1>1 DEF ReadHead
<1> HIDE DEF n
<1>6. /\ down' \in [Conns -> Seq(ResponseHeads \cup BodyTokens(AnyTag))]
      /\ \A d \in Conns \ {c} : down'[d] = down[d]
      /\ \E m \in 0 .. Len(down[c]) : down'[c] = DropFirst(down[c], m)
  BY <1>2, <1>3, <1>5, Left
<1>7. /\ valid' \subseteq valid /\ valid \ {c} \subseteq valid' /\ open' \subseteq open
      /\ \A d : d # c => (d \in open' <=> d \in open)
  <2>1. UNCHANGED <<open, valid>> \/ InvalidateProxy(c)
    BY <1>1, <1>5 DEF Accept, Refuse
  <2> QED
    BY <2>1, Invalidated
<1>8. \/ /\ cpc' = "failed" /\ UNCHANGED <<answer, onDestroy, toldClose>>
      \/ /\ cpc' = "got"
         /\ answer' \in ResponseHeads
         /\ answer' \notin Empties =>
              /\ n > 0 /\ down[c][n].kind = "head" /\ answer' = down[c][n]
              /\ Leave(c, DropFirst(down[c], n))
         /\ \/ UNCHANGED <<onDestroy, toldClose>>
            \/ onDestroy' = onDestroy \cup {c} /\ toldClose' = toldClose \cup {c}
  <2>1. Empties \subseteq ResponseHeads
    BY DEF Empties, ResponseHead, ResponseHeads, AnyTag, Tags, Headers, Codings
  <2>2. (n > 0 /\ down[c][n].kind = "head") => down[c][n] \in ResponseHeads
    <3>1. n > 0 => down[c][n] \in ResponseHeads \cup BodyTokens(AnyTag)
      BY <1>3, ElementOfSeq
    <3> QED
      BY <3>1 DEF BodyTokens
  <2> QED
    BY <1>1, <1>5, <2>1, <2>2 DEF Accept, Refuse
<1>9. WireTypes'
  BY <1>2, <1>6, <1>7 DEF WireTypes
<1>10. CallerTypes'
  BY <1>2, <1>7, <1>8 DEF CallerTypes, ClientTypeOK
<1>11. FreshInv'
  <2> SUFFICES ASSUME NEW d \in fresh
               PROVE  /\ d \notin (open \cup valid \cup littered \cup toldClose)' /\ d # handle'
                      /\ pc'[d] = "off" /\ up'[d] = <<>> /\ down'[d] = <<>>
    BY <1>2 DEF FreshInv
  <2>1. /\ d \notin open \cup valid \cup littered \cup toldClose /\ d # handle
        /\ pc[d] = "off" /\ up[d] = <<>> /\ down[d] = <<>> /\ d \in Conns \ {c}
    BY <1>2, <1>4 DEF FreshInv, CallerTypes
  <2>2. toldClose' \subseteq toldClose \cup {c}
    BY <1>8
  <2> QED
    BY <1>2, <1>6, <1>7, <2>1, <2>2 DEF serverVars
<1>12. HandleInv' /\ ToldInv'
  <2>1. HandleInv'
    BY <1>1, <1>2, <1>8 DEF HandleInv, Current
  <2>2. ToldInv'
    BY <1>1, <1>2, <1>4, <1>7, <1>8 DEF ToldInv
  <2> QED
    BY <2>1, <2>2
<1>13. \A d \in Conns : Carried(d)
  <2>1. Carried(c)
    BY <1>2, <1>6, <1>7, ReadingCarries
  <2>2. ASSUME NEW d \in Conns \ {c} PROVE Carried(d)
    <3>1. /\ up'[d] = up[d]
          /\ d \in open' => d \in open
          /\ \E m \in 0 .. Len(down[d]) : down'[d] = DropFirst(down[d], m)
      BY <1>2, <1>6, <1>7, Queues, AsItWas
    <3> QED
      BY <1>2, <3>1, ReadingCarries
  <2> QED
    BY <2>1, <2>2
<1>14. ASSUME c \notin littered \cup strayed, cpc' = "got", answer' \notin Empties
       PROVE  answer'.tag = Current' /\ (answer'.coding # "chunked" => Quiet(c)')
  <2>1. /\ n > 0 /\ answer' = down[c][n] /\ Leave(c, DropFirst(down[c], n))
        /\ n \in 1 .. Len(down[c]) /\ down[c][n].kind = "head"
    BY <1>3, <1>8, <1>14
  <2>2. OwnHeads(c, Current) /\ EndsLast(c)
    BY <1>1, <1>2, <1>14 DEF WireInv
  <2>3. answer'.tag = Current'
    BY <1>2, <2>1, <2>2 DEF OwnHeads, Current
  <2>4. ASSUME answer'.coding # "chunked" PROVE Quiet(c)'
    <3>1. Ending(down[c][n])
      BY <2>1, <2>4 DEF Ending
    <3>2. ServerQuiet(c) /\ \A j \in n + 1 .. Len(down[c]) : down[c][j].kind = "piece"
      BY <2>1, <2>2, <3>1 DEF EndsLast
    <3>3. ServerQuiet(c)'
      BY <1>2, <1>7, <3>2 DEF ServerQuiet, Busy, serverVars
    <3>4. AllPieces(DropFirst(down[c], n)) /\ AllPieces(<<>>)
      <4>1. /\ Len(DropFirst(down[c], n)) = Len(down[c]) - n
            /\ \A i \in 1 .. Len(down[c]) - n : DropFirst(down[c], n)[i] = down[c][i + n]
        BY <1>3, DropFacts
      <4>2. \A i \in 1 .. Len(down[c]) - n : i + n \in n + 1 .. Len(down[c])
        BY <1>3
      <4>3. Len(<<>>) = 0 /\ (\A i \in 1 .. 0 : FALSE)
        OBVIOUS
      <4> QED
        BY <3>2, <4>1, <4>2, <4>3 DEF AllPieces
    <3>5. down'[c] \in {DropFirst(down[c], n), <<>>}
      BY <1>2, <2>1 DEF Leave, WireTypes
    <3> QED
      BY <3>3, <3>4, <3>5 DEF Quiet
  <2> QED
    BY <2>3, <2>4
<1>15. WireInv'
  <2>1. \A d \in Conns : /\ GoodForms(d)'
                         /\ d \notin littered \cup strayed =>
                              OneRequest(d)' /\ EndsLast(d)' /\ (d \in idle => Quiet(d)')
    BY <1>2, <1>13, LaneKept
  <2>2. (cpc' = "got" /\ c \notin littered \cup strayed) => OwnAnswer(c)'
    BY <1>14 DEF OwnAnswer
  <2> QED
    BY <1>1, <1>2, <1>8, <2>1, <2>2 DEF WireInv, serverVars
<1>16. \A d \in Conns : d \in open' => d \in open \/ pc[d] = "off"
  BY <1>7
<1> QED
  BY <1>9, <1>10, <1>11, <1>12, <1>15, <1>16, ClientStepKeeps

\* The retry policy looks at the answer and changes no connection.
LEMMA JudgeKeeps ==
  ASSUME ConversationConstants, IInv, ~foreign, Judge, UNCHANGED <<serverVars, variant>>
  PROVE  IInv'
<1>1. /\ WireTypes /\ CallerTypes /\ FreshInv /\ HandleInv /\ ToldInv /\ WireInv
      /\ cpc = "got" /\ cpc' \in {"retry", "answered"}
      /\ UNCHANGED <<up, down, open, number, attempt, sending, handle, valid, onDestroy, idle,
                     fresh, answer, littered, toldClose>>
  BY DEF IInv, TypeOK, CallerInv, Judge, wireVars
<1>2. WireTypes' /\ CallerTypes'
  BY <1>1 DEF WireTypes, CallerTypes, ClientTypeOK
<1>3. FreshInv' /\ HandleInv' /\ ToldInv'
  BY <1>1 DEF FreshInv, HandleInv, ToldInv, Current, serverVars
<1>4. WireInv'
  <2>1. \A d \in Conns : Carried(d)
    BY <1>1, NothingCarried
  <2>2. \A d \in Conns : /\ GoodForms(d)'
                         /\ d \notin littered \cup strayed =>
                              /\ OneRequest(d)' /\ EndsLast(d)'
                              /\ (Quiet(d) => Quiet(d)') /\ (d \in idle => Quiet(d)')
    BY <1>1, <2>1, LaneKept
  <2>3. \A d \in Conns \ (littered \cup strayed) : d = handle => OwnAnswer(d)
    BY <1>1 DEF WireInv
  <2>4. \A d \in Conns \ (littered \cup strayed) : OwnAnswer(d) => OwnAnswer(d)'
    BY <1>1, <2>2 DEF OwnAnswer, Current
  <2> QED
    BY <1>1, <2>2, <2>3, <2>4 DEF WireInv, serverVars
<1> QED
  BY <1>1, <1>2, <1>3, <1>4, ClientStepKeeps

\* A connection is given back, or invalidated, and its caller goes on without it.
LEMMA HandleLeft ==
  ASSUME ConversationConstants, IInv, ~foreign, UNCHANGED <<serverVars, variant, up>>,
         NEW c \in Conns, c = handle, cpc' \in {"rest", "attempt"}, handle' = NoConnection,
         UNCHANGED <<number, attempt, sending, fresh, toldClose>>,
         cpc' = "attempt" => cpc # "rest",
         answer' \in ResponseHeads \cup {NoAnswer},
         valid' \subseteq valid, open' \subseteq open,
         c \in toldClose => c \notin valid',
         \A d : d # c => (d \in open' <=> d \in open),
         idle' \subseteq valid', idle' \subseteq idle \cup {c},
         onDestroy' \subseteq Conns,
         littered \subseteq littered', littered' \subseteq littered \cup {c},
         (c \in idle' /\ c \notin (littered \cup strayed)') => Quiet(c)',
         down' \in [Conns -> Seq(ResponseHeads \cup BodyTokens(AnyTag))],
         \A d \in Conns \ {c} : down'[d] = down[d],
         \E m \in 0 .. Len(down[c]) : down'[c] = DropFirst(down[c], m)
  PROVE  IInv'
<1>1. /\ WireTypes /\ CallerTypes /\ FreshInv /\ HandleInv /\ ToldInv /\ WireInv
  BY DEF IInv, TypeOK, CallerInv
<1>2. WireTypes'
  BY <1>1 DEF WireTypes
<1>3. CallerTypes'
  BY <1>1 DEF CallerTypes, ClientTypeOK
<1>4. FreshInv'
  <2> SUFFICES ASSUME NEW d \in fresh
               PROVE  /\ d \notin (open \cup valid \cup littered \cup toldClose)' /\ d # handle'
                      /\ pc'[d] = "off" /\ up'[d] = <<>> /\ down'[d] = <<>>
    BY DEF FreshInv
  <2>1. /\ d \notin open \cup valid \cup littered \cup toldClose /\ d # c
        /\ pc[d] = "off" /\ up[d] = <<>> /\ down[d] = <<>> /\ d \in Conns \ {c}
    BY <1>1 DEF FreshInv, CallerTypes
  <2>2. d # handle'
    BY <2>1 DEF ConversationConstants
  <2> QED
    BY <2>1, <2>2 DEF serverVars
<1>5. HandleInv'
  <2>1. NoConnection \notin idle'
    BY <1>1 DEF CallerTypes, ClientTypeOK, ConversationConstants
  <2> QED
    BY <1>1, <2>1 DEF HandleInv
<1>6. ToldInv'
  BY <1>1 DEF ToldInv
<1>7. WireInv'
  <2>1. \A d \in Conns : Carried(d)
    <3>1. Carried(c)
      BY <1>1, ReadingCarries
    <3>2. ASSUME NEW d \in Conns \ {c} PROVE Carried(d)
      <4>1. /\ up'[d] = up[d]
            /\ d \in open' => d \in open
            /\ \E m \in 0 .. Len(down[d]) : down'[d] = DropFirst(down[d], m)
        BY <1>1, Queues, AsItWas
      <4> QED
        BY <1>1, <4>1, ReadingCarries
    <3> QED
      BY <3>1, <3>2
  <2>2. \A d \in Conns : /\ GoodForms(d)'
                         /\ d \notin littered \cup strayed =>
                              OneRequest(d)' /\ EndsLast(d)' /\ (d \in idle => Quiet(d)')
    BY <1>1, <2>1, LaneKept
  <2>3. \A d \in Conns \ (littered \cup strayed)' : d \in idle' => Quiet(d)'
    BY <2>2 DEF serverVars
  <2> QED
    BY <2>2, <2>3 DEF WireInv, serverVars
<1>8. \A d \in Conns : d \in open' => d \in open \/ pc[d] = "off"
  OBVIOUS
<1> QED
  BY <1>2, <1>3, <1>4, <1>5, <1>6, <1>7, <1>8, ClientStepKeeps

\* The caller goes on without having had a connection, or keeps the one it has.
LEMMA NothingLeft ==
  ASSUME ConversationConstants, IInv, ~foreign, UNCHANGED <<serverVars, variant, up, down, open>>,
         cpc \in {"failed", "retry"}, cpc' \in {"rest", "attempt", "retry"},
         cpc' = "retry" \/ (handle = NoConnection /\ onDestroy' \subseteq onDestroy),
         cpc' = "retry" => onDestroy' = onDestroy,
         UNCHANGED <<number, attempt, sending, fresh, toldClose, handle, valid, idle, littered>>,
         answer' \in {answer, NoAnswer}
  PROVE  IInv'
<1>1. /\ WireTypes /\ CallerTypes /\ FreshInv /\ HandleInv /\ ToldInv /\ WireInv
  BY DEF IInv, TypeOK, CallerInv
<1>2. WireTypes' /\ CallerTypes'
  BY <1>1 DEF WireTypes, CallerTypes, ClientTypeOK
<1>3. FreshInv'
  BY <1>1 DEF FreshInv, serverVars
<1>4. HandleInv'
  BY <1>1 DEF HandleInv
<1>5. ToldInv'
  BY <1>1 DEF ToldInv, CallerTypes, ConversationConstants
<1>6. WireInv'
  <2>1. \A d \in Conns : Carried(d)
    BY <1>1, NothingCarried
  <2>2. \A d \in Conns : /\ GoodForms(d)'
                         /\ d \notin littered \cup strayed =>
                              OneRequest(d)' /\ EndsLast(d)' /\ (d \in idle => Quiet(d)')
    BY <1>1, <2>1, LaneKept
  <2> QED
    BY <2>2 DEF WireInv, serverVars
<1> QED
  BY <1>2, <1>3, <1>4, <1>5, <1>6, ClientStepKeeps

\* All of a queue, as what is left of it.
LEMMA Whatever ==
  ASSUME WireTypes, NEW c \in Conns
  PROVE  0 \in 0 .. Len(down[c]) /\ down[c] = DropFirst(down[c], 0)
<1>1. down[c] \in Seq(ResponseHeads \cup BodyTokens(AnyTag)) /\ 0 \in 0 .. Len(down[c])
  BY Queues
<1> QED
  BY <1>1, DropEnds

\* A failed execution gives its connection up, or keeps it for the retry to drop.
LEMMA FailedKeeps ==
  ASSUME ConversationConstants, IInv, ~foreign, Failed, UNCHANGED <<serverVars, variant>>
  PROVE  IInv'
<1>1. /\ WireTypes /\ CallerTypes /\ HandleInv /\ ToldInv
      /\ cpc = "failed" /\ UNCHANGED <<up, number, attempt, sending, fresh, answer, toldClose>>
  BY DEF IInv, TypeOK, Failed
<1>2. CASE CanRetry
  <2>1. cpc' = "retry" /\ UNCHANGED <<down, handle, valid, open, onDestroy, idle, littered>>
    BY <1>2 DEF Failed
  <2> QED
    BY <1>1, <2>1, NothingLeft
<1>3. CASE ~CanRetry /\ handle = NoConnection
  <2>1. /\ cpc' = "rest" /\ handle' = NoConnection
        /\ UNCHANGED <<down, valid, open, onDestroy, idle, littered>>
    BY <1>3 DEF Failed
  <2> QED
    BY <1>1, <1>3, <2>1, NothingLeft
<1>4. CASE ~CanRetry /\ handle # NoConnection
  <2>1. PICK c : c = handle
    OBVIOUS
  <2>2. /\ c \in Conns /\ c \notin idle /\ idle \subseteq valid /\ onDestroy \subseteq Conns
        /\ c \in toldClose => c \notin valid
        /\ answer \in ResponseHeads \cup {NoAnswer}
    BY <1>1, <1>4, <2>1 DEF HandleInv, CallerTypes, ClientTypeOK, ToldInv
  <2>3. cpc' = "rest" /\ handle' = NoConnection
    BY <1>4 DEF Failed
  <2>4. CASE clientAsync
    <3>1. /\ InvalidateProxy(c) /\ Leave(c, <<>>) /\ UNCHANGED <<onDestroy, idle, littered>>
      BY <1>4, <2>1, <2>4 DEF Failed
    <3>2. /\ valid' = valid \ {c} /\ open' \subseteq open
          /\ \A d : d # c => (d \in open' <=> d \in open)
      BY <3>1, Invalidated
    <3>3. /\ down' \in [Conns -> Seq(ResponseHeads \cup BodyTokens(AnyTag))]
          /\ \A d \in Conns \ {c} : down'[d] = down[d]
          /\ \E m \in 0 .. Len(down[c]) : down'[c] = DropFirst(down[c], m)
      BY <1>1, <2>2, <3>1, Whatever, Left
    <3> QED
      BY <1>1, <2>1, <2>2, <2>3, <3>1, <3>2, <3>3, HandleLeft
  <2>5. CASE ~clientAsync
    <3>1. /\ DropProxy(c) /\ Leave(c, down[c])
          /\ littered' = IF c \in idle' THEN littered \cup {c} ELSE littered
      BY <1>4, <2>1, <2>5 DEF Failed
    <3>2. /\ valid' \subseteq valid /\ open' \subseteq open
          /\ \A d : d # c => (d \in open' <=> d \in open)
          /\ idle' = (IF c \in valid' THEN idle \cup {c} ELSE idle) /\ idle' \subseteq valid'
          /\ onDestroy' = onDestroy \ {c}
      BY <2>2, <3>1, Dropped
    <3>3. /\ down' \in [Conns -> Seq(ResponseHeads \cup BodyTokens(AnyTag))]
          /\ \A d \in Conns \ {c} : down'[d] = down[d]
          /\ \E m \in 0 .. Len(down[c]) : down'[c] = DropFirst(down[c], m)
      BY <1>1, <2>2, <3>1, Whatever, Left
    <3> QED
      BY <1>1, <2>1, <2>2, <2>3, <3>1, <3>2, <3>3, HandleLeft
  <2> QED
    BY <2>4, <2>5
<1> QED
  BY <1>2, <1>3, <1>4

\* A retry drops the answer and its connection.
LEMMA RetryKeeps ==
  ASSUME ConversationConstants, IInv, ~foreign, Retry, UNCHANGED <<serverVars, variant>>
  PROVE  IInv'
<1>1. /\ WireTypes /\ CallerTypes /\ HandleInv /\ ToldInv
      /\ cpc = "retry" /\ cpc' = "attempt" /\ handle' = NoConnection /\ answer' = NoAnswer
      /\ onDestroy' = onDestroy \ {handle}
      /\ UNCHANGED <<up, number, attempt, sending, idle, fresh, littered, toldClose>>
  BY DEF IInv, TypeOK, Retry
<1>2. CASE handle = NoConnection
  <2>1. UNCHANGED <<down, valid, open>>
    BY <1>2 DEF Retry
  <2> QED
    BY <1>1, <1>2, <2>1, NothingLeft
<1>3. CASE handle # NoConnection
  <2>1. PICK c : c = handle
    OBVIOUS
  <2>2. c \in Conns /\ c \notin idle /\ idle \subseteq valid /\ onDestroy \subseteq Conns
    BY <1>1, <1>3, <2>1 DEF HandleInv, CallerTypes, ClientTypeOK
  <2>3. InvalidateProxy(c) /\ Leave(c, down[c])
    BY <1>3, <2>1 DEF Retry
  <2>4. /\ valid' = valid \ {c} /\ open' \subseteq open
        /\ \A d : d # c => (d \in open' <=> d \in open)
    BY <2>3, Invalidated
  <2>5. /\ down' \in [Conns -> Seq(ResponseHeads \cup BodyTokens(AnyTag))]
        /\ \A d \in Conns \ {c} : down'[d] = down[d]
        /\ \E m \in 0 .. Len(down[c]) : down'[c] = DropFirst(down[c], m)
    BY <1>1, <2>2, <2>3, Whatever, Left
  <2> QED
    BY <1>1, <2>1, <2>2, <2>4, <2>5, HandleLeft
<1> QED
  BY <1>2, <1>3

\* A connection that goes back with its exchange finished is quiet.
LEMMA TakeKeeps ==
  ASSUME ConversationConstants, IInv, ~foreign, Take, UNCHANGED <<serverVars, variant>>
  PROVE  IInv'
<1>1. PICK c : c = handle
  OBVIOUS
<1> DEFINE queue == down[c]
           n == BodyEnd(answer, queue)
<1>2. /\ WireTypes /\ CallerTypes /\ HandleInv /\ ToldInv /\ WireInv
      /\ cpc = "answered" /\ cpc' = "rest" /\ handle' = NoConnection /\ answer' = NoAnswer
      /\ c \in Conns /\ c \notin idle /\ idle \subseteq valid /\ answer \in ResponseHeads
      /\ onDestroy \subseteq Conns /\ (c \in toldClose /\ c \in valid => c \in onDestroy)
      /\ DropProxy(c)
      /\ UNCHANGED <<up, number, attempt, sending, fresh, toldClose>>
  BY <1>1 DEF IInv, TypeOK, CallerInv, HandleInv, CallerTypes, ClientTypeOK, ToldInv, Take
<1>3. PICK reads \in {FALSE, HasBody(answer)} :
        /\ LET taken == IF ~reads THEN 0 ELSE IF n = 0 THEN Len(queue) ELSE Decoded(answer, queue) IN
           \E m \in taken .. Len(queue) : Leave(c, DropFirst(queue, m))
        /\ LET clean == answer \notin Empties /\ (HasBody(answer) => reads /\ Whole(answer, queue)) IN
           littered' = IF c \in idle' /\ ~clean THEN littered \cup {c} ELSE littered
  BY <1>1 DEF Take
<1>4. /\ queue \in Seq(ResponseHeads \cup BodyTokens(AnyTag)) /\ Len(queue) \in Nat
      /\ n \in 0 .. Len(queue)
      /\ (answer.coding = "chunked" /\ n > 0) =>
           \A i \in 1 .. Len(queue) : i < n => queue[i].kind = "piece"
  <2>1. queue \in Seq(ResponseHeads \cup BodyTokens(AnyTag)) /\ Len(queue) \in Nat
    BY <1>2, Queues
  <2>2. answer.pieces \in Nat
    BY <1>2 DEF ResponseHeads
  <2> HIDE DEF queue
  <2> QED
    BY <2>1, <2>2, BodyEndFacts
<1>5. PICK m \in 0 .. Len(queue) :
        /\ Leave(c, DropFirst(queue, m))
        /\ (reads /\ n > 0 /\ queue[n].kind = "last") => m >= n
  <2> DEFINE taken == IF ~reads THEN 0 ELSE IF n = 0 THEN Len(queue) ELSE Decoded(answer, queue)
  <2>1. PICK m \in taken .. Len(queue) : Leave(c, DropFirst(queue, m))
    BY <1>3
  <2>2. /\ Decoded(answer, queue) \in 0 .. Len(queue)
        /\ queue[n].kind = "last" => Decoded(answer, queue) = n
    <3>1. answer.pieces \in Nat
      BY <1>2 DEF ResponseHeads
    <3> QED
      BY <1>4, <3>1, DecodedFacts
  <2> HIDE DEF n, queue
  <2>3. taken \in 0 .. Len(queue) /\ ((reads /\ n > 0 /\ queue[n].kind = "last") => taken = n)
    BY <1>4, <2>2
  <2> HIDE DEF taken
  <2>4. m \in 0 .. Len(queue) /\ m >= taken
    BY <1>4, <2>3
  <2> QED
    BY <2>1, <2>3, <2>4
<1>6. /\ valid' \subseteq valid /\ open' \subseteq open
      /\ \A d : d # c => (d \in open' <=> d \in open)
      /\ c \in onDestroy => c \notin valid'
      /\ idle' = (IF c \in valid' THEN idle \cup {c} ELSE idle) /\ idle' \subseteq valid'
      /\ onDestroy' = onDestroy \ {c}
  BY <1>2, Dropped
<1>7. /\ down' \in [Conns -> Seq(ResponseHeads \cup BodyTokens(AnyTag))]
      /\ \A d \in Conns \ {c} : down'[d] = down[d]
      /\ \E k \in 0 .. Len(down[c]) : down'[c] = DropFirst(down[c], k)
  <2>1. m \in 0 .. Len(down[c]) /\ Leave(c, DropFirst(down[c], m))
    BY <1>5
  <2> HIDE DEF n, queue
  <2> QED
    BY <1>2, <2>1, Left
<1>8. ASSUME c \in idle', c \notin (littered \cup strayed)' PROVE Quiet(c)'
  <2>1. /\ answer \notin Empties /\ c \notin littered \cup strayed /\ OwnAnswer(c) /\ EndsLast(c)
        /\ HasBody(answer) => reads /\ Whole(answer, queue)
    <3>1. strayed' = strayed
      BY DEF serverVars
    <3>2. LET clean == answer \notin Empties /\ (HasBody(answer) => reads /\ Whole(answer, queue)) IN
          clean /\ c \notin littered
      <4> HIDE DEF queue
      <4> QED
        BY <1>3, <1>8
    <3>3. c \notin littered \cup strayed
      BY <1>8, <3>1, <3>2
    <3> QED
      BY <1>1, <1>2, <3>2, <3>3 DEF WireInv
  <2>2. Carried(c)
    BY <1>2, <1>6, <1>7, ReadingCarries
  <2>3. Quiet(c) => Quiet(c)'
    BY <1>2, <2>1, <2>2, LaneKept
  <2>4. CASE answer.coding = "chunked"
    <3>1. reads /\ Whole(answer, queue)
      BY <2>1, <2>4 DEF HasBody
    <3>2. n > 0 /\ queue[n].kind = "last" /\ n \in 1 .. Len(queue)
      <4>1. n > 0 /\ queue[n].kind = "last"
        BY <2>4, <3>1 DEF Whole
      <4> HIDE DEF queue, n
      <4> QED
        BY <1>4, <4>1
    <3>3. m >= n
      <4> HIDE DEF queue, n
      <4> QED
        BY <1>5, <3>1, <3>2
    <3>4. ServerQuiet(c) /\ \A j \in n + 1 .. Len(queue) : queue[j].kind = "piece"
      <4>1. Ending(queue[n])
        BY <3>2 DEF Ending
      <4> HIDE DEF n
      <4> QED
        BY <2>1, <3>2, <4>1 DEF EndsLast
    <3>5. AllPieces(DropFirst(queue, m))
      <4> HIDE DEF queue, n
      <4>1. /\ Len(DropFirst(queue, m)) = Len(queue) - m
            /\ \A i \in 1 .. Len(queue) - m : DropFirst(queue, m)[i] = queue[i + m]
        BY <1>4, DropFacts
      <4>2. \A i \in 1 .. Len(queue) - m : i + m \in n + 1 .. Len(queue)
        BY <1>4, <3>3
      <4> QED
        BY <3>4, <4>1, <4>2 DEF AllPieces
    <3>6. down'[c] = DropFirst(queue, m)
      <4>1. c \in valid'
        BY <1>2, <1>6, <1>8
      <4> QED
        BY <1>2, <1>5, <4>1 DEF Leave, WireTypes
    <3>7. ServerQuiet(c)'
      BY <1>2, <1>6, <3>4 DEF ServerQuiet, Busy, serverVars
    <3> QED
      BY <3>5, <3>6, <3>7 DEF Quiet
  <2>5. CASE answer.coding # "chunked"
    BY <2>1, <2>3, <2>5 DEF OwnAnswer
  <2> QED
    BY <2>4, <2>5
<1>9. /\ littered \subseteq littered' /\ littered' \subseteq littered \cup {c}
      /\ idle' \subseteq idle \cup {c} /\ onDestroy' \subseteq Conns
      /\ c \in toldClose => c \notin valid'
  BY <1>2, <1>3, <1>6
<1> QED
  BY <1>1, <1>2, <1>6, <1>7, <1>8, <1>9, HandleLeft

-----------------------------------------------------------------------------
(* The invariant.                                                            *)

\* Before anybody has connected the invariant holds.
LEMMA InitInv ==
  ASSUME ConversationConstants, ConversationInit
  PROVE  IInv
<1> USE DEF ConversationInit, WireInit, ServerInit, ClientInit
<1>1. TypeOK
  <2>1. WireTypes
    <3>1. <<>> \in Seq(RequestHeads \cup BodyTokens(Tags)) /\ <<>> \in Seq(ResponseHeads \cup BodyTokens(AnyTag))
      BY EmptySeq
    <3> QED
      BY <3>1 DEF WireTypes
  <2>2. TaskTypes
    BY DEF TaskTypes, ServerTypeOK, AnyTag
  <2>3. CallerTypes
    BY DEF CallerTypes, ClientTypeOK
  <2> QED
    BY <2>1, <2>2, <2>3 DEF TypeOK
<1>2. ServerInv
  BY DEF ServerInv, Asked, Formed, Settled, Kept, Lasting
<1>3. FreshInv
  BY DEF FreshInv, ConversationConstants
<1>4. HandleInv /\ ToldInv
  BY DEF HandleInv, ToldInv
<1>5. CallerInv
  <2>1. ASSUME NEW c \in Conns PROVE GoodForms(c) /\ OneRequest(c) /\ EndsLast(c)
    <3>1. Len(up[c]) = 0 /\ Len(down[c]) = 0 /\ ~Busy(c) /\ (\A i \in 1 .. 0 : FALSE)
      BY DEF Busy
    <3> QED
      BY <3>1 DEF GoodForms, OneRequest, EndsLast, Ending
  <2>2. WireInv
    BY <2>1 DEF WireInv
  <2> QED
    BY <2>2 DEF CallerInv
<1> QED
  BY <1>1, <1>2, <1>3, <1>4, <1>5 DEF IInv

\* Every step of the caller keeps the invariant.
LEMMA ClientKeeps ==
  ASSUME ConversationConstants, IInv, Client, UNCHANGED variant
  PROVE  IInv'
<1>1. ~foreign /\ ClientStep /\ UNCHANGED <<serverVars, variant>>
  BY DEF Client
<1>2. CASE Begin
  BY <1>1, <1>2, BeginKeeps
<1>3. CASE Attempt
  BY <1>1, <1>3, AttemptKeeps
<1>4. CASE Send
  BY <1>1, <1>4, SendKeeps
<1>5. CASE ReadHead
  BY <1>1, <1>5, AnswerReadKeeps
<1>6. CASE Judge
  BY <1>1, <1>6, JudgeKeeps
<1>7. CASE Failed
  BY <1>1, <1>7, FailedKeeps
<1>8. CASE Retry
  BY <1>1, <1>8, RetryKeeps
<1>9. CASE Take
  BY <1>1, <1>9, TakeKeeps
<1> QED
  BY <1>1, <1>2, <1>3, <1>4, <1>5, <1>6, <1>7, <1>8, <1>9 DEF ClientStep

\* The invariant is inductive.
LEMMA StepInv ==
  ASSUME ConversationConstants, IInv, [ConversationNext]_conversationVars
  PROVE  IInv'
<1>1. CASE UNCHANGED conversationVars
  <2>1. /\ UNCHANGED wireVars /\ UNCHANGED variant /\ UNCHANGED serverVars
        /\ UNCHANGED clientVars
    BY <1>1 DEF conversationVars
  <2>2. TypeOK'
    BY <2>1 DEF IInv, TypeOK, WireTypes, TaskTypes, CallerTypes, ServerTypeOK, ClientTypeOK,
                wireVars, serverVars, clientVars
  <2>3. ServerInv'
    BY <2>1, TasksWait DEF IInv, wireVars
  <2>4. FreshInv' /\ HandleInv' /\ ToldInv'
    BY <2>1 DEF IInv, FreshInv, HandleInv, ToldInv, Current, wireVars, serverVars, clientVars
  <2>5. CallerInv'
    <3>1. \A c \in Conns : Carried(c)
      BY <2>1, NothingCarried DEF IInv, TypeOK, wireVars
    <3> QED
      BY <2>1, <3>1, CallerWaits DEF IInv, CallerInv, foreign, clientVars, serverVars
  <2> QED
    BY <2>2, <2>3, <2>4, <2>5 DEF IInv
<1>2. CASE Client /\ UNCHANGED variant
  BY <1>2, ClientKeeps
<1>3. ASSUME NEW c \in Conns, Server(c) \/ Foreign(c) \/ Break(c), UNCHANGED variant
      PROVE  IInv'
  BY <1>3, ServerKeeps, ForeignKeeps, BreakKeeps
<1> QED
  BY <1>1, <1>2, <1>3 DEF ConversationNext

\* It holds in every reachable state.
LEMMA Invariance == ConversationSpec => []IInv
<1>1. ConversationInit => IInv
  BY InitInv, ConversationAssumption
<1>2. IInv /\ [ConversationNext]_conversationVars => IInv'
  BY StepInv, ConversationAssumption
<1> QED
  BY <1>1, <1>2, PTL DEF ConversationSpec

-----------------------------------------------------------------------------
(* Theorems.                                                                 *)

\* All that the caller and the tasks hold, and all that is on its way between them, is of
\* the right kind.
THEOREM ConversationTypes == ConversationSpec => []TypeOK
<1>1. IInv => TypeOK
  BY DEF IInv
<1> QED
  BY <1>1, Invariance, PTL

\* A response is the answer to the very attempt that the caller waits for
\* (HttpRequestExecutor::executeOnce, RequestExecutor::execute): whatever was retried
\* before, broke, or still was on its way then - but on a connection where an answer
\* or a chunked request was left unread, or after an answer with no body.
THEOREM AnswersAreOwn == ConversationSpec => []AnswersOwnRequest
<1>1. IInv => AnswersOwnRequest
  <2> SUFFICES ASSUME IInv, cpc \in {"got", "answered"}, handle \notin littered \cup strayed,
                      answer \notin Empties
               PROVE  answer.tag = [number |-> number, attempt |-> attempt]
    BY DEF AnswersOwnRequest
  <2>1. WireInv /\ handle \in Conns
    BY DEF IInv, CallerInv, HandleInv
  <2>2. OwnAnswer(handle)
    BY <2>1 DEF WireInv
  <2> QED
    BY <2>2 DEF OwnAnswer, Current
<1> QED
  BY <1>1, Invariance, PTL

\* A connection whose server said "close" carries no other request, and none is in use
\* while the provider holds it (ConnectionProxy, invalidateOnDestroy).
THEOREM ClosedAreLeft == ConversationSpec => []ClosedNotReused
<1>1. IInv => ClosedNotReused
  BY DEF IInv, HandleInv, ToldInv, ClosedNotReused
<1> QED
  BY <1>1, Invariance, PTL

\* HttpProcessor answers what it takes for a head, the rest of an unread chunked body
\* included, before it reads the next one, and each once.
THEOREM HeadsAreAnswered == ConversationSpec => OneAnswerPerHead
<1>1. ASSUME IInv
      PROVE  \A c \in Conns :
               /\ (TakesHead(c) /\ c \in open) => due[c] = NoTag
               /\ (SendsHead(c) /\ ~serverAsync) => due[c] # NoTag /\ due[c] = request[c].tag
  <2> SUFFICES ASSUME NEW c \in Conns
               PROVE  /\ (TakesHead(c) /\ c \in open) => due[c] = NoTag
                      /\ (SendsHead(c) /\ ~serverAsync)
                           => due[c] # NoTag /\ due[c] = request[c].tag
    OBVIOUS
  <2>1. Asked(c) /\ Settled(c)
    BY <1>1 DEF IInv, ServerInv
  <2>2. \A req \in RequestHeads : req.tag # NoTag
    BY ConversationAssumption DEF RequestHeads, ConversationConstants
  <2> QED
    BY <2>1, <2>2 DEF Asked, Settled, TakesHead, SendsHead
<1>2. IInv => [\A c \in Conns :
                 /\ (TakesHead(c) /\ c \in open) => due[c] = NoTag
                 /\ (SendsHead(c) /\ ~serverAsync) => due[c] # NoTag /\ due[c] = request[c].tag
              ]_<<pc, due>>
  BY <1>1
<1> QED
  BY <1>2, Invariance, PTL DEF OneAnswerPerHead

\* After the server announced "close" it reads no head from the connection, after
\* "keep-alive" it does not end it (considerConnectionState and the loop of the tasks).
THEOREM AnnouncedIsKept == ConversationSpec => AnnouncedIsDone
<1>1. ASSUME IInv, [ConversationNext]_conversationVars, NEW c \in Conns
      PROVE  /\ TakesHead(c) => said[c] \in {"nothing", "keep-alive", "as the user wants"}
             /\ (pc[c] = "done" /\ pc'[c] = "gone" /\ c \in open)
                  => said[c] \in {"close", "as the user wants"}
  <2>1. Kept(c)
    BY <1>1 DEF IInv, ServerInv
  <2>2. TakesHead(c) => said[c] \in {"nothing", "keep-alive", "as the user wants"}
    BY <2>1 DEF Kept, TakesHead, Lasting
  <2>3. ASSUME pc[c] = "done", pc'[c] = "gone", c \in open
        PROVE  said[c] \in {"close", "as the user wants"}
    <3>1. PICK d \in Conns : ServerStep(d) /\ UNCHANGED variant
      <4>1. CASE UNCHANGED serverVars
        BY <2>3, <4>1 DEF serverVars
      <4>2. UNCHANGED serverVars \/ \E d \in Conns : ServerStep(d) /\ UNCHANGED variant
        BY <1>1 DEF ConversationNext, conversationVars, Client, Server, Foreign, Break,
                    ForeignConnect, ForeignSend, ForeignTake, ForeignClose
      <4> QED
        BY <4>1, <4>2
    <3>2. Elsewhere(d)
      BY <1>1, <3>1, ServerStepKeeps, ConversationAssumption DEF IInv, TypeOK
    <3>3. d = c
      BY <2>3, <3>2 DEF Elsewhere
    <3>4. Done(c)
      BY <2>3, <3>1, <3>3 DEF ServerStep, Start, TaskReadHead, CoroutineReadHead, Route,
                              Endpoint, Intercept, SendHead, SendBody, Released
    <3>5. state[c] # "ALIVE"
      BY <1>1, <2>3, <3>4 DEF Done, Goto, Finish, IInv, TypeOK, TaskTypes, ServerTypeOK
    <3> QED
      BY <2>1, <2>3, <3>5 DEF Kept
  <2> QED
    BY <2>2, <2>3
<1>2. IInv /\ [ConversationNext]_conversationVars
        => [\A c \in Conns :
              /\ TakesHead(c) => said[c] \in {"nothing", "keep-alive", "as the user wants"}
              /\ (pc[c] = "done" /\ pc'[c] = "gone" /\ c \in open)
                   => said[c] \in {"close", "as the user wants"}
           ]_<<pc, due>>
  BY <1>1
<1> QED
  BY <1>2, Invariance, PTL DEF AnnouncedIsDone, ConversationSpec

=============================================================================
