--------------------------- MODULE ServerConnection ---------------------------
(***************************************************************************)
(* One connection of the HTTP server: the job Server:accept starts for a   *)
(* client, with Client, Request and Response (src/wtk/server.lua) on top   *)
(* of recv and send (src/wtk/server.c).  The peer may pipeline requests,   *)
(* stop in the middle of one and go away at any moment; the kernel takes   *)
(* as much of a write as it likes.  The error handler runs as the message  *)
(* handler of xpcall (wtk.try), where a coroutine cannot yield.            *)
(*                                                                         *)
(* A step is one call of recv or send, so the peer moves between any two   *)
(* of them.  A coroutine that waits for its socket is one without a step   *)
(* to take; that it is resumed is what JobScheduler promises.              *)
(*                                                                         *)
(* Bytes are grouped into pieces.  The header of a request is a "head",    *)
(* which ends with the first half of CR LF CR LF, and a "tail", the other  *)
(* half; its body is Body pieces.  A response is a "head" and a "body".    *)
(***************************************************************************)
EXTENDS Naturals, Sequences, FiniteSets, Positions

CONSTANTS
  N,           \* bound: requests the peer sends
  Body,        \* pieces in the body of a request that has one
  Packet,      \* pieces one recv takes at most (PACKET_SIZE)
  Kinds,       \* of requests: "get"; "post", and "delete", which has a body; and
               \* "unsized", a POST or PUT without a number as content-length
  PipeIgnored  \* SIGPIPE is ignored: an HTTP client has connected before, or the
               \* program has set a handler for a signal

ASSUME SizeAssumption ==
  /\ N \in Nat /\ Body \in Nat \ {0} /\ Packet \in Nat \ {0}
KindSet == {"get", "post", "delete", "unsized"}
ASSUME KindsAssumption == Kinds \subseteq KindSet
ASSUME PipeAssumption == PipeIgnored \in BOOLEAN

VARIABLES
  peer,      \* "open", "gone": closed or reset, or "lost" with another error
  rest,      \* what the peer has yet to send of its current request
  inflight,  \* sent, and not yet received by the server
  buffer,    \* client.buffer, <<>> when it is nil
  closed,    \* client.closed
  pc,        \* where the job is
  partial,   \* request.buffer, concatenated
  req,       \* the request being handled
  res,       \* the response being written, and the place to return to
  out,       \* what is still to be written of the current write_block
  wire,      \* pieces the kernel has taken for the peer
  sent,      \* history: every piece the peer has sent
  taken,     \* history: every piece that belongs to a header or a body read
  split,     \* history: a terminator came in two packets
  strayed,   \* history: a body was left in the stream
  cut,       \* history: a response was begun and not completed
  miscounted \* history: a request was answered twice, or may never be

conn == <<inflight, buffer, closed>>
peers == <<peer, rest, sent>>
response == <<res, out, wire>>
history == <<split, strayed, cut, miscounted>>
vars == <<peers, conn, pc, partial, req, response, taken, history>>

HasBody(k) == k \in {"post", "delete"}
Piece(i, k, part) == [id |-> i, kind |-> k, part |-> part]
Message(i, k) ==
  <<Piece(i, k, "head"), Piece(i, k, "tail")>>
  \o [n \in 1..(IF HasBody(k) THEN Body ELSE 0) |-> Piece(i, k, "body")]

Pieces == [id : 0..N, kind : KindSet, part : {"head", "tail", "body"}]

NoRequest == [id |-> 0, kind |-> "get", left |-> 0, responded |-> FALSE]
NoResponse == [shape |-> "sized", chunk |-> FALSE, back |-> "drain"]

Init ==
  /\ peer = "open" /\ rest = <<>> /\ sent = <<>>
  /\ inflight = <<>> /\ buffer = <<>> /\ closed = FALSE
  /\ pc = "parse" /\ partial = <<>> /\ req = NoRequest
  /\ res = NoResponse /\ out = <<>> /\ wire = <<>>
  /\ taken = <<>>
  /\ split = FALSE /\ strayed = FALSE /\ cut = FALSE /\ miscounted = FALSE

-----------------------------------------------------------------------------
(* The peer *)

Requests == IF sent = <<>> THEN 0 ELSE sent[Len(sent)].id

Deliver(m) == /\ inflight' = Append(inflight, Head(m))
              /\ sent' = Append(sent, Head(m))
              /\ rest' = Tail(m)

\* What is sent to a client that is closed is never received.
PeerSends ==
  /\ peer = "open" /\ ~closed
  /\ \/ rest # <<>> /\ Deliver(rest)
     \/ /\ rest = <<>> /\ Requests < N
        /\ \E k \in Kinds : Deliver(Message(Requests + 1, k))
  /\ UNCHANGED <<peer, buffer, closed, pc, partial, req, response, taken,
                 history>>

PeerGoes ==
  /\ peer = "open" /\ peer' \in {"gone", "lost"}
  /\ UNCHANGED <<rest, sent, conn, pc, partial, req, response, taken, history>>

-----------------------------------------------------------------------------
(* Client:read and recv *)

Least(a, b) == IF a < b THEN a ELSE b
First(s, n) == SubSeq(s, 1, Least(n, Len(s)))
After(s, n) == SubSeq(s, Least(n, Len(s)) + 1, Len(s))

\* Mutant of CanRead: the end of the stream is taken for a lack of data.
CanReadData == buffer # <<>> \/ closed \/ inflight # <<>>

\* Client:read has an answer: no need to yield.
CanRead == buffer # <<>> \/ closed \/ inflight # <<>> \/ peer # "open"

\* What Client:read(n) answers, <<>> for nil: pieces left over from the
\* previous request come first, and are all there is for this call.
Data(n) == First(IF buffer # <<>> THEN buffer
                 ELSE IF closed THEN <<>> ELSE inflight, n)

\* The pieces it leaves in client.buffer.
LeftOver(n) == After(buffer, n)

\* Mutant of Receive: the end of the stream does not mark the client as closed.
ReceiveKeepsOpen(n) ==
  /\ CanRead
  /\ inflight' = IF buffer = <<>> /\ ~closed THEN After(inflight, n) ELSE inflight
  /\ closed' = closed

\* The effect on the socket: recv is only called without a buffer, and
\* answers "closed" or "reset" when the peer is gone and nothing is left.
\* Another error it reports once, and Client:read raises it: in a handler that
\* is HandlerRaises, while parsing ParseFails.
Receive(n) ==
  /\ CanRead
  /\ inflight' = IF buffer = <<>> /\ ~closed THEN After(inflight, n) ELSE inflight
  /\ closed' = (closed \/ (buffer = <<>> /\ inflight = <<>>))

-----------------------------------------------------------------------------
(* Request:parse_headers *)

\* A whole terminator between p and p + 1.
EndsAt(s, p) == /\ p + 1 \in DOMAIN s
                /\ s[p].part = "head" /\ s[p + 1].part = "tail"
Complete(s) == \E p \in DOMAIN s : EndsAt(s, p)
HeaderEnd(s) == 1 + CHOOSE p \in DOMAIN s :
                      EndsAt(s, p) /\ \A q \in DOMAIN s : EndsAt(s, q) => p <= q

\* Only the last packet is searched for the terminator.
Missed(packet) == /\ partial # <<>> /\ partial[Len(partial)].part = "head"
                  /\ packet[1].part = "tail" /\ ~Complete(packet)

ReadHeader ==
  /\ pc = "parse" /\ ~closed /\ Receive(Packet) /\ Data(Packet) # <<>>
  /\ ~Complete(Data(Packet))
  /\ partial' = partial \o Data(Packet)
  /\ split' = (split \/ Missed(Data(Packet)))
  /\ buffer' = LeftOver(Packet)
  /\ UNCHANGED <<peers, pc, req, response, taken, strayed, cut, miscounted>>

\* The pattern for the request line: a header that follows pieces of a body
\* either is malformed, or has a method nobody knows.
Parsed(s) ==
  LET h == s[HeaderEnd(s) - 1]
      n == IF HasBody(h.kind) THEN Body ELSE 0
  IN IF HeaderEnd(s) = 2
     THEN [id |-> h.id, kind |-> h.kind, left |-> n, responded |-> FALSE]
     ELSE NoRequest

\* Mutant of Remainder: parse_headers drops what follows the header.
RemainderDropped(s) == <<>>

\* What follows the header replaces client.buffer, if there is anything.
Remainder(s) ==
  LET more == SubSeq(s, HeaderEnd(s) + 1, Len(s))
  IN IF more # <<>> THEN more ELSE LeftOver(Packet)

ParseRequest ==
  /\ pc = "parse" /\ ~closed /\ Receive(Packet) /\ Complete(Data(Packet))
  /\ LET all == partial \o Data(Packet)
     IN /\ buffer' = Remainder(all)
        /\ taken' = taken \o SubSeq(all, 1, HeaderEnd(all))
        /\ req' = Parsed(all)
  /\ partial' = <<>>
  /\ pc' = "handler"
  /\ UNCHANGED <<peers, response, history>>

\* A header that follows pieces of a body, or that of a POST without a
\* content-length.
Malformed(s) == HeaderEnd(s) > 2 \/ s[1].kind = "unsized"

\* parse_headers raises: the client closed in the middle of a header or was
\* lost, or the header is malformed.  Without a request the error handler
\* closes the client.
ParseFails ==
  /\ pc = "parse" /\ ~closed /\ CanRead
  /\ \/ Data(Packet) = <<>> /\ partial # <<>>
     \/ Complete(Data(Packet)) /\ Malformed(partial \o Data(Packet))
  /\ closed' = TRUE
  /\ pc' = "done"
  /\ UNCHANGED <<peers, inflight, buffer, partial, req, response, taken, history>>

\* Client:read answered nil between two requests.
NoMoreRequests ==
  /\ pc = "parse" /\ (closed \/ (CanRead /\ Data(Packet) = <<>> /\ partial = <<>>))
  /\ closed' = TRUE
  /\ pc' = "done"
  /\ UNCHANGED <<peers, inflight, buffer, partial, req, response, taken, history>>

-----------------------------------------------------------------------------
(* Request:read and Request:body *)

\* Mutant of ReadBody: the read asks for a whole packet, and not for the rest
\* of the body.
ReadBodyTooMuch(fails) ==
  /\ req.left > 0 /\ Receive(Packet)
  /\ buffer' = LeftOver(Packet)
  /\ taken' = taken \o Data(Packet)
  /\ req' = [req EXCEPT !.left = @ - Len(Data(Packet))]
  /\ pc' = IF Data(Packet) = <<>> THEN fails ELSE pc
  /\ UNCHANGED <<peers, partial, response, history>>

\* One Client:read of at most what is left of the body; a nil raises an error,
\* which is caught at fails.
ReadBody(fails) ==
  /\ req.left > 0 /\ Receive(req.left)
  /\ buffer' = LeftOver(req.left)
  /\ taken' = taken \o Data(req.left)
  /\ req' = [req EXCEPT !.left = @ - Len(Data(req.left))]
  /\ pc' = IF Data(req.left) = <<>> THEN fails ELSE pc
  /\ UNCHANGED <<peers, partial, response, history>>

\* The handler reads, in or outside Request:body.
HandlerReads == pc = "handler" /\ ReadBody("caught")

\* The job clears out the body after the handler, outside of its try: an error
\* there ends the coroutine.
DrainReads == pc = "drain" /\ req.kind = "post" /\ ReadBody("done")

\* Request:body reads nothing unless the method is POST or PUT.
Drained ==
  /\ pc = "drain"
  /\ \/ req.kind = "post" /\ req.left = 0
     \/ req.kind \notin {"post", "unsized"}
  /\ strayed' = (strayed \/ req.left > 0)
  /\ pc' = "parse"
  /\ req' = NoRequest
  /\ UNCHANGED <<peers, conn, partial, response, taken, split, cut, miscounted>>

\* The coroutine ends with an error and the client stays as it is: the
\* content-length is no number, or recv reports that the peer is lost.
DrainFails ==
  /\ pc = "drain"
  /\ \/ req.kind = "unsized"
     \/ /\ req.kind = "post" /\ req.left > 0 /\ ~closed
        /\ peer = "lost" /\ buffer = <<>> /\ inflight = <<>>
  /\ pc' = "done"
  /\ miscounted' = TRUE
  /\ UNCHANGED <<peers, conn, partial, req, response, taken, split, strayed, cut>>

-----------------------------------------------------------------------------
(* Request:respond, Response:write and Client:write_block *)

\* The bodies a response may have: a string; chunks of a function, with a
\* content-length or without one; none.
Shapes == {"sized", "stream", "raw", "bare"}

\* Response:write does nothing for a client that is closed.
Respond(shape, back) ==
  /\ req' = [req EXCEPT !.responded = TRUE]
  /\ res' = IF closed THEN NoResponse
            ELSE [shape |-> shape, chunk |-> shape \in {"stream", "raw"}, back |-> back]
  /\ out' = IF closed THEN <<>>
            ELSE IF shape = "sized"
                 THEN <<[id |-> req.id, part |-> "head"], [id |-> req.id, part |-> "body"]>>
                 ELSE <<[id |-> req.id, part |-> "head"]>>
  /\ pc' = IF closed THEN back ELSE "respond"
  /\ UNCHANGED <<peers, conn, partial, wire, taken, split, strayed, cut>>

\* Nothing keeps a handler from responding twice (bound: once a connection).
HandlerResponds ==
  /\ pc = "handler" /\ (req.responded => ~miscounted)
  /\ miscounted' = (miscounted \/ req.responded)
  /\ \E s \in Shapes : Respond(s, "handler")

\* write_header raises when the response has a connection or a date header of
\* its own, because its pattern for them is malformed: nothing is written.
RespondRaises ==
  /\ pc = "handler" /\ ~closed
  /\ req' = [req EXCEPT !.responded = TRUE]
  /\ pc' = "caught" /\ miscounted' = TRUE
  /\ UNCHANGED <<peers, conn, partial, response, taken, split, strayed, cut>>

\* Mutant of Unsent: after a partial write the whole block is sent again.
UnsentResent(n) == IF n < Len(out) THEN out ELSE <<>>
Unsent(n) == SubSeq(out, n + 1, Len(out))

\* send takes some of the block; write_block goes on with the rest.
Send ==
  /\ pc = "respond"
  /\ \E n \in 1..Len(out) : wire' = wire \o First(out, n) /\ out' = Unsent(n)
  /\ UNCHANGED <<peers, conn, pc, partial, req, res, taken, history>>

\* "reset" and "pipe" close the client; the rest of the response is dropped.
\* EPIPE comes with a signal, which ends the process unless it is ignored.
SendFails ==
  /\ pc = "respond" /\ out # <<>> /\ peer # "open"
  /\ closed' = TRUE
  /\ out' = <<>>
  /\ \/ pc' = pc
     \/ ~PipeIgnored /\ pc' = "killed"
  /\ UNCHANGED <<peers, inflight, buffer, partial, req, res, wire, taken, history>>

\* write_block raises: send answers "timeout" to an error response, which is
\* written where the coroutine cannot yield, or an error of its own once the
\* peer is lost.  An error in the error handler is caught and logged.
SendRaises ==
  /\ pc = "respond" /\ out # <<>>
  /\ res.back = "drain" \/ peer = "lost"
  /\ out' = <<>> /\ res' = NoResponse
  /\ cut' = TRUE
  /\ pc' = IF res.back = "drain" THEN "drain" ELSE "caught"
  /\ UNCHANGED <<peers, conn, partial, req, wire, taken, split, strayed, miscounted>>

\* Response:write asks the function for the next chunk.  It may raise, or have
\* no more although content-length promised it.
Chunk ==
  /\ pc = "respond" /\ out = <<>> /\ res.chunk
  /\ \/ /\ ~closed /\ out' = <<[id |-> req.id, part |-> "body"]>>
        /\ res' = [res EXCEPT !.chunk = FALSE]
        /\ UNCHANGED <<pc, cut>>
     \/ /\ pc' = "caught" /\ res' = NoResponse
        /\ cut' = TRUE /\ out' = out
     \/ /\ res' = [res EXCEPT !.chunk = FALSE]
        /\ cut' = TRUE /\ UNCHANGED <<out, pc>>
  /\ UNCHANGED <<peers, conn, partial, req, wire, taken, split, strayed, miscounted>>

\* The response is over.  Without a length only the end of the connection
\* tells the peer so.
Finish ==
  /\ pc = "respond" /\ out = <<>> /\ ~res.chunk
  /\ closed' = (closed \/ res.shape \in {"raw", "bare"})
  /\ pc' = res.back
  /\ res' = NoResponse
  /\ UNCHANGED <<peers, inflight, buffer, partial, req, out, wire, taken, history>>

-----------------------------------------------------------------------------
(* The handler and the error handler *)

\* A handler that has not responded is as good as none: a 404.
HandlerReturns ==
  /\ pc = "handler"
  /\ pc' = IF req.responded THEN "drain" ELSE "caught"
  /\ UNCHANGED <<peers, conn, partial, req, response, taken, history>>

HandlerRaises ==
  /\ pc = "handler" /\ pc' = "caught"
  /\ UNCHANGED <<peers, conn, partial, req, response, taken, history>>

\* Client:close.
HandlerCloses ==
  /\ pc = "handler" /\ ~closed
  /\ closed' = TRUE
  /\ UNCHANGED <<peers, inflight, buffer, pc, partial, req, response, taken, history>>

\* Mutant of HandleError: an error is answered even after a response has begun.
HandleErrorAlways ==
  pc = "caught" /\ Respond("sized", "drain") /\ UNCHANGED miscounted

\* The error handler responds, unless the handler did.  It raises itself, before
\* it responds, when the error has a code nobody named and no message.
HandleError ==
  /\ pc = "caught"
  /\ \/ /\ ~req.responded /\ Respond("sized", "drain")
        /\ UNCHANGED miscounted
     \/ /\ pc' = "drain"
        /\ miscounted' = (miscounted \/ ~req.responded)
        /\ UNCHANGED <<peers, conn, partial, req, response, taken, split, strayed, cut>>

-----------------------------------------------------------------------------
Peer == PeerSends \/ PeerGoes
Parse == ReadHeader \/ ParseRequest \/ ParseFails \/ NoMoreRequests
Handle == HandlerReads \/ HandlerResponds \/ RespondRaises \/ HandlerReturns \/ HandlerRaises
          \/ HandlerCloses \/ HandleError
Write == Send \/ SendFails \/ SendRaises \/ Chunk \/ Finish
Drain == DrainReads \/ Drained \/ DrainFails
Job == Parse \/ Handle \/ Write \/ Drain

Next == Peer \/ Job
Spec == Init /\ [][Next]_vars

\* The loop resumes the job whenever its socket is ready (JobScheduler), and
\* the peer reads what is sent to it; a peer that has begun a request ends it.
FairSpec == Spec /\ WF_vars(Job) /\ WF_vars(rest # <<>> /\ PeerSends)

-----------------------------------------------------------------------------
TypeOK ==
  /\ peer \in {"open", "gone", "lost"}
  /\ {rest, sent, inflight, buffer, partial, taken} \subseteq Seq(Pieces)
  /\ closed \in BOOLEAN
  /\ pc \in {"parse", "handler", "caught", "respond", "drain", "done", "killed"}
  /\ req \in [id : 0..N, kind : KindSet, left : 0..Body, responded : BOOLEAN]
  /\ res \in [shape : Shapes, chunk : BOOLEAN, back : {"handler", "drain"}]
  /\ {out, wire} \subseteq Seq([id : 0..N, part : {"head", "body"}])
  /\ {split, strayed, cut, miscounted} \subseteq BOOLEAN

\* The stream is read as it was sent: nothing is lost, duplicated or read out
\* of order between packets, client.buffer and bodies, however requests and
\* packets overlap (server.lua:145-162, 302-312).  The exception: after a
\* terminator in two packets was missed, so much can follow the header that
\* client.buffer is replaced before it was used up.
NothingLost ==
  ~split => taken \o partial \o buffer \o inflight = sent

\* Every request is parsed at its first byte, and a body is read by the request
\* it was sent with, unless a body was left in the stream: that of a DELETE that
\* its handler did not read (server.lua:172-192, 383).
BodiesTheirOwn ==
  ~split /\ ~strayed =>
    /\ pc \in {"handler", "caught", "respond", "drain"} =>
         /\ taken # <<>> /\ req.id # 0
         /\ taken[Len(taken)].id = req.id
    /\ pc = "parse" /\ taken # <<>> => taken[Len(taken)].part = "body"
                                       \/ ~HasBody(taken[Len(taken)].kind)

\* Responses are whole: between two heads there is a body, and nothing comes
\* twice, in spite of partial writes, of peers that go away, of handlers that
\* respond twice and of errors after the response was begun (server.lua:94-122,
\* 285-301, 345-358).  The exceptions: a body whose function fails to deliver
\* the chunks it promised, and an error response the kernel did not take at once.
ResponsesWhole ==
  ~cut => \A p \in DOMAIN wire : wire[p].part = IF p % 2 = 1 THEN "head" ELSE "body"

\* A job that ends, with or without an error, leaves no connection behind that
\* is open and served by nobody (server.lua:366-385).  The exceptions are those
\* of the draining outside try (server.lua:383): a request whose content-length
\* is no number, and a peer that is lost in the middle of a body.
EndsClosed ==
  pc = "done" /\ ~closed =>
    \/ req.kind = "unsized"
    \/ peer = "lost" /\ req.kind = "post" /\ req.left > 0

\* A peer that goes away ends the job, whatever it was doing.
GoneIsNoticed == peer # "open" ~> pc \in {"done", "killed"}

Arrivals == {p \in DOMAIN sent : sent[p].part = "tail"}
Answers == {p \in DOMAIN wire : wire[p].part = "head"}

Exchange == INSTANCE HttpExchange WITH
  arrived <- Cardinality(Arrivals),
  answered <- [k \in 1..Cardinality(Answers) |-> wire[Kth(Answers, k)].id],
  open <- ~closed,
  instep <- ~split /\ ~strayed /\ ~cut /\ ~miscounted

\* The connection keeps the promise of HttpExchange: responses are in the order
\* of their requests, one for each, none after the connection was closed, and
\* every request that has arrived is answered, unless the connection ends or the
\* two sides are out of step: after a missed terminator, a stray body, a response
\* that failed after it was begun, a handler that responded twice or whose
\* response or error could not be written, or a body that could not be drained
\* (server.lua:361-390).
ImplementsExchange == Exchange!Spec
=============================================================================
