------------------------------ MODULE HttpClient ------------------------------
(***************************************************************************)
(* The HTTP client of src/wtk/client.c: the socket (f_client_socket_openk, *)
(* recvk and sendk), the reading of responses, and the client's request    *)
(* with its pool of connections and its redirects, which are Lua embedded  *)
(* in the same file.  Several jobs, and the main program, use one client.  *)
(*                                                                         *)
(* A step is one call of the socket or one decision between two of them;   *)
(* other jobs only run when the current one yields, servers at any moment. *)
(* Names are resolved, and TLS is spoken, by code that is external here.   *)
(*                                                                         *)
(* Bytes are grouped into pieces: a request is a "head" and perhaps a      *)
(* "body"; a response is a "head" and "data", in chunks with the lines     *)
(* "size" and "end" and an empty line, "crlf", after each.                 *)
(***************************************************************************)
EXTENDS Naturals, Sequences, FiniteSets

CONSTANTS
  Jobs,          \* coroutines that use the client, or the main program
  Uses,          \* how a program may use the client: see UseAssumption
  Nobody,        \* no job is running
  Hosts,
  Https,         \* the hosts whose URLs are https
  Links,         \* bound: connections that something still refers to
  Calls,         \* bound: calls of client:request
  Codes,         \* what servers answer: "ok", "redirect", "error"
  Body           \* pieces of data in a body

ASSUME JobAssumption == Nobody \notin Jobs
\* Who calls, who of them is the main program and cannot yield, which hosts are
\* called (redirects may lead to others), whether requests have a body,
\* options.max_redirects, and how the servers tell where a body ends.
ASSUME UseAssumption ==
  Uses \subseteq [jobs : SUBSET Jobs, main : SUBSET Jobs, hosts : SUBSET Hosts,
                  bodies : SUBSET BOOLEAN, redirects : Nat,
                  framings : SUBSET {"sized", "chunked", "open"}]
ASSUME HostAssumption == Https \subseteq Hosts /\ Hosts # {}
ASSUME FiniteAssumption == IsFiniteSet(Jobs) /\ IsFiniteSet(Hosts) /\ IsFiniteSet(Links)
ASSUME LinkAssumption == /\ 0 \notin Links
                         /\ Cardinality(Links) >= Cardinality(Hosts) + Cardinality(Jobs)
ASSUME BoundAssumption == /\ Calls \in Nat /\ Body \in Nat \ {0}
ASSUME ServerAssumption == Codes \subseteq {"ok", "redirect", "error"}

VARIABLES
  use,      \* how the program uses the client
  begun,    \* how many calls there have been
  call,     \* the call of a job: what it asks for
  pc,       \* where it is
  link,     \* the connection it uses, 0 for none
  res,      \* the response it reads
  waits,    \* the connection it has yielded, 0 for none
  last,     \* how its last call ended
  current,  \* the running job
  loop,     \* "alive", or "ended" by an error
  length,   \* the default headers, which calls share, have a content-length
  pool,     \* client.connections
  conn,     \* the connections
  excuse    \* history: what put the two sides of a connection out of step

jobs == <<call, pc, link, res, last>>
schedule == <<waits, current, loop>>
vars == <<use, begun, jobs, schedule, length, pool, conn, excuse>>

-----------------------------------------------------------------------------
NoCall == [id |-> 0, host |-> CHOOSE h \in Hosts : TRUE, body |-> FALSE,
           own |-> FALSE, hop |-> 0]
NoResponse == [framing |-> "sized", size |-> 0, read |-> 0, got |-> <<>>]
NoResult == [call |-> NoCall, got |-> <<>>, raised |-> "no", clean |-> FALSE]

\* calloc: blocking is 0, although the descriptor of socket() blocks until the
\* flag has been set to 1 and to 0 again.
NewConn == [state |-> "resolving", blocking |-> FALSE, nonblock |-> FALSE,
            retained |-> <<>>, inbox |-> <<>>, outbox |-> <<>>, gone |-> FALSE]

Init ==
  /\ use \in Uses
  /\ begun = 0
  /\ call = [j \in Jobs |-> NoCall]
  /\ pc = [j \in Jobs |-> "idle"]
  /\ link = [j \in Jobs |-> 0]
  /\ res = [j \in Jobs |-> NoResponse]
  /\ waits = [j \in Jobs |-> 0]
  /\ last = [j \in Jobs |-> NoResult]
  /\ current = Nobody
  /\ loop = "alive"
  /\ length = FALSE
  /\ pool = [h \in Hosts |-> 0]
  /\ conn = [c \in Links |-> NewConn]
  /\ excuse = [c \in Links |-> {}]

-----------------------------------------------------------------------------
(* Servers *)

\* Where a call has its request behind it.
Reading == {"response", "data", "line", "crlf", "last"}

\* The connections that something refers to.
Used == {pool[h] : h \in Hosts} \cup {link[j] : j \in Jobs}

Piece(id, hop, part, code, framing) ==
  [id |-> id, hop |-> hop, part |-> part, code |-> code, framing |-> framing]

Datas(r) == [n \in 1..Body |-> Piece(r.id, r.hop, "data", "ok", "sized")]
Line(r, part) == <<Piece(r.id, r.hop, part, "ok", "sized")>>

Response(r, code, framing) ==
  <<Piece(r.id, r.hop, "head", code, framing)>>
  \o IF framing # "chunked" THEN Datas(r)
     ELSE Line(r, "size") \o Datas(r) \o Line(r, "crlf") \o Line(r, "end") \o Line(r, "crlf")

\* The pieces that make up the first request, 0 if it has not arrived: with a
\* content-length, whatever follows the head is taken for its body.
Whole(out) ==
  IF out = <<>> \/ out[1].part # "head" THEN 0
  ELSE IF ~out[1].length THEN 1
  ELSE IF Len(out) >= 2 /\ out[2].part # "torn" THEN 2 ELSE 0

After(s, n) == SubSeq(s, n + 1, Len(s))

\* Only a client that reads can tell when a response has come.  A body without
\* a length ends with the connection.
ServerAnswers(c) ==
  /\ \E j \in Jobs : link[j] = c /\ pc[j] \in Reading
  /\ conn[c].state = "ready" /\ ~conn[c].gone /\ Whole(conn[c].outbox) > 0
  /\ \E code \in Codes, framing \in use.framings :
       conn' = [conn EXCEPT
         ![c].inbox = @ \o Response(conn[c].outbox[1], code, framing),
         ![c].outbox = After(@, Whole(@)),
         ![c].gone = (framing = "open")]
  /\ UNCHANGED <<use, begun, jobs, schedule, length, pool, excuse>>

-----------------------------------------------------------------------------
(* The coroutine of a job: running, yielding, and the end of a call *)

\* j runs, or is resumed because the descriptor it waits for is ready; the main
\* program, and a read that blocks, keep everybody else from running.
Runs(j) == loop = "alive" /\ current \in {j, Nobody}
Goes(j) == /\ current' = j /\ waits' = [waits EXCEPT ![j] = 0]
           /\ UNCHANGED loop

\* Two coroutines that wait for one descriptor: EPOLL_CTL_ADD fails for the
\* second, and the error ends the loop (EventLoop, Wait).
Yields(j) ==
  /\ current = j /\ j \notin use.main
  /\ current' = Nobody
  /\ waits' = [waits EXCEPT ![j] = link[j]]
  /\ loop' = IF \E k \in Jobs \ {j} : waits[k] = link[j] THEN "ended" ELSE loop

\* The call is over; why is "no" unless it raises, or leaves the
\* body to the program.
Ends(j, why, links) ==
  /\ pc' = [pc EXCEPT ![j] = "idle"]
  /\ last' = [last EXCEPT ![j] = [call |-> call[j], got |-> res[j].got, raised |-> why,
                                  clean |-> link[j] = 0 \/ excuse[link[j]] = {}]]
  /\ link' = [link EXCEPT ![j] = 0]
  /\ res' = [res EXCEPT ![j] = NoResponse]
  /\ call' = [call EXCEPT ![j] = NoCall]
  /\ conn' = links
  /\ current' = Nobody /\ waits' = [waits EXCEPT ![j] = 0]
  /\ UNCHANGED <<use, begun, loop, length, pool>>

Excused(c, what) == [excuse EXCEPT ![c] = @ \cup what]

\* An error that leaves the response unread leaves it to the next call.
Raises(j, why, links) ==
  /\ Ends(j, why, links)
  /\ excuse' = IF links[link[j]].state = "ready" THEN Excused(link[j], {"stray"})
               ELSE excuse

\* socket_set_blocking: the descriptor is only touched when the flag changes.
Set(l, b) == [l EXCEPT !.blocking = b,
                       !.nonblock = IF b = l.blocking THEN @ ELSE ~b]

-----------------------------------------------------------------------------
(* client.request: from the URL to a connection *)

\* The content-length of a body is the program's affair: it passes it with the
\* headers, which end up in a table all calls share, or in options of its own.
Begin(j) ==
  /\ Runs(j) /\ pc[j] = "idle" /\ begun < Calls
  /\ begun' = begun + 1
  /\ j \in use.jobs
  /\ \E h \in use.hosts, b \in use.bodies, o \in BOOLEAN :
       /\ o => b
       /\ call' = [call EXCEPT ![j] = [id |-> begun + 1, host |-> h, body |-> b,
                                       own |-> o, hop |-> 0]]
       /\ length' = (length \/ (b /\ ~o))
  /\ pc' = [pc EXCEPT ![j] = "lookup"]
  /\ last' = [last EXCEPT ![j] = NoResult]
  /\ Goes(j)
  /\ UNCHANGED <<use, link, res, pool, conn, excuse>>

FromPool(j) ==
  /\ Runs(j) /\ pc[j] = "lookup" /\ pool[call[j].host] # 0
  /\ LET c == pool[call[j].host]
     IN /\ link' = [link EXCEPT ![j] = c]
        /\ excuse' = Excused(c, IF \E k \in Jobs \ {j} : link[k] = c THEN {"shared"} ELSE {})
  /\ pc' = [pc EXCEPT ![j] = "head"]
  /\ Goes(j)
  /\ UNCHANGED <<use, begun, call, res, last, length, pool, conn>>

\* Mutant of Open: the socket is in the pool before it is open.
OpenPooled(j) ==
  /\ Runs(j) /\ pc[j] = "lookup" /\ pool[call[j].host] = 0
  /\ LET c == CHOOSE c \in Links \ Used : TRUE
     IN /\ link' = [link EXCEPT ![j] = c]
        /\ conn' = [conn EXCEPT ![c] = Set(NewConn, j \in use.main)]
        /\ excuse' = [excuse EXCEPT ![c] = {}]
        /\ pool' = [pool EXCEPT ![call[j].host] = c]
  /\ pc' = [pc EXCEPT ![j] = "open"]
  /\ Goes(j)
  /\ UNCHANGED <<use, begun, call, res, last, length>>

\* STATE_INIT.
Open(j) ==
  /\ Runs(j) /\ pc[j] = "lookup" /\ pool[call[j].host] = 0
  /\ LET c == CHOOSE c \in Links \ Used : TRUE
     IN /\ link' = [link EXCEPT ![j] = c]
        /\ conn' = [conn EXCEPT ![c] = Set(NewConn, j \in use.main)]
        /\ excuse' = [excuse EXCEPT ![c] = {}]
  /\ pc' = [pc EXCEPT ![j] = "open"]
  /\ Goes(j)
  /\ UNCHANGED <<use, begun, call, res, last, length, pool>>

\* open has returned the socket, in whatever state: it goes to the pool.
Opened(j, l) ==
  /\ conn' = [conn EXCEPT ![link[j]] = l]
  /\ pool' = [pool EXCEPT ![call[j].host] = link[j]]
  /\ pc' = [pc EXCEPT ![j] = "head"]
  /\ Goes(j)
  /\ UNCHANGED <<use, begun, call, link, res, last, length, excuse>>

\* STATE_CONNECTING: connect blocks, whoever calls.  The handshake does not.
Connected(j, l) ==
  IF call[j].host \in Https
  THEN /\ conn' = [conn EXCEPT ![link[j]] = [l EXCEPT !.state = "handshake",
                                                      !.nonblock = TRUE]]
       /\ pc' = [pc EXCEPT ![j] = "handshake"]
       /\ Goes(j)
       /\ UNCHANGED <<use, begun, call, link, res, last, length, pool, excuse>>
  ELSE Opened(j, [l EXCEPT !.state = "ready"])

Closed(j) == [conn EXCEPT ![link[j]] = [NewConn EXCEPT !.state = "closed"]]
Dropped(j) == [conn EXCEPT ![link[j]] = NewConn]

\* STATE_RESOLVING, with an answer: an address that connects, or an error.
Resolve(j) ==
  /\ Runs(j) /\ pc[j] = "open" /\ conn[link[j]].state = "resolving"
  /\ \/ Connected(j, conn[link[j]])
     \/ Raises(j, "open", Dropped(j))

\* No answer yet, or none for 30 seconds: the coroutine yields in either case.
ResolveWaits(j) ==
  /\ Runs(j) /\ pc[j] = "open" /\ conn[link[j]].state = "resolving"
  /\ Yields(j)
  /\ conn' \in {conn, Closed(j)}
  /\ UNCHANGED <<use, begun, jobs, length, pool, excuse>>

\* Resumed after the 30 seconds, openk finds no case for its state and no error.
OpenedClosed(j) ==
  /\ Runs(j) /\ pc[j] = "open" /\ conn[link[j]].state = "closed"
  /\ Opened(j, conn[link[j]])

\* The main program goes on to connect without an address, which succeeds.
ConnectNowhere(j) ==
  /\ Runs(j) /\ pc[j] = "open" /\ conn[link[j]].state = "resolving" /\ j \in use.main
  /\ Connected(j, [conn[link[j]] EXCEPT !.gone = TRUE])

\* STATE_HANDSHAKE.  The main program cannot yield when it has to wait.
Handshake(j) ==
  /\ Runs(j) /\ pc[j] = "handshake"
  /\ \/ j \notin use.main /\ Opened(j, [conn[link[j]] EXCEPT !.state = "ready"])
     \/ Raises(j, IF j \in use.main THEN "yield" ELSE "open", Dropped(j))

HandshakeWaits(j) ==
  /\ Runs(j) /\ pc[j] = "handshake"
  /\ Yields(j)
  /\ UNCHANGED <<use, begun, jobs, length, pool, conn, excuse>>

-----------------------------------------------------------------------------
(* socket:request *)

\* What is to be written, and whether its head promises a body.
ClaimsBody(j) == IF call[j].own THEN call[j].body ELSE length
Request(j, part) == [id |-> call[j].id, hop |-> call[j].hop, part |-> part,
                     length |-> ClaimsBody(j)]

\* Mutant of ForSend: the flag is as the caller of send says, who says nothing.
ForSendUnset(j) == IF conn[link[j]].state = "ready"
                   THEN Set(conn[link[j]], FALSE) ELSE conn[link[j]]

\* The socket for a send: sendk leaves __c on the stack, finds it where the third
\* argument would be, and takes it for true, so that every send blocks.
ForSend(j) == IF conn[link[j]].state = "ready"
              THEN Set(conn[link[j]], TRUE) ELSE conn[link[j]]

\* Once the request is written, what was retained of earlier responses goes.
NextPart(j) == IF pc[j] = "head" /\ call[j].body THEN "body" ELSE "response"
Sent(j, l, what) ==
  /\ conn' = [conn EXCEPT ![link[j]] = IF NextPart(j) = "body" THEN l
                                       ELSE [l EXCEPT !.retained = <<>>]]
  /\ excuse' = Excused(link[j], what)
  /\ pc' = [pc EXCEPT ![j] = NextPart(j)]
  /\ Goes(j)
  /\ UNCHANGED <<use, begun, call, link, res, last, length, pool>>

Misleads(j) == IF pc[j] = "head" /\ ClaimsBody(j) # call[j].body THEN {"misled"} ELSE {}

\* All of it is written, or none, because the connection is closed.
Send(j) ==
  /\ Runs(j) /\ pc[j] \in {"head", "body"}
  /\ LET l == ForSend(j)
     IN Sent(j, IF l.state = "ready" /\ ~l.gone
                THEN [l EXCEPT !.outbox = Append(@, Request(j, pc[j]))] ELSE l,
             Misleads(j))

\* mbedtls_ssl_write writes at most a record, and nobody looks at how much.
SendSome(j) ==
  /\ Runs(j) /\ pc[j] \in {"head", "body"} /\ conn[link[j]].state = "ready"
  /\ call[j].host \in Https
  /\ LET l == ForSend(j)
     IN /\ ~l.gone
        /\ Sent(j, [l EXCEPT !.outbox = Append(@, Request(j, "torn"))],
                Misleads(j) \cup {"torn"})

-----------------------------------------------------------------------------
(* socket:recv, and reading what was retained first *)

\* recv is called with false by coroutines; a resumed one finds that again.
ForRecv(j) == Set(conn[link[j]], j \in use.main)
Retained(j) == conn[link[j]].retained

Least(a, b) == IF a < b THEN a ELSE b

\* What recv of at most n pieces may answer, and the connection afterwards: all
\* there is, or (a bound on how packets are cut) the first piece of it.
Received(j, n) ==
  LET l == ForRecv(j)
  IN IF l.state # "ready" THEN {}
     ELSE {<<SubSeq(l.inbox, 1, k), [l EXCEPT !.inbox = After(@, k)]>> :
             k \in 1..Least(n, Len(l.inbox))}

\* The same for socket:read.
Taken(j, n) ==
  LET l == conn[link[j]] IN
  IF l.retained = <<>> THEN Received(j, n)
  ELSE {<<SubSeq(l.retained, 1, Least(n, Len(l.retained))),
          [l EXCEPT !.retained = After(@, Least(n, Len(@)))]>>}

\* "\r\n\r\n": the end of a head, and of a body in chunks.
HeadEnds(s) == \E p \in DOMAIN s :
  s[p].part = "head" \/ (p > 1 /\ s[p].part = "crlf" /\ s[p - 1].part = "end")
LineEnds(s) == \E p \in DOMAIN s : s[p].part # "data"

\* Mutant of Remaining: what has been read is not taken off.
RemainingAll(r) == IF r.framing = "open" THEN Body + 1 ELSE r.size

\* How much of the body, or of the chunk, is still to be read.
Remaining(r) == IF r.framing = "open" THEN Body + 1 ELSE r.size - r.read

\* Where the call needs the socket.
Receiving(j) ==
  /\ Runs(j)
  /\ \/ pc[j] = "response" /\ ~HeadEnds(Retained(j))
     \/ pc[j] = "line" /\ ~LineEnds(Retained(j))
     \/ pc[j] = "data" /\ Retained(j) = <<>> /\ Remaining(res[j]) > 0
     \/ pc[j] \in {"crlf", "last"} /\ Retained(j) = <<>>

\* socket:request and read('*l') retain what they receive.
Retain(j) ==
  /\ Receiving(j) /\ pc[j] \in {"response", "line"}
  /\ \E t \in Received(j, Len(conn[link[j]].inbox)) :
       conn' = [conn EXCEPT ![link[j]] = [t[2] EXCEPT !.retained = @ \o t[1]]]
  /\ Goes(j)
  /\ UNCHANGED <<use, begun, jobs, length, pool, excuse>>

\* Nothing to receive.  A descriptor that blocks leaves no step to anybody.
ReceiveWaits(j) ==
  /\ Receiving(j) /\ current = j
  /\ LET l == ForRecv(j)
         links == [conn EXCEPT ![link[j]] = l]
     IN /\ l.state = "ready" /\ l.nonblock
        /\ Yields(j) /\ conn' = links
        /\ UNCHANGED <<use, begun, jobs, length, pool, excuse>>

\* The server may have closed the connection at any moment, and it may have been
\* reset.  Without TLS the end of the stream is a string, below which the stack
\* holds anything but nil: an error wherever it is used.  Only the two bytes after
\* a chunk may be missing.  On a closed connection recv answers nothing.
ReceiveEnds(j) ==
  /\ Receiving(j)
  /\ LET unnoticed == \/ j \notin use.main \/ call[j].host \in Https
                       \/ conn[link[j]].state # "ready"
     IN \/ pc[j] = "last" /\ unnoticed /\ Ends(j, "no", Closed(j)) /\ UNCHANGED excuse
        \/ /\ pc[j] = "crlf" /\ unnoticed
           /\ pc' = [pc EXCEPT ![j] = "line"]
           /\ conn' = Closed(j)
           /\ Goes(j)
           /\ UNCHANGED <<use, begun, call, link, res, last, length, pool, excuse>>
        \/ (pc[j] \in {"crlf", "last"} => ~unnoticed) /\ Raises(j, "end", Closed(j))

-----------------------------------------------------------------------------
(* The head of a response *)

Answered(j) == /\ Runs(j) /\ current = j /\ pc[j] = "response"
               /\ HeadEnds(Retained(j))
FirstPiece(j) == Retained(j)[1]

\* Something else than a head comes first: "invalid header".
HeadInvalid(j) ==
  /\ Answered(j) /\ FirstPiece(j).part # "head"
  /\ Raises(j, "garbage", conn)

\* Mutant of HeadRead: the head is retained with what follows it.
HeadKept(j) == conn

HeadRead(j) == [conn EXCEPT ![link[j]].retained = Tail(@)]

\* error(res.code), with the body unread.
AnsweredError(j) ==
  /\ Answered(j) /\ FirstPiece(j).part = "head" /\ FirstPiece(j).code = "error"
  /\ Raises(j, "code", HeadRead(j))

\* options.response = 'nonblocking': the program reads the body itself, or not.
AnsweredKeep(j) ==
  /\ Answered(j) /\ FirstPiece(j).part = "head" /\ FirstPiece(j).code = "ok"
  /\ Ends(j, "kept", HeadRead(j))
  /\ excuse' = Excused(link[j], {"stray"})

AnsweredBody(j) ==
  /\ Answered(j) /\ FirstPiece(j).part = "head" /\ FirstPiece(j).code = "ok"
  /\ LET f == FirstPiece(j).framing
     IN /\ res' = [res EXCEPT ![j] = [NoResponse EXCEPT
                     !.framing = f, !.size = IF f = "chunked" THEN 0 ELSE Body]]
        /\ pc' = [pc EXCEPT ![j] = IF f = "chunked" THEN "line" ELSE "data"]
  /\ conn' = HeadRead(j)
  /\ Goes(j)
  /\ UNCHANGED <<use, begun, call, link, last, length, pool, excuse>>

\* Mutant of Redirected: the body goes along.
RedirectedWithBody(cl, h) == [cl EXCEPT !.host = h, !.hop = @ + 1]

\* A redirect is a GET without a body, on whatever connection its host has.
Redirected(cl, h) == [cl EXCEPT !.host = h, !.hop = @ + 1, !.body = FALSE]

Redirect(j) ==
  /\ Answered(j) /\ FirstPiece(j).part = "head" /\ FirstPiece(j).code = "redirect"
  /\ call[j].hop < use.redirects
  /\ \E h \in Hosts : call' = [call EXCEPT ![j] = Redirected(call[j], h)]
  /\ length' = (length /\ call[j].own)
  /\ link' = [link EXCEPT ![j] = 0]
  /\ pc' = [pc EXCEPT ![j] = "lookup"]
  /\ conn' = HeadRead(j)
  /\ excuse' = Excused(link[j], {"stray"})
  /\ Goes(j)
  /\ UNCHANGED <<use, begun, res, last, pool>>

\* Too many redirects, or one without a location.
RedirectFails(j) ==
  /\ Answered(j) /\ FirstPiece(j).part = "head" /\ FirstPiece(j).code = "redirect"
  /\ Raises(j, "redirect", HeadRead(j))

-----------------------------------------------------------------------------
(* response:read *)

ChunkOver(r) == r.framing = "chunked" /\ r.read = r.size

ReadData(j) ==
  /\ Runs(j) /\ pc[j] = "data" /\ Remaining(res[j]) > 0
  /\ \E t \in Taken(j, Remaining(res[j])) :
       LET r == [res[j] EXCEPT !.read = @ + Len(t[1]), !.got = @ \o t[1]]
       IN /\ res' = [res EXCEPT ![j] = IF ChunkOver(r) THEN [r EXCEPT !.read = 0] ELSE r]
          /\ pc' = [pc EXCEPT ![j] = IF ChunkOver(r) THEN "crlf" ELSE "data"]
          /\ conn' = [conn EXCEPT ![link[j]] = t[2]]
  /\ Goes(j)
  /\ UNCHANGED <<use, begun, call, link, last, length, pool, excuse>>

\* content-length bytes have been read.
ReadAll(j) ==
  /\ Runs(j) /\ current = j /\ pc[j] = "data" /\ Remaining(res[j]) = 0
  /\ Ends(j, "no", conn)
  /\ UNCHANGED excuse

\* The size of a chunk; a line that is none counts as 0, the end.
SizeOf(s) == IF s[1].part = "size" THEN Body ELSE 0
LineOf(s) == CHOOSE p \in DOMAIN s : s[p].part # "data"
                                     /\ \A q \in 1..(p - 1) : s[q].part = "data"

\* Mutant of ReadLine: the empty line after the last chunk is not read.
ReadLineStops(j) ==
  /\ Runs(j) /\ current = j /\ pc[j] = "line" /\ LineEnds(Retained(j))
  /\ LET links == [conn EXCEPT ![link[j]].retained = After(@, LineOf(@))]
     IN \/ SizeOf(Retained(j)) = 0 /\ Ends(j, "no", links) /\ UNCHANGED excuse
        \/ /\ SizeOf(Retained(j)) > 0 /\ conn' = links
           /\ res' = [res EXCEPT ![j].size = SizeOf(Retained(j))]
           /\ pc' = [pc EXCEPT ![j] = "data"]
           /\ Goes(j)
           /\ UNCHANGED <<use, begun, call, link, last, length, pool, excuse>>

ReadLine(j) ==
  /\ Runs(j) /\ current = j /\ pc[j] = "line" /\ LineEnds(Retained(j))
  /\ res' = [res EXCEPT ![j].size = SizeOf(Retained(j))]
  /\ pc' = [pc EXCEPT ![j] = IF SizeOf(Retained(j)) = 0 THEN "last" ELSE "data"]
  /\ conn' = [conn EXCEPT ![link[j]].retained = After(@, LineOf(@))]
  /\ Goes(j)
  /\ UNCHANGED <<use, begun, call, link, last, length, pool, excuse>>

\* The two bytes after a chunk, and after the last one.
ReadCrLf(j) ==
  /\ Runs(j) /\ pc[j] \in {"crlf", "last"}
  /\ \E t \in Taken(j, 1) :
       LET links == [conn EXCEPT ![link[j]] = t[2]]
       IN \/ /\ pc[j] = "crlf"
             /\ pc' = [pc EXCEPT ![j] = "line"] /\ conn' = links
             /\ Goes(j)
             /\ UNCHANGED <<use, begun, call, link, res, last, length, pool, excuse>>
          \/ pc[j] = "last" /\ Ends(j, "no", links) /\ UNCHANGED excuse

-----------------------------------------------------------------------------
Connect(j) == FromPool(j) \/ Open(j) \/ Resolve(j) \/ OpenedClosed(j)
              \/ ConnectNowhere(j) \/ Handshake(j)
Write(j) == Send(j) \/ SendSome(j)
Answer(j) == HeadInvalid(j) \/ AnsweredError(j) \/ AnsweredKeep(j) \/ AnsweredBody(j)
             \/ Redirect(j) \/ RedirectFails(j)
Read(j) == Retain(j) \/ ReadData(j) \/ ReadAll(j) \/ ReadLine(j)
           \/ ReadCrLf(j)
Wait(j) == ResolveWaits(j) \/ HandshakeWaits(j) \/ ReceiveWaits(j)
\* The stream has ended for good.
Over(j) == link[j] # 0 /\ (conn[link[j]].gone \/ conn[link[j]].state = "closed")
EndSeen(j) == Over(j) /\ ReceiveEnds(j)
Work(j) == Connect(j) \/ Write(j) \/ Answer(j) \/ Read(j) \/ EndSeen(j)
Servers == \E c \in Links : ServerAnswers(c)

Next == Servers \/ \E j \in Jobs : Begin(j) \/ Work(j) \/ ReceiveEnds(j) \/ Wait(j)
Spec == Init /\ [][Next]_vars

\* The loop goes on as long as something can (JobScheduler), and servers answer
\* the requests they have received.
FairSpec ==
  /\ Spec
  /\ WF_vars(\E j \in Jobs : Work(j))
  /\ WF_vars(Servers)

-----------------------------------------------------------------------------
CallRecords == [id : 0..Calls, host : Hosts, body : BOOLEAN, own : BOOLEAN,
           hop : Nat]
Pieces == [id : 1..Calls, hop : Nat, code : {"ok", "redirect", "error"},
           part : {"head", "data", "size", "crlf", "end"},
           framing : {"sized", "chunked", "open"}]
Requests == [id : 1..Calls, hop : Nat, part : {"head", "body", "torn"},
             length : BOOLEAN]

TypeOK ==
  /\ use \in Uses /\ begun \in 0..Calls /\ length \in BOOLEAN
  /\ call \in [Jobs -> CallRecords]
  /\ \A j \in Jobs :
       /\ pc[j] \in {"idle", "lookup", "open", "handshake", "head", "body",
                     "response", "data", "line", "crlf", "last"}
       /\ res[j].size \in 0..Body /\ res[j].read \in Nat
       /\ res[j].got \in Seq(Pieces)
       /\ last[j].raised \in {"no", "kept", "open", "yield", "end", "garbage", "code", "redirect"}
       /\ pc[j] \in {"idle", "lookup"} <=> link[j] = 0
  /\ link \in [Jobs -> Links \cup {0}] /\ waits \in [Jobs -> Links \cup {0}]
  /\ pool \in [Hosts -> Links \cup {0}]
  /\ \A h \in Hosts : pool[h] # 0 => conn[pool[h]].state \in {"ready", "closed"}
  /\ current \in Jobs \cup {Nobody} /\ loop \in {"alive", "ended"}
  /\ \A c \in Links :
       /\ conn[c].state \in {"resolving", "handshake", "ready", "closed"}
       /\ {conn[c].retained, conn[c].inbox} \subseteq Seq(Pieces)
       /\ conn[c].outbox \in Seq(Requests)
       /\ excuse[c] \subseteq {"stray", "torn", "misled", "shared"}

\* A call that returns a body returns that of its own response, or of the last
\* redirect it followed, and all of it: however responses are framed, packed
\* into packets and spread over the connections of the pool (client.c:11720-11796,
\* 11863-11886).  The exceptions: an earlier call left part of its response on the
\* connection, or used it at the same time; a write was partial; a head
\* promised a body that did not come.
OwnResponse ==
  \A j \in Jobs :
    LET r == last[j]
    IN r.call.id # 0 /\ r.raised = "no" /\ r.clean
       => r.got = Datas(r.call)

\* No call fails for want of reading earlier responses to their end: what it
\* meets where its head should be is a head (client.c:11777-11788, 11813-11828).
NoGarbage == \A j \in Jobs : last[j].raised = "garbage" => ~last[j].clean

\* A body goes to one server, once, with nothing between it and its head, however
\* often the call is redirected and whoever else uses the connection
\* (client.c:11799-11807, 11891-11893).
BodyOnce ==
  \A c, d \in Links : \A p \in DOMAIN conn[c].outbox, q \in DOMAIN conn[d].outbox :
    LET x == conn[c].outbox[p]
        y == conn[d].outbox[q]
    IN x.part = "body" =>
         /\ x.hop = 0
         /\ y.part = "body" /\ y.id = x.id => c = d /\ p = q
         /\ p > 1 => conn[c].outbox[p - 1].id = x.id

\* A coroutine that waits for a server lets others run, although the descriptor
\* and the flag that says how it is start in disagreement, and whoever has used
\* the connection before: every send has set the flag and the descriptor
\* (client.c:11287-11305, 11361; README.md:3).
NeverBlocks ==
  \A j \in Jobs \ use.main :
    Receiving(j) /\ conn[link[j]].state = "ready" => ForRecv(j).nonblock

\* Every call returns or raises.  The exceptions: somebody has misled a server,
\* written half a request, or used a connection that was in use.
CallsEnd ==
  \A j \in Jobs :
    pc[j] # "idle" ~> \/ pc[j] = "idle"
                      \/ \E c \in Links : excuse[c] \cap {"torn", "misled", "shared"} # {}
=============================================================================
