--------------------------- MODULE HttpClientProofs ---------------------------
(***************************************************************************)
(* The theorems of HttpClient: a call that returns a body returns that of  *)
(* its own response, none fails because of what an earlier one has left    *)
(* on the connection, a body is sent once, and a coroutine that receives   *)
(* lets others run.  One invariant follows the stream of every connection  *)
(* that nothing has put out of step: what is still to be read of it        *)
(* continues the response of the one call that uses it, at the place that  *)
(* call has got to.  The other says what may have been written of a call,  *)
(* and how the flag of a socket is when it is read.                        *)
(***************************************************************************)
EXTENDS HttpClient, FiniteSetTheorems, SequenceTheorems, WellFoundedInduction, TLAPS

-----------------------------------------------------------------------------
(* The inductive invariant.                                                 *)

Framings == {"sized", "chunked", "open"}
Answers == {"ok", "redirect", "error"}
Excuses == {"stray", "torn", "misled", "shared"}
Reasons == {"no", "kept", "open", "yield", "end", "garbage", "code", "redirect"}
Places == {"idle", "lookup", "open", "handshake", "head", "body",
           "response", "data", "line", "crlf", "last"}

Conns == [state : {"resolving", "handshake", "ready", "closed"}, blocking : BOOLEAN,
          nonblock : BOOLEAN, retained : Seq(Pieces), inbox : Seq(Pieces),
          outbox : Seq(Requests), gone : BOOLEAN]
Responses == [framing : Framings, size : 0 .. Body, read : Nat, got : Seq(Pieces)]
Results == [call : CallRecords, got : Seq(Pieces), raised : Reasons, clean : BOOLEAN]

\* The types of all that TypeOK leaves out as well.
Typed ==
  /\ use \in Uses /\ begun \in 0 .. Calls /\ length \in BOOLEAN
  /\ call \in [Jobs -> CallRecords]
  /\ pc \in [Jobs -> Places]
  /\ res \in [Jobs -> Responses]
  /\ last \in [Jobs -> Results]
  /\ link \in [Jobs -> Links \cup {0}] /\ waits \in [Jobs -> Links \cup {0}]
  /\ pool \in [Hosts -> Links \cup {0}]
  /\ current \in Jobs \cup {Nobody} /\ loop \in {"alive", "ended"}
  /\ conn \in [Links -> Conns]
  /\ excuse \in [Links -> SUBSET Excuses]

\* Where a call has a connection.
Linked == \A j \in Jobs : pc[j] \in {"idle", "lookup"} <=> link[j] = 0

\* What is in the pool has been opened.
Pooled == \A h \in Hosts : pool[h] # 0 => conn[pool[h]].state \in {"ready", "closed"}

\* Two calls that use one connection at the same time have excused it.
Shared ==
  \A j, k \in Jobs : j # k /\ link[j] = link[k] /\ link[j] # 0
                       => "shared" \in excuse[link[j]]

\* A connection that is being opened belongs to one call, and is not in the pool.
Opening ==
  \A j \in Jobs : pc[j] \in {"open", "handshake"} =>
    /\ \A h \in Hosts : pool[h] # link[j]
    /\ \A k \in Jobs \ {j} : link[k] # link[j]

\* A call has a number, and a body only before it is redirected.
Called ==
  \A j \in Jobs : /\ pc[j] # "idle" => call[j].id # 0
                  /\ call[j].body => call[j].hop = 0
                  /\ pc[j] = "body" => call[j].body

-----------------------------------------------------------------------------
\* A piece of the data of r's response.
Datum(r) == Piece(r.id, r.hop, "data", "ok", "sized")
LineOfChunk(r, part) == Piece(r.id, r.hop, part, "ok", "sized")

\* The k-th piece of a response, and how many there are.
Due(r, code, framing, k) ==
  IF k = 1 THEN Piece(r.id, r.hop, "head", code, framing)
  ELSE IF framing # "chunked" THEN Datum(r)
  ELSE IF k = 2 THEN LineOfChunk(r, "size")
  ELSE IF k <= Body + 2 THEN Datum(r)
  ELSE IF k = Body + 4 THEN LineOfChunk(r, "end") ELSE LineOfChunk(r, "crlf")
Total(framing) == IF framing = "chunked" THEN Body + 5 ELSE Body + 1

\* s continues that response after its k-th piece.
Ahead(s, r, code, framing, k) ==
  \A i \in DOMAIN s : k + i <= Total(framing) /\ s[i] = Due(r, code, framing, k + i)

\* What can be read from a connection continues it.
Stream(c, r, code, framing, k) ==
  /\ Ahead(c.retained, r, code, framing, k)
  /\ Ahead(c.inbox, r, code, framing, k + Len(c.retained))

\* Nothing is on its way.
Quiet(c) == c.retained = <<>> /\ c.inbox = <<>> /\ c.outbox = <<>>

\* The head of a request has been written, if it could be.
HeadSent(c, cl) ==
  /\ c.retained = <<>> /\ c.inbox = <<>>
  /\ \/ /\ c.state = "ready" /\ ~c.gone
        /\ c.outbox = <<[id |-> cl.id, hop |-> cl.hop, part |-> "head", length |-> TRUE]>>
     \/ c.outbox = <<>> /\ (c.state # "ready" \/ c.gone)

\* The request has been written, and is not answered.
Asked(c, cl) ==
  /\ c.retained = <<>> /\ c.inbox = <<>>
  /\ c.outbox # <<>> /\ Whole(c.outbox) = Len(c.outbox)
  /\ c.outbox[1].id = cl.id /\ c.outbox[1].hop = cl.hop

\* It is answered, or could not be written.
AnswerDue(c, cl) ==
  /\ c.outbox = <<>> /\ (c.state = "ready" \/ Quiet(c))
  /\ \E code \in Answers, framing \in Framings : Stream(c, cl, code, framing, 0)

\* How far a call has got in its response.
Offset(p, r) ==
  CASE p = "data" -> IF r.framing = "chunked" THEN Len(r.got) + 2 ELSE Len(r.got) + 1
    [] p = "line" -> IF r.got = <<>> THEN 1 ELSE Body + 3
    [] p = "crlf" -> Body + 2
    [] OTHER -> Body + 4

Progress(p, r, cl) ==
  /\ Len(r.got) <= Body /\ \A i \in DOMAIN r.got : r.got[i] = Datum(cl)
  /\ p = "data" => /\ r.size = Body /\ r.read = Len(r.got)
                   /\ r.framing = "chunked" => r.read < r.size
  /\ p \in {"line", "crlf", "last"} => r.framing = "chunked"
  /\ p = "line" => r.read = 0 /\ (r.got = <<>> \/ Len(r.got) = Body)
  /\ p \in {"crlf", "last"} => Len(r.got) = Body /\ r.read = 0

BeingRead(c, p, r, cl) ==
  /\ c.outbox = <<>>
  /\ Progress(p, r, cl)
  /\ Stream(c, cl, "ok", r.framing, Offset(p, r))

\* The connection c is where a call at p would have it.
Sync(c, p, r, cl) ==
  /\ p \in {"open", "handshake", "head"} => Quiet(c)
  /\ p = "body" => HeadSent(c, cl)
  /\ p = "response" => Asked(c, cl) \/ AnswerDue(c, cl)
  /\ p \in {"data", "line", "crlf", "last"} => BeingRead(c, p, r, cl)

\* A connection without an excuse is in step with the call that uses it, and
\* quiet when none does.
InStep ==
  /\ \A j \in Jobs : link[j] # 0 /\ excuse[link[j]] = {}
                       => Sync(conn[link[j]], pc[j], res[j], call[j])
  /\ \A h \in Hosts :
       pool[h] # 0 /\ excuse[pool[h]] = {} /\ (\A j \in Jobs : link[j] # pool[h])
         => Quiet(conn[pool[h]])

\* The body of a request is at its first hop.
BodyFirst(l) == \A p \in DOMAIN l.outbox : l.outbox[p].part = "body" => l.outbox[p].hop = 0
FirstHop == \A c \in Links : BodyFirst(conn[c])

ClientInv == /\ Typed /\ Linked /\ Pooled /\ Shared /\ Opening /\ Called
             /\ FirstHop /\ InStep /\ OwnResponse /\ NoGarbage

-----------------------------------------------------------------------------
(* Streams.                                                                 *)

\* What is left of a sequence after its first n elements.
LEMMA AfterCut ==
  ASSUME NEW T, NEW s \in Seq(T), NEW n \in 0 .. Len(s)
  PROVE  /\ After(s, n) \in Seq(T) /\ Len(After(s, n)) = Len(s) - n
         /\ \A i \in 1 .. (Len(s) - n) : After(s, n)[i] = s[n + i]
         /\ SubSeq(s, 1, n) \in Seq(T) /\ Len(SubSeq(s, 1, n)) = n
         /\ \A i \in 1 .. n : SubSeq(s, 1, n)[i] = s[i]
BY DEF After

\* What is read continues the response, and so does what is left.
LEMMA AheadCut ==
  ASSUME NEW s \in Seq(Pieces), NEW n \in 0 .. Len(s), NEW r, NEW code, NEW f, NEW k \in Nat,
         Ahead(s, r, code, f, k)
  PROVE  /\ Ahead(After(s, n), r, code, f, k + n)
         /\ Ahead(SubSeq(s, 1, n), r, code, f, k)
<1>1. Len(s) \in Nat /\ n \in Nat /\ n <= Len(s) /\ DOMAIN s = 1 .. Len(s)
  OBVIOUS
<1>2. /\ DOMAIN After(s, n) = 1 .. (Len(s) - n)
      /\ \A i \in 1 .. (Len(s) - n) : After(s, n)[i] = s[n + i]
      /\ DOMAIN SubSeq(s, 1, n) = 1 .. n
      /\ \A i \in 1 .. n : SubSeq(s, 1, n)[i] = s[i]
  <2>1. /\ After(s, n) \in Seq(Pieces) /\ Len(After(s, n)) = Len(s) - n
        /\ \A i \in 1 .. (Len(s) - n) : After(s, n)[i] = s[n + i]
        /\ SubSeq(s, 1, n) \in Seq(Pieces) /\ Len(SubSeq(s, 1, n)) = n
        /\ \A i \in 1 .. n : SubSeq(s, 1, n)[i] = s[i]
    BY AfterCut
  <2>2. /\ DOMAIN After(s, n) = 1 .. Len(After(s, n))
        /\ DOMAIN SubSeq(s, 1, n) = 1 .. Len(SubSeq(s, 1, n))
    BY <2>1
  <2> QED
    BY <2>1, <2>2
<1>3. ASSUME NEW i \in 1 .. (Len(s) - n)
      PROVE  /\ (k + n) + i <= Total(f)
             /\ After(s, n)[i] = Due(r, code, f, (k + n) + i)
  <2>1. n + i \in DOMAIN s /\ k + (n + i) = (k + n) + i
    BY <1>1
  <2>2. k + (n + i) <= Total(f) /\ s[n + i] = Due(r, code, f, k + (n + i))
    BY <2>1 DEF Ahead
  <2> QED
    BY <1>2, <2>1, <2>2
<1>4. ASSUME NEW i \in 1 .. n
      PROVE  k + i <= Total(f) /\ SubSeq(s, 1, n)[i] = Due(r, code, f, k + i)
  BY <1>1, <1>2 DEF Ahead
<1> QED
  BY <1>2, <1>3, <1>4 DEF Ahead

\* Two parts that continue it, one after the other.
LEMMA AheadJoin ==
  ASSUME NEW s \in Seq(Pieces), NEW u \in Seq(Pieces), NEW r, NEW code, NEW f, NEW k \in Nat,
         Ahead(s, r, code, f, k), Ahead(u, r, code, f, k + Len(s))
  PROVE  Ahead(s \o u, r, code, f, k)
<1> DEFINE w == s \o u
<1>1. /\ Len(s) \in Nat /\ Len(u) \in Nat /\ DOMAIN w = 1 .. (Len(s) + Len(u))
      /\ DOMAIN s = 1 .. Len(s) /\ DOMAIN u = 1 .. Len(u)
      /\ \A i \in 1 .. Len(s) : w[i] = s[i]
      /\ \A i \in 1 .. Len(u) : w[Len(s) + i] = u[i]
  OBVIOUS
<1> HIDE DEF w
<1>2. ASSUME NEW i \in DOMAIN w
      PROVE  k + i <= Total(f) /\ w[i] = Due(r, code, f, k + i)
  <2>1. CASE i \in 1 .. Len(s)
    BY <1>1, <2>1 DEF Ahead
  <2>2. CASE i \notin 1 .. Len(s)
    <3>1. /\ i - Len(s) \in 1 .. Len(u) /\ Len(s) + (i - Len(s)) = i
          /\ (k + Len(s)) + (i - Len(s)) = k + i
      BY <1>1, <2>2
    <3>2. /\ (k + Len(s)) + (i - Len(s)) <= Total(f)
          /\ u[i - Len(s)] = Due(r, code, f, (k + Len(s)) + (i - Len(s)))
      BY <1>1, <3>1 DEF Ahead
    <3>3. w[i] = u[i - Len(s)]
      BY <1>1, <3>1
    <3> QED
      BY <3>1, <3>2, <3>3
  <2> QED
    BY <2>1, <2>2
<1> QED
  BY <1>2 DEF Ahead, w

\* Nothing continues anything.
LEMMA AheadNone == ASSUME NEW r, NEW code, NEW f, NEW k PROVE Ahead(<<>>, r, code, f, k)
BY DEF Ahead

LEMMA TotalNat == ASSUME NEW f PROVE Total(f) \in Nat /\ Body \in Nat /\ Body >= 1
BY BoundAssumption DEF Total

\* What a server sends is the response from its first piece on.
LEMMA ResponseDue ==
  ASSUME NEW r \in Requests, NEW code \in Codes, NEW f \in Framings
  PROVE  /\ Response(r, code, f) \in Seq(Pieces)
         /\ Ahead(Response(r, code, f), r, code, f, 0)
<1> DEFINE h == Piece(r.id, r.hop, "head", code, f)
           a == <<h>>
           d == Datas(r)
           l(part) == LineOfChunk(r, part)
           D == Datum(r)
<1>1. /\ h \in Pieces /\ D \in Pieces
      /\ \A part \in {"size", "crlf", "end"} : l(part) \in Pieces
  <2>1. r.id \in 1 .. Calls /\ r.hop \in Nat
    BY DEF Requests
  <2>2. code \in {"ok", "redirect", "error"} /\ f \in {"sized", "chunked", "open"}
    BY ServerAssumption DEF Framings
  <2> QED
    BY <2>1, <2>2 DEF Pieces, Piece, Datum, LineOfChunk
<1>2. Body \in Nat /\ Body >= 1
  BY BoundAssumption
<1>3. d \in Seq(Pieces) /\ Len(d) = Body /\ \A i \in 1 .. Body : d[i] = D
  BY <1>1, <1>2 DEF Datas, Datum
<1>4. \A part : Line(r, part) = <<l(part)>>
  BY DEF Line, LineOfChunk
<1> HIDE DEF h, d, l, D
<1>5. CASE f # "chunked"
  <2>1. Response(r, code, f) = <<h>> \o d
    BY <1>5 DEF Response, h, d
  <2>2. Ahead(<<h>>, r, code, f, 0)
    BY <1>2, <1>5 DEF Ahead, Due, Total, h
  <2>3. Ahead(d, r, code, f, 0 + Len(<<h>>))
    BY <1>2, <1>3, <1>5 DEF Ahead, Due, Total, D
  <2>4. <<h>> \in Seq(Pieces)
    BY <1>1
  <2>5. Ahead(<<h>> \o d, r, code, f, 0)
    BY <1>3, <2>2, <2>3, <2>4, AheadJoin
  <2> QED
    BY <1>3, <2>1, <2>4, <2>5
<1>6. CASE f = "chunked"
  <2> DEFINE s1 == <<l("size")>>
             s2 == s1 \o d
             s3 == s2 \o <<l("crlf")>>
             s4 == s3 \o <<l("end")>>
             s5 == s4 \o <<l("crlf")>>
  <2>1. Response(r, code, f) = <<h>> \o s5
    <3>1. Response(r, code, f) = <<h>> \o (Line(r, "size") \o d \o Line(r, "crlf")
                                          \o Line(r, "end") \o Line(r, "crlf"))
      BY <1>6 DEF Response, h, d
    <3>2. /\ Line(r, "size") = <<l("size")>> /\ Line(r, "crlf") = <<l("crlf")>>
          /\ Line(r, "end") = <<l("end")>>
      BY <1>4
    <3> QED
      BY <3>1, <3>2, Zenon
  <2>2. <<h>> \in Seq(Pieces) /\ Ahead(<<h>>, r, code, f, 0) /\ Len(<<h>>) = 1
    BY <1>1, <1>2, <1>6 DEF Ahead, Due, Total, h
  <2>3. s1 \in Seq(Pieces) /\ Len(s1) = 1 /\ Ahead(s1, r, code, f, 1)
    BY <1>1, <1>2, <1>6 DEF Ahead, Due, Total, l
  <2> HIDE DEF s1
  <2>4. s2 \in Seq(Pieces) /\ Len(s2) = Body + 1 /\ Ahead(s2, r, code, f, 1)
    <3>1. Ahead(d, r, code, f, 1 + Len(s1))
      BY <1>2, <1>3, <1>6, <2>3 DEF Ahead, Due, Total, D
    <3>2. Ahead(s2, r, code, f, 1)
      BY <1>3, <2>3, <3>1, AheadJoin
    <3>3. \A s, u \in Seq(Pieces) : s \o u \in Seq(Pieces) /\ Len(s \o u) = Len(s) + Len(u)
      OBVIOUS
    <3>4. d \in Seq(Pieces) /\ s1 \in Seq(Pieces)
      BY <1>3, <2>3
    <3>5. s2 \in Seq(Pieces) /\ Len(s2) = Len(s1) + Len(d)
      BY <3>3, <3>4
    <3> QED
      BY <1>2, <1>3, <2>3, <3>2, <3>5
  <2> HIDE DEF s2
  <2>5. s3 \in Seq(Pieces) /\ Len(s3) = Body + 2 /\ Ahead(s3, r, code, f, 1)
    <3>1. <<l("crlf")>> \in Seq(Pieces) /\ Len(<<l("crlf")>>) = 1
      BY <1>1
    <3>2. Ahead(<<l("crlf")>>, r, code, f, 1 + Len(s2))
      BY <1>2, <1>6, <2>4 DEF Ahead, Due, Total, l
    <3>3. Ahead(s3, r, code, f, 1)
      BY <2>4, <3>1, <3>2, AheadJoin
    <3> QED
      BY <1>2, <2>4, <3>1, <3>3
  <2> HIDE DEF s3
  <2>6. s4 \in Seq(Pieces) /\ Len(s4) = Body + 3 /\ Ahead(s4, r, code, f, 1)
    <3>1. <<l("end")>> \in Seq(Pieces) /\ Len(<<l("end")>>) = 1
      BY <1>1
    <3>2. Ahead(<<l("end")>>, r, code, f, 1 + Len(s3))
      BY <1>2, <1>6, <2>5 DEF Ahead, Due, Total, l
    <3>3. Ahead(s4, r, code, f, 1)
      BY <2>5, <3>1, <3>2, AheadJoin
    <3> QED
      BY <1>2, <2>5, <3>1, <3>3
  <2> HIDE DEF s4
  <2>7. s5 \in Seq(Pieces) /\ Ahead(s5, r, code, f, 1)
    <3>1. <<l("crlf")>> \in Seq(Pieces) /\ Len(<<l("crlf")>>) = 1
      BY <1>1
    <3>2. Ahead(<<l("crlf")>>, r, code, f, 1 + Len(s4))
      BY <1>2, <1>6, <2>6 DEF Ahead, Due, Total, l
    <3>3. Ahead(s5, r, code, f, 1)
      BY <2>6, <3>1, <3>2, AheadJoin
    <3> QED
      BY <2>6, <3>1, <3>3
  <2> HIDE DEF s5
  <2>8. Ahead(<<h>> \o s5, r, code, f, 0)
    <3>1. Ahead(s5, r, code, f, 0 + Len(<<h>>))
      BY <2>2, <2>7
    <3> QED
      BY <2>2, <2>7, <3>1, AheadJoin
  <2> QED
    BY <2>1, <2>2, <2>7, <2>8
<1> QED
  BY <1>5, <1>6

\* Only the number and the hop of a request matter to its response.
LEMMA DueSame ==
  ASSUME NEW r, NEW q, r.id = q.id, r.hop = q.hop, NEW s, NEW code, NEW f, NEW k,
         Ahead(s, r, code, f, k)
  PROVE  Ahead(s, q, code, f, k)
BY DEF Ahead, Due, Datum, LineOfChunk

\* A body that is complete and made of data is the body.
LEMMA WholeBody ==
  ASSUME NEW r, NEW s \in Seq(Pieces), Len(s) = Body, \A i \in DOMAIN s : s[i] = Datum(r)
  PROVE  s = Datas(r)
BY DEF Datas, Datum

-----------------------------------------------------------------------------
(* What a step of one call leaves alone.                                    *)

\* The fields of a connection.
LEMMA ConnFields ==
  ASSUME NEW l \in Conns
  PROVE  /\ l.state \in {"resolving", "handshake", "ready", "closed"}
         /\ l.retained \in Seq(Pieces) /\ l.inbox \in Seq(Pieces)
         /\ l.outbox \in Seq(Requests)
         /\ l.blocking \in BOOLEAN /\ l.nonblock \in BOOLEAN /\ l.gone \in BOOLEAN
BY DEF Conns

\* The types of what belongs to one call.
LEMMA CallTypes ==
  ASSUME Typed, NEW j \in Jobs
  PROVE  /\ call[j] \in CallRecords /\ pc[j] \in Places /\ res[j] \in Responses
         /\ last[j] \in Results /\ link[j] \in Links \cup {0}
         /\ (link[j] # 0 => /\ link[j] \in Links /\ conn[link[j]] \in Conns
                            /\ excuse[link[j]] \in SUBSET Excuses)
  <1>1. /\ call \in [Jobs -> CallRecords] /\ pc \in [Jobs -> Places]
        /\ res \in [Jobs -> Responses] /\ last \in [Jobs -> Results]
        /\ link \in [Jobs -> Links \cup {0}]
        /\ conn \in [Links -> Conns] /\ excuse \in [Links -> SUBSET Excuses]
    BY Zenon DEF Typed
  <1> QED
    BY <1>1

\* Who runs, and who waits for what, stays of its type.
Timed == /\ current' \in Jobs \cup {Nobody} /\ waits' \in [Jobs -> Links \cup {0}]
         /\ loop' \in {"alive", "ended"}

LEMMA GoesTimed == ASSUME Typed, NEW j \in Jobs, Goes(j) PROVE Timed
BY DEF Typed, Goes, Timed

LEMMA YieldsTimed == ASSUME Typed, NEW j \in Jobs, Yields(j) PROVE Timed
<1>1. link[j] \in Links \cup {0} /\ waits \in [Jobs -> Links \cup {0}]
  BY Zenon DEF Typed
<1>2. waits' \in [Jobs -> Links \cup {0}]
  BY <1>1 DEF Yields
<1>3. loop' \in {"alive", "ended"} /\ current' \in Jobs \cup {Nobody}
  BY Zenon DEF Yields, Typed
<1> QED
  BY <1>2, <1>3 DEF Timed

\* The connection may be in the pool.
Poolable(j, l) == \/ l.state \in {"ready", "closed"} \/ l.state = conn[link[j]].state
                  \/ pc[j] \in {"open", "handshake"}

\* What the program is told of a call is right.
Fair(w) == /\ w.call.id # 0 /\ w.raised = "no" /\ w.clean => w.got = Datas(w.call)
           /\ w.raised = "garbage" => ~w.clean

LEMMA FairAll == OwnResponse /\ NoGarbage <=> \A j \in Jobs : Fair(last[j])
BY Zenon DEF OwnResponse, NoGarbage, Fair

LEMMA BodyFirstAll == FirstHop <=> \A c \in Links : BodyFirst(conn[c])
BY Zenon DEF FirstHop

\* A call goes on, on the connection it has.
InPlace(j, p, r, l, ex) ==
  /\ pc' = [pc EXCEPT ![j] = p] /\ res' = [res EXCEPT ![j] = r]
  /\ conn' = [conn EXCEPT ![link[j]] = l]
  /\ excuse' = [excuse EXCEPT ![link[j]] = @ \cup ex]
  /\ use' = use /\ begun' = begun /\ call' = call /\ link' = link /\ last' = last
  /\ length' = length /\ pool' = pool
  /\ Timed

LEMMA InPlaceKeeps ==
  ASSUME ClientInv, NEW j \in Jobs, link[j] # 0,
         NEW p \in Places \ {"idle", "lookup"}, NEW r \in Responses, NEW l \in Conns,
         NEW ex \in SUBSET Excuses, InPlace(j, p, r, l, ex),
         p \in {"open", "handshake"} => pc[j] \in {"open", "handshake"},
         p = "body" => call[j].body,
         Poolable(j, l), BodyFirst(l),
         excuse[link[j]] \cup ex = {} => Sync(l, p, r, call[j])
  PROVE  ClientInv'
<1> DEFINE c == link[j]
<1>1. /\ Typed /\ c \in Links
      /\ call \in [Jobs -> CallRecords] /\ pc \in [Jobs -> Places]
      /\ res \in [Jobs -> Responses] /\ link \in [Jobs -> Links \cup {0}]
      /\ conn \in [Links -> Conns] /\ excuse \in [Links -> SUBSET Excuses]
      /\ pool \in [Hosts -> Links \cup {0}] /\ 0 \notin Links
  BY CallTypes, LinkAssumption, Zenon DEF ClientInv, Typed
<1>2. /\ use' = use /\ begun' = begun /\ call' = call /\ link' = link /\ last' = last
      /\ length' = length /\ pool' = pool
  BY Zenon DEF InPlace
<1>3. pc'[j] = p /\ res'[j] = r /\ conn'[c] = l /\ excuse'[c] = excuse[c] \cup ex
  BY <1>1 DEF InPlace
<1>4. \A k \in Jobs : k # j => pc'[k] = pc[k] /\ res'[k] = res[k]
  BY <1>1 DEF InPlace
<1>5. \A d \in Links : d # c => conn'[d] = conn[d] /\ excuse'[d] = excuse[d]
  BY <1>1 DEF InPlace
<1>6. Typed'
  <2>1. pc' \in [Jobs -> Places] /\ res' \in [Jobs -> Responses]
    BY <1>1 DEF InPlace
  <2>2. conn' \in [Links -> Conns] /\ excuse' \in [Links -> SUBSET Excuses]
    BY <1>1, <1>3, <1>5 DEF InPlace
  <2>3. Timed
    BY DEF InPlace
  <2> QED
    BY <1>1, <1>2, <2>1, <2>2, <2>3, Zenon DEF Typed, Timed
<1>7. Linked'
  BY <1>2, <1>3, <1>4 DEF ClientInv, Linked
<1>8. Pooled'
  <2> SUFFICES ASSUME NEW h \in Hosts, pool[h] # 0
               PROVE  conn'[pool[h]].state \in {"ready", "closed"}
    BY <1>2 DEF Pooled
  <2>1. pool[h] \in Links /\ conn[pool[h]].state \in {"ready", "closed"}
    BY <1>1 DEF ClientInv, Pooled
  <2>2. pc[j] \in {"open", "handshake"} => pool[h] # c
    BY DEF ClientInv, Opening
  <2> QED
    BY <1>3, <1>5, <2>1, <2>2 DEF Poolable
<1>9. Shared'
  <2> SUFFICES ASSUME NEW i \in Jobs, NEW k \in Jobs, i # k, link[i] = link[k], link[i] # 0
               PROVE  "shared" \in excuse'[link[i]]
    BY <1>2 DEF Shared
  <2>1. link[i] \in Links /\ "shared" \in excuse[link[i]]
    BY <1>1 DEF ClientInv, Shared
  <2> QED
    BY <1>3, <1>5, <2>1
<1>10. Opening'
  <2>1. \A k \in Jobs : pc'[k] \in {"open", "handshake"} => pc[k] \in {"open", "handshake"}
    BY <1>3, <1>4
  <2> QED
    BY <1>2, <2>1, Zenon DEF ClientInv, Opening
<1>11. Called'
  <2>1. pc[j] # "idle"
    BY DEF ClientInv, Linked
  <2> QED
    BY <1>2, <1>3, <1>4, <2>1, Zenon DEF ClientInv, Called
<1>12. FirstHop'
  <2>1. \A d \in Links : BodyFirst(conn[d])
    BY BodyFirstAll DEF ClientInv
  <2>2. \A d \in Links : BodyFirst(conn'[d])
    BY <1>3, <1>5, <2>1
  <2> QED
    BY <2>2, Zenon DEF BodyFirst, FirstHop
<1>13. InStep'
  <2>1. ASSUME NEW k \in Jobs, link'[k] # 0, excuse'[link'[k]] = {}
        PROVE  Sync(conn'[link'[k]], pc'[k], res'[k], call'[k])
    <3>1. link'[k] = link[k] /\ link[k] \in Links
      BY <1>1, <1>2, <2>1
    <3>2. CASE k = j
      BY <1>2, <1>3, <2>1, <3>1, <3>2
    <3>3. CASE k # j /\ link[k] = c
      <4>1. "shared" \in excuse[c]
        BY <3>3 DEF ClientInv, Shared
      <4> QED
        BY <1>3, <2>1, <3>1, <3>3, <4>1
    <3>4. CASE k # j /\ link[k] # c
      <4>1. /\ conn'[link[k]] = conn[link[k]] /\ excuse'[link[k]] = excuse[link[k]]
            /\ pc'[k] = pc[k] /\ res'[k] = res[k] /\ call'[k] = call[k]
        BY <1>2, <1>4, <1>5, <3>1, <3>4
      <4> QED
        BY <2>1, <3>1, <4>1, Zenon DEF ClientInv, InStep
    <3> QED
      BY <3>2, <3>3, <3>4
  <2>2. ASSUME NEW h \in Hosts, pool'[h] # 0, excuse'[pool'[h]] = {},
               \A k \in Jobs : link'[k] # pool'[h]
        PROVE  Quiet(conn'[pool'[h]])
    <3>1. pool'[h] = pool[h] /\ pool[h] \in Links /\ pool[h] # c
      BY <1>1, <1>2, <2>2
    <3>2. conn'[pool[h]] = conn[pool[h]] /\ excuse'[pool[h]] = excuse[pool[h]]
      BY <1>5, <3>1
    <3> QED
      BY <1>2, <2>2, <3>1, <3>2, Zenon DEF ClientInv, InStep
  <2> QED
    BY <2>1, <2>2, Zenon DEF InStep
<1>14. OwnResponse' /\ NoGarbage'
  BY <1>2, Zenon DEF ClientInv, OwnResponse, NoGarbage
<1> QED
  BY <1>6, <1>7, <1>8, <1>9, <1>10, <1>11, <1>12, <1>13, <1>14, Zenon DEF ClientInv

\* A call lets go of its connection.
Leaves(j, p, cl, r, w, l, ex) ==
  /\ pc' = [pc EXCEPT ![j] = p] /\ call' = [call EXCEPT ![j] = cl]
  /\ res' = [res EXCEPT ![j] = r] /\ last' = [last EXCEPT ![j] = w]
  /\ link' = [link EXCEPT ![j] = 0]
  /\ conn' = [conn EXCEPT ![link[j]] = l]
  /\ excuse' = [excuse EXCEPT ![link[j]] = @ \cup ex]
  /\ use' = use /\ begun' = begun /\ pool' = pool /\ length' \in BOOLEAN
  /\ Timed

LEMMA LeavesKeeps ==
  ASSUME ClientInv, NEW j \in Jobs, link[j] # 0,
         NEW p \in {"idle", "lookup"}, NEW cl \in CallRecords, NEW r \in Responses,
         NEW w \in Results, NEW l \in Conns, NEW ex \in SUBSET Excuses,
         Leaves(j, p, cl, r, w, l, ex),
         p # "idle" => cl.id # 0, cl.body => cl.hop = 0,
         Poolable(j, l), BodyFirst(l), Fair(w),
         excuse[link[j]] \cup ex = {} /\ pc[j] \notin {"open", "handshake"} => Quiet(l)
  PROVE  ClientInv'
<1> DEFINE c == link[j]
<1>1. /\ Typed /\ c \in Links
      /\ call \in [Jobs -> CallRecords] /\ pc \in [Jobs -> Places]
      /\ res \in [Jobs -> Responses] /\ link \in [Jobs -> Links \cup {0}]
      /\ last \in [Jobs -> Results]
      /\ conn \in [Links -> Conns] /\ excuse \in [Links -> SUBSET Excuses]
      /\ pool \in [Hosts -> Links \cup {0}] /\ 0 \notin Links
  BY CallTypes, LinkAssumption, Zenon DEF ClientInv, Typed
<1>2. /\ use' = use /\ begun' = begun /\ pool' = pool /\ length' \in BOOLEAN /\ Timed
  BY Zenon DEF Leaves
<1>3. /\ pc'[j] = p /\ res'[j] = r /\ conn'[c] = l /\ excuse'[c] = excuse[c] \cup ex
      /\ call'[j] = cl /\ last'[j] = w /\ link'[j] = 0
  BY <1>1 DEF Leaves
<1>4. ASSUME NEW k \in Jobs, k # j
      PROVE  /\ pc'[k] = pc[k] /\ res'[k] = res[k] /\ call'[k] = call[k]
             /\ link'[k] = link[k] /\ last'[k] = last[k]
  BY <1>1, <1>4 DEF Leaves
<1>5. \A d \in Links : d # c => conn'[d] = conn[d] /\ excuse'[d] = excuse[d]
  BY <1>1 DEF Leaves
<1>6. Typed'
  <2>1. /\ pc' \in [Jobs -> Places] /\ res' \in [Jobs -> Responses]
        /\ call' \in [Jobs -> CallRecords] /\ last' \in [Jobs -> Results]
        /\ link' \in [Jobs -> Links \cup {0}]
    BY <1>1 DEF Leaves, Places
  <2>2. conn' \in [Links -> Conns] /\ excuse' \in [Links -> SUBSET Excuses]
    BY <1>1, <1>3, <1>5 DEF Leaves
  <2> QED
    BY <1>1, <1>2, <2>1, <2>2, Zenon DEF Typed, Timed
<1>7. Linked'
  BY <1>3, <1>4 DEF ClientInv, Linked
<1>8. Pooled'
  <2> SUFFICES ASSUME NEW h \in Hosts, pool[h] # 0
               PROVE  conn'[pool[h]].state \in {"ready", "closed"}
    BY <1>2 DEF Pooled
  <2>1. pool[h] \in Links /\ conn[pool[h]].state \in {"ready", "closed"}
    BY <1>1 DEF ClientInv, Pooled
  <2>2. pc[j] \in {"open", "handshake"} => pool[h] # c
    BY DEF ClientInv, Opening
  <2> QED
    BY <1>3, <1>5, <2>1, <2>2 DEF Poolable
<1>9. Shared'
  <2> SUFFICES ASSUME NEW i \in Jobs, NEW k \in Jobs, i # k, link'[i] = link'[k], link'[i] # 0
               PROVE  "shared" \in excuse'[link'[i]]
    BY DEF Shared
  <2>1. i # j /\ k # j
    BY <1>3
  <2>2. link'[i] = link[i] /\ link'[k] = link[k]
    BY <1>4, <2>1
  <2>3. link[i] \in Links /\ "shared" \in excuse[link[i]]
    BY <1>1, <2>2 DEF ClientInv, Shared
  <2> QED
    BY <1>3, <1>5, <2>2, <2>3
<1>10. Opening'
  <2> SUFFICES ASSUME NEW i \in Jobs, pc'[i] \in {"open", "handshake"}
               PROVE  /\ \A h \in Hosts : pool[h] # link'[i]
                      /\ \A k \in Jobs \ {i} : link'[k] # link'[i]
    BY <1>2 DEF Opening
  <2>1. i # j
    BY <1>3
  <2>2. link'[i] = link[i] /\ pc'[i] = pc[i]
    BY <1>4, <2>1
  <2>3. link[i] # 0
    BY <2>2 DEF ClientInv, Linked
  <2>4. /\ \A h \in Hosts : pool[h] # link[i]
        /\ \A k \in Jobs \ {i} : link[k] # link[i]
    BY <2>2 DEF ClientInv, Opening
  <2>5. \A k \in Jobs \ {i} : link'[k] \in {link[k], 0}
    BY <1>3, <1>4
  <2> QED
    BY <2>2, <2>3, <2>4, <2>5
<1>11. Called'
  <2> SUFFICES ASSUME NEW k \in Jobs
               PROVE  /\ pc'[k] # "idle" => call'[k].id # 0
                      /\ call'[k].body => call'[k].hop = 0
                      /\ pc'[k] = "body" => call'[k].body
    BY DEF Called
  <2>1. CASE k = j
    BY <1>3, <2>1
  <2>2. CASE k # j
    BY <1>4, <2>2, Zenon DEF ClientInv, Called
  <2> QED
    BY <2>1, <2>2
<1>12. FirstHop'
  <2>1. \A d \in Links : BodyFirst(conn[d])
    BY BodyFirstAll DEF ClientInv
  <2>2. \A d \in Links : BodyFirst(conn'[d])
    BY <1>3, <1>5, <2>1
  <2> QED
    BY <2>2, Zenon DEF BodyFirst, FirstHop
<1>13. InStep'
  <2>1. ASSUME NEW k \in Jobs, link'[k] # 0, excuse'[link'[k]] = {}
        PROVE  Sync(conn'[link'[k]], pc'[k], res'[k], call'[k])
    <3>1. k # j
      BY <1>3, <2>1
    <3>2. link'[k] = link[k] /\ link[k] \in Links
      BY <1>1, <1>4, <2>1, <3>1
    <3>3. CASE link[k] = c
      <4>1. "shared" \in excuse[c]
        BY <3>1, <3>3 DEF ClientInv, Shared
      <4> QED
        BY <1>3, <2>1, <3>2, <3>3, <4>1
    <3>4. CASE link[k] # c
      <4>1. /\ conn'[link[k]] = conn[link[k]] /\ excuse'[link[k]] = excuse[link[k]]
            /\ pc'[k] = pc[k] /\ res'[k] = res[k] /\ call'[k] = call[k]
        BY <1>4, <1>5, <3>1, <3>2, <3>4
      <4> QED
        BY <2>1, <3>2, <4>1, Zenon DEF ClientInv, InStep
    <3> QED
      BY <3>3, <3>4
  <2>2. ASSUME NEW h \in Hosts, pool'[h] # 0, excuse'[pool'[h]] = {},
               \A k \in Jobs : link'[k] # pool'[h]
        PROVE  Quiet(conn'[pool'[h]])
    <3>1. pool'[h] = pool[h] /\ pool[h] \in Links
      BY <1>1, <1>2, <2>2
    <3>2. CASE pool[h] = c
      <4>1. pc[j] \notin {"open", "handshake"}
        BY <3>2 DEF ClientInv, Opening
      <4> QED
        BY <1>3, <2>2, <3>1, <3>2, <4>1
    <3>3. CASE pool[h] # c
      <4>1. conn'[pool[h]] = conn[pool[h]] /\ excuse'[pool[h]] = excuse[pool[h]]
        BY <1>5, <3>1, <3>3
      <4>2. \A k \in Jobs : link[k] # pool[h]
        BY <1>4, <2>2, <3>1, <3>3
      <4> QED
        BY <2>2, <3>1, <4>1, <4>2, Zenon DEF ClientInv, InStep
    <3> QED
      BY <3>2, <3>3
  <2> QED
    BY <2>1, <2>2, Zenon DEF InStep
<1>14. OwnResponse' /\ NoGarbage'
  <2>1. \A k \in Jobs : Fair(last[k])
    BY FairAll DEF ClientInv
  <2>2. \A k \in Jobs : Fair(last'[k])
    BY <1>3, <1>4, <2>1
  <2> QED
    BY <2>2, Zenon DEF Fair, OwnResponse, NoGarbage
<1> QED
  BY <1>6, <1>7, <1>8, <1>9, <1>10, <1>11, <1>12, <1>13, <1>14, Zenon DEF ClientInv

-----------------------------------------------------------------------------
(* From the URL to a connection.                                            *)

\* A connection that has been opened goes to the pool.
LEMMA OpenedKeeps ==
  ASSUME ClientInv, NEW j \in Jobs, pc[j] \in {"open", "handshake"}, NEW l \in Conns,
         Opened(j, l), l.state \in {"ready", "closed"}, BodyFirst(l),
         excuse[link[j]] = {} => Quiet(l)
  PROVE  ClientInv'
<1> DEFINE c == link[j]
           g == call[j].host
<1>1. /\ Typed /\ c # 0 /\ c \in Links
      /\ call \in [Jobs -> CallRecords] /\ pc \in [Jobs -> Places]
      /\ res \in [Jobs -> Responses] /\ link \in [Jobs -> Links \cup {0}]
      /\ conn \in [Links -> Conns] /\ excuse \in [Links -> SUBSET Excuses]
      /\ pool \in [Hosts -> Links \cup {0}] /\ 0 \notin Links
  <2>1. Typed /\ c # 0
    BY DEF ClientInv, Linked
  <2> QED
    BY <2>1, CallTypes, LinkAssumption, Zenon DEF Typed
<1>2. /\ use' = use /\ begun' = begun /\ call' = call /\ link' = link /\ last' = last
      /\ length' = length /\ res' = res /\ excuse' = excuse /\ Goes(j)
      /\ pc' = [pc EXCEPT ![j] = "head"] /\ conn' = [conn EXCEPT ![c] = l]
      /\ pool' = [pool EXCEPT ![g] = c]
  BY Zenon DEF Opened
<1>3. g \in Hosts
  BY <1>1 DEF CallRecords
<1>4. /\ pc'[j] = "head" /\ conn'[c] = l /\ pool'[g] = c
      /\ \A k \in Jobs : k # j => pc'[k] = pc[k]
      /\ \A d \in Links : d # c => conn'[d] = conn[d]
      /\ \A h \in Hosts : h # g => pool'[h] = pool[h]
  BY <1>1, <1>2, <1>3
<1>5. /\ \A h \in Hosts : pool[h] # c
      /\ \A k \in Jobs \ {j} : link[k] # c
  BY DEF ClientInv, Opening
<1>6. Typed'
  <2>1. pc' \in [Jobs -> Places]
    BY <1>1, <1>2 DEF Places
  <2>2. conn' \in [Links -> Conns] /\ pool' \in [Hosts -> Links \cup {0}]
    BY <1>1, <1>2, <1>4
  <2>3. Timed
    BY <1>1, <1>2, GoesTimed
  <2> QED
    BY <1>1, <1>2, <2>1, <2>2, <2>3, Zenon DEF Typed, Timed
<1>7. Linked'
  BY <1>1, <1>2, <1>4 DEF ClientInv, Linked
<1>8. Pooled'
  BY <1>1, <1>4 DEF ClientInv, Pooled
<1>9. Shared'
  BY <1>2, Zenon DEF ClientInv, Shared
<1>10. Opening'
  <2> SUFFICES ASSUME NEW i \in Jobs, pc'[i] \in {"open", "handshake"}
               PROVE  /\ \A h \in Hosts : pool'[h] # link[i]
                      /\ \A k \in Jobs \ {i} : link[k] # link[i]
    BY <1>2 DEF Opening
  <2>1. i # j /\ pc[i] \in {"open", "handshake"}
    BY <1>4
  <2> QED
    BY <1>4, <1>5, <2>1 DEF ClientInv, Opening
<1>11. Called'
  <2>1. call[j].id # 0
    BY DEF ClientInv, Called
  <2> QED
    BY <1>2, <1>4, <2>1, Zenon DEF ClientInv, Called
<1>12. FirstHop'
  <2>1. \A d \in Links : BodyFirst(conn[d])
    BY BodyFirstAll DEF ClientInv
  <2>2. \A d \in Links : BodyFirst(conn'[d])
    BY <1>4, <2>1
  <2> QED
    BY <2>2, Zenon DEF BodyFirst, FirstHop
<1>13. InStep'
  <2>1. ASSUME NEW k \in Jobs, link[k] # 0, excuse[link[k]] = {}
        PROVE  Sync(conn'[link[k]], pc'[k], res[k], call[k])
    <3>1. CASE k = j
      BY <1>4, <2>1, <3>1 DEF Sync
    <3>2. CASE k # j
      <4>1. link[k] \in Links /\ link[k] # c
        BY <1>1, <1>5, <2>1, <3>2
      <4>2. conn'[link[k]] = conn[link[k]] /\ pc'[k] = pc[k]
        BY <1>4, <3>2, <4>1
      <4> QED
        BY <2>1, <4>2, Zenon DEF ClientInv, InStep
    <3> QED
      BY <3>1, <3>2
  <2>2. ASSUME NEW h \in Hosts, pool'[h] # 0, excuse[pool'[h]] = {},
               \A k \in Jobs : link[k] # pool'[h]
        PROVE  Quiet(conn'[pool'[h]])
    <3>1. h # g /\ pool'[h] = pool[h] /\ pool[h] \in Links /\ pool[h] # c
      BY <1>1, <1>4, <1>5, <2>2
    <3>2. conn'[pool[h]] = conn[pool[h]]
      BY <1>4, <3>1
    <3> QED
      BY <2>2, <3>1, <3>2, Zenon DEF ClientInv, InStep
  <2> QED
    BY <1>2, <2>1, <2>2, Zenon DEF InStep
<1>14. OwnResponse' /\ NoGarbage'
  BY <1>2, Zenon DEF ClientInv, OwnResponse, NoGarbage
<1> QED
  BY <1>6, <1>7, <1>8, <1>9, <1>10, <1>11, <1>12, <1>13, <1>14, Zenon DEF ClientInv

\* There is always a connection that nothing refers to.
LEMMA SpareLink ==
  ASSUME Typed, NEW j \in Jobs, link[j] = 0
  PROVE  \E c \in Links : c \notin Used
<1> DEFINE A == {pool[h] : h \in Hosts}
           B == {link[k] : k \in Jobs}
<1>1. /\ IsFiniteSet(Jobs) /\ IsFiniteSet(Hosts) /\ IsFiniteSet(Links) /\ 0 \notin Links
      /\ Cardinality(Links) >= Cardinality(Hosts) + Cardinality(Jobs)
      /\ pool \in [Hosts -> Links \cup {0}] /\ link \in [Jobs -> Links \cup {0}]
  BY FiniteAssumption, LinkAssumption, Zenon DEF Typed
<1>2. IsFiniteSet(A) /\ Cardinality(A) <= Cardinality(Hosts)
  <2>1. pool \in Surjection(Hosts, A)
    BY <1>1 DEF Surjection
  <2> QED
    BY <1>1, <2>1, FS_Surjection
<1>3. IsFiniteSet(B) /\ Cardinality(B) <= Cardinality(Jobs)
  <2>1. link \in Surjection(Jobs, B)
    BY <1>1 DEF Surjection
  <2> QED
    BY <1>1, <2>1, FS_Surjection
<1>4. 0 \in B
  OBVIOUS
<1>5. Used = A \cup B
  BY DEF Used
<1> HIDE DEF A, B
<1>6. IsFiniteSet(B \ {0}) /\ Cardinality(B \ {0}) = Cardinality(B) - 1
  BY <1>3, <1>4, FS_RemoveElement
<1> DEFINE U == A \cup (B \ {0})
<1>7. IsFiniteSet(U) /\ Cardinality(U) =
        Cardinality(A) + Cardinality(B \ {0}) - Cardinality(A \cap (B \ {0}))
  BY <1>2, <1>6, FS_Union
<1>8. /\ Cardinality(A) \in Nat /\ Cardinality(B) \in Nat /\ Cardinality(B \ {0}) \in Nat
      /\ Cardinality(Jobs) \in Nat /\ Cardinality(Hosts) \in Nat /\ Cardinality(Links) \in Nat
  BY <1>1, <1>2, <1>3, <1>6, FS_CardinalityType
<1>9. Cardinality(A \cap (B \ {0})) \in Nat
  BY <1>2, FS_Intersection, FS_CardinalityType
<1>10. Cardinality(U) < Cardinality(Links)
  <2> HIDE DEF U
  <2> QED
    BY <1>1, <1>2, <1>3, <1>6, <1>7, <1>8, <1>9
<1>11. ASSUME Links \subseteq Used PROVE FALSE
  <2>1. Links \in SUBSET U
    BY <1>1, <1>5, <1>11
  <2>2. Cardinality(Links) <= Cardinality(U)
    BY <1>7, <2>1, FS_Subset
  <2>3. Cardinality(U) \in Nat
    BY <1>7, FS_CardinalityType
  <2> HIDE DEF U
  <2> QED
    BY <1>8, <1>10, <2>2, <2>3
<1> QED
  BY <1>11

\* A new connection.
LEMMA NewConnTyped == NewConn \in Conns /\ Quiet(NewConn) /\ BodyFirst(NewConn)
BY DEF NewConn, Conns, Quiet, BodyFirst

\* socket_set_blocking touches nothing else.
LEMMA SetKeeps ==
  ASSUME NEW l \in Conns, NEW b \in BOOLEAN
  PROVE  /\ Set(l, b) \in Conns
         /\ Set(l, b).state = l.state /\ Set(l, b).retained = l.retained
         /\ Set(l, b).inbox = l.inbox /\ Set(l, b).outbox = l.outbox
         /\ Set(l, b).gone = l.gone
BY DEF Set, Conns

LEMMA FromPoolKeeps == ASSUME ClientInv, NEW j \in Jobs, FromPool(j) PROVE ClientInv'
<1> DEFINE c == pool[call[j].host]
           others == \E k \in Jobs \ {j} : link[k] = c
           ex == IF others THEN {"shared"} ELSE {}
<1>1. /\ Typed /\ pc[j] = "lookup" /\ c # 0
      /\ call \in [Jobs -> CallRecords] /\ pc \in [Jobs -> Places]
      /\ link \in [Jobs -> Links \cup {0}]
      /\ conn \in [Links -> Conns] /\ excuse \in [Links -> SUBSET Excuses]
      /\ pool \in [Hosts -> Links \cup {0}]
  BY Zenon DEF ClientInv, Typed, FromPool
<1>2. /\ use' = use /\ begun' = begun /\ call' = call /\ last' = last /\ pool' = pool
      /\ length' = length /\ res' = res /\ conn' = conn /\ Goes(j)
      /\ pc' = [pc EXCEPT ![j] = "head"] /\ link' = [link EXCEPT ![j] = c]
      /\ excuse' = Excused(c, ex)
  BY Zenon DEF FromPool
<1>3. call[j].host \in Hosts
  BY <1>1 DEF CallRecords
<1>4. c \in Links /\ conn[c].state \in {"ready", "closed"}
  BY <1>1, <1>3 DEF ClientInv, Pooled
<1>5. link[j] = 0
  BY <1>1 DEF ClientInv, Linked
<1>6. /\ pc'[j] = "head" /\ link'[j] = c /\ excuse'[c] = excuse[c] \cup ex
      /\ \A k \in Jobs : k # j => pc'[k] = pc[k] /\ link'[k] = link[k]
      /\ \A d \in Links : d # c => excuse'[d] = excuse[d]
  BY <1>1, <1>2, <1>4 DEF Excused
<1>7. c # 0 /\ 0 \notin Links
  BY <1>1, LinkAssumption
<1>8. Typed'
  <2>1. pc' \in [Jobs -> Places] /\ link' \in [Jobs -> Links \cup {0}]
    BY <1>1, <1>2, <1>4 DEF Places
  <2>2. excuse' \in [Links -> SUBSET Excuses]
    BY <1>1, <1>2 DEF Excused, Excuses
  <2>3. Timed
    BY <1>1, <1>2, GoesTimed
  <2> QED
    BY <1>1, <1>2, <2>1, <2>2, <2>3, Zenon DEF Typed, Timed
<1>9. Linked'
  BY <1>6, <1>7 DEF ClientInv, Linked
<1>10. Pooled'
  BY <1>2, Zenon DEF ClientInv, Pooled
<1>11. Shared'
  <2> SUFFICES ASSUME NEW i \in Jobs, NEW k \in Jobs, i # k, link'[i] = link'[k], link'[i] # 0
               PROVE  "shared" \in excuse'[link'[i]]
    BY DEF Shared
  <2>1. CASE i = j \/ k = j
    <3>1. link'[i] = c /\ others
      BY <1>6, <2>1
    <3> QED
      BY <1>6, <3>1
  <2>2. CASE i # j /\ k # j
    <3>1. link'[i] = link[i] /\ link'[k] = link[k] /\ link[i] \in Links
      BY <1>1, <1>6, <2>2
    <3>2. "shared" \in excuse[link[i]]
      BY <3>1 DEF ClientInv, Shared
    <3> QED
      BY <1>6, <3>1, <3>2
  <2> QED
    BY <2>1, <2>2
<1>12. Opening'
  <2> SUFFICES ASSUME NEW i \in Jobs, pc'[i] \in {"open", "handshake"}
               PROVE  /\ \A h \in Hosts : pool[h] # link'[i]
                      /\ \A k \in Jobs \ {i} : link'[k] # link'[i]
    BY <1>2 DEF Opening
  <2>1. i # j /\ pc[i] \in {"open", "handshake"} /\ link'[i] = link[i]
    BY <1>6
  <2>2. /\ \A h \in Hosts : pool[h] # link[i]
        /\ \A k \in Jobs \ {i} : link[k] # link[i]
    BY <2>1 DEF ClientInv, Opening
  <2> QED
    BY <1>3, <1>6, <2>1, <2>2
<1>13. Called'
  <2>1. call[j].id # 0
    BY <1>1 DEF ClientInv, Called
  <2> QED
    BY <1>2, <1>6, <2>1, Zenon DEF ClientInv, Called
<1>14. FirstHop'
  BY <1>2, Zenon DEF ClientInv, FirstHop
<1>15. InStep'
  <2>1. ASSUME NEW k \in Jobs, link'[k] # 0, excuse'[link'[k]] = {}
        PROVE  Sync(conn[link'[k]], pc'[k], res[k], call[k])
    <3>1. CASE k = j
      <4>1. ~others /\ excuse[c] = {}
        BY <1>6, <2>1, <3>1
      <4>2. \A i \in Jobs : link[i] # pool[call[j].host]
        BY <1>5, <1>7, <4>1
      <4>3. Quiet(conn[c])
        BY <1>3, <1>7, <4>1, <4>2, Zenon DEF ClientInv, InStep
      <4> QED
        BY <1>6, <3>1, <4>3 DEF Sync
    <3>2. CASE k # j
      <4>1. /\ link'[k] = link[k] /\ pc'[k] = pc[k] /\ link[k] \in Links
            /\ excuse[link[k]] = {}
        BY <1>1, <1>6, <2>1, <3>2
      <4> QED
        BY <2>1, <4>1, Zenon DEF ClientInv, InStep
    <3> QED
      BY <3>1, <3>2
  <2>2. ASSUME NEW h \in Hosts, pool[h] # 0, excuse'[pool[h]] = {},
               \A k \in Jobs : link'[k] # pool[h]
        PROVE  Quiet(conn[pool[h]])
    <3>1. pool[h] \in Links /\ pool[h] # c
      BY <1>1, <1>6, <2>2
    <3>2. excuse[pool[h]] = {} /\ \A k \in Jobs : link[k] # pool[h]
      BY <1>5, <1>6, <1>7, <2>2, <3>1
    <3> QED
      BY <2>2, <3>2, Zenon DEF ClientInv, InStep
  <2> QED
    BY <1>2, <2>1, <2>2, Zenon DEF InStep
<1>16. OwnResponse' /\ NoGarbage'
  BY <1>2, Zenon DEF ClientInv, OwnResponse, NoGarbage
<1> QED
  BY <1>8, <1>9, <1>10, <1>11, <1>12, <1>13, <1>14, <1>15, <1>16, Zenon DEF ClientInv

LEMMA OpenKeeps == ASSUME ClientInv, NEW j \in Jobs, Open(j) PROVE ClientInv'
<1> DEFINE c == CHOOSE x \in Links \ Used : TRUE
           l == Set(NewConn, j \in use.main)
<1>1. /\ Typed /\ pc[j] = "lookup"
      /\ call \in [Jobs -> CallRecords] /\ pc \in [Jobs -> Places]
      /\ link \in [Jobs -> Links \cup {0}]
      /\ conn \in [Links -> Conns] /\ excuse \in [Links -> SUBSET Excuses]
      /\ pool \in [Hosts -> Links \cup {0}]
  BY Zenon DEF ClientInv, Typed, Open
<1>2. /\ use' = use /\ begun' = begun /\ call' = call /\ last' = last /\ pool' = pool
      /\ length' = length /\ res' = res /\ Goes(j)
      /\ pc' = [pc EXCEPT ![j] = "open"] /\ link' = [link EXCEPT ![j] = c]
      /\ conn' = [conn EXCEPT ![c] = l] /\ excuse' = [excuse EXCEPT ![c] = {}]
  BY Zenon DEF Open
<1>3. link[j] = 0
  BY <1>1 DEF ClientInv, Linked
<1>4. c \in Links /\ c \notin Used
  <2>1. \E x \in Links \ Used : TRUE
    BY <1>1, <1>3, SpareLink
  <2> QED
    BY <2>1
<1>5. c # 0 /\ (\A h \in Hosts : pool[h] # c) /\ (\A k \in Jobs : link[k] # c)
  BY <1>4, LinkAssumption DEF Used
<1>6. l \in Conns /\ Quiet(l) /\ BodyFirst(l)
  <2>1. (j \in use.main) \in BOOLEAN
    OBVIOUS
  <2>2. /\ l \in Conns /\ l.retained = NewConn.retained /\ l.inbox = NewConn.inbox
        /\ l.outbox = NewConn.outbox
    BY <2>1, NewConnTyped, SetKeeps
  <2> HIDE DEF l
  <2> QED
    BY <2>2, NewConnTyped DEF Quiet, BodyFirst
<1> HIDE DEF c, l
<1>7. /\ pc'[j] = "open" /\ link'[j] = c /\ conn'[c] = l
      /\ \A k \in Jobs : k # j => pc'[k] = pc[k] /\ link'[k] = link[k]
      /\ \A d \in Links : d # c => excuse'[d] = excuse[d] /\ conn'[d] = conn[d]
  BY <1>1, <1>2, <1>4
<1>8. Typed'
  <2>1. pc' \in [Jobs -> Places] /\ link' \in [Jobs -> Links \cup {0}]
    BY <1>1, <1>2, <1>4 DEF Places
  <2>2. excuse' \in [Links -> SUBSET Excuses] /\ conn' \in [Links -> Conns]
    BY <1>1, <1>2, <1>6
  <2>3. Timed
    BY <1>1, <1>2, GoesTimed
  <2> QED
    BY <1>1, <1>2, <2>1, <2>2, <2>3, Zenon DEF Typed, Timed
<1>9. Linked'
  BY <1>5, <1>7 DEF ClientInv, Linked
<1>10. Pooled'
  <2>1. \A h \in Hosts : pool[h] # 0 => pool[h] \in Links /\ pool[h] # c
    BY <1>1, <1>5
  <2> QED
    BY <1>2, <1>7, <2>1 DEF ClientInv, Pooled
<1>11. Shared'
  <2> SUFFICES ASSUME NEW i \in Jobs, NEW k \in Jobs, i # k, link'[i] = link'[k], link'[i] # 0
               PROVE  "shared" \in excuse'[link'[i]]
    BY DEF Shared
  <2>1. i # j /\ k # j
    BY <1>5, <1>7
  <2>2. link'[i] = link[i] /\ link'[k] = link[k] /\ link[i] \in Links /\ link[i] # c
    BY <1>1, <1>5, <1>7, <2>1
  <2>3. "shared" \in excuse[link[i]]
    BY <2>2 DEF ClientInv, Shared
  <2> QED
    BY <1>7, <2>2, <2>3
<1>12. Opening'
  <2> SUFFICES ASSUME NEW i \in Jobs, pc'[i] \in {"open", "handshake"}
               PROVE  /\ \A h \in Hosts : pool[h] # link'[i]
                      /\ \A k \in Jobs \ {i} : link'[k] # link'[i]
    BY <1>2 DEF Opening
  <2>1. CASE i = j
    BY <1>5, <1>7, <2>1
  <2>2. CASE i # j
    <3>1. pc[i] \in {"open", "handshake"} /\ link'[i] = link[i]
      BY <1>7, <2>2
    <3>2. /\ \A h \in Hosts : pool[h] # link[i]
          /\ \A k \in Jobs \ {i} : link[k] # link[i]
      BY <3>1 DEF ClientInv, Opening
    <3> QED
      BY <1>5, <1>7, <3>1, <3>2
  <2> QED
    BY <2>1, <2>2
<1>13. Called'
  <2>1. call[j].id # 0
    BY <1>1 DEF ClientInv, Called
  <2> QED
    BY <1>2, <1>7, <2>1, Zenon DEF ClientInv, Called
<1>14. FirstHop'
  <2>1. \A d \in Links : BodyFirst(conn[d])
    BY BodyFirstAll DEF ClientInv
  <2>2. \A d \in Links : BodyFirst(conn'[d])
    BY <1>6, <1>7, <2>1
  <2> QED
    BY <2>2, Zenon DEF BodyFirst, FirstHop
<1>15. InStep'
  <2>1. ASSUME NEW k \in Jobs, link'[k] # 0, excuse'[link'[k]] = {}
        PROVE  Sync(conn'[link'[k]], pc'[k], res[k], call[k])
    <3>1. CASE k = j
      BY <1>6, <1>7, <3>1 DEF Sync
    <3>2. CASE k # j
      <4>1. /\ link'[k] = link[k] /\ pc'[k] = pc[k] /\ link[k] \in Links
            /\ conn'[link[k]] = conn[link[k]] /\ excuse[link[k]] = {}
        BY <1>1, <1>5, <1>7, <2>1, <3>2
      <4> QED
        BY <2>1, <4>1, Zenon DEF ClientInv, InStep
    <3> QED
      BY <3>1, <3>2
  <2>2. ASSUME NEW h \in Hosts, pool[h] # 0, excuse'[pool[h]] = {},
               \A k \in Jobs : link'[k] # pool[h]
        PROVE  Quiet(conn'[pool[h]])
    <3>1. pool[h] \in Links /\ pool[h] # c
      BY <1>1, <1>5, <2>2
    <3>2. /\ excuse[pool[h]] = {} /\ conn'[pool[h]] = conn[pool[h]]
          /\ \A k \in Jobs : link[k] # pool[h]
      BY <1>3, <1>7, <2>2, <3>1
    <3> QED
      BY <2>2, <3>2, Zenon DEF ClientInv, InStep
  <2> QED
    BY <1>2, <2>1, <2>2, Zenon DEF InStep
<1>16. OwnResponse' /\ NoGarbage'
  BY <1>2, Zenon DEF ClientInv, OwnResponse, NoGarbage
<1> QED
  BY <1>8, <1>9, <1>10, <1>11, <1>12, <1>13, <1>14, <1>15, <1>16, Zenon DEF ClientInv

\* What the initial state lacks is not out of step.
LEMMA InitInv == Init => ClientInv
<1> SUFFICES ASSUME Init PROVE ClientInv
  OBVIOUS
<1>1. /\ use \in Uses /\ begun = 0 /\ call = [j \in Jobs |-> NoCall]
      /\ pc = [j \in Jobs |-> "idle"] /\ link = [j \in Jobs |-> 0]
      /\ res = [j \in Jobs |-> NoResponse] /\ waits = [j \in Jobs |-> 0]
      /\ last = [j \in Jobs |-> NoResult] /\ current = Nobody /\ loop = "alive"
      /\ length = FALSE /\ pool = [h \in Hosts |-> 0]
      /\ conn = [c \in Links |-> NewConn] /\ excuse = [c \in Links |-> {}]
  BY Zenon DEF Init
<1>2. NoCall \in CallRecords /\ NoCall.body = FALSE
  <2>1. Calls \in Nat /\ (CHOOSE h \in Hosts : TRUE) \in Hosts
    BY BoundAssumption, HostAssumption
  <2> QED
    BY <2>1 DEF NoCall, CallRecords
<1>3. NoResponse \in Responses
  BY BoundAssumption DEF NoResponse, Responses, Framings
<1>4. NoResult \in Results /\ NoResult.raised = "no" /\ NoResult.clean = FALSE
  BY <1>2 DEF NoResult, Results, Reasons
<1>5. Typed
  <2>1. begun \in 0 .. Calls
    BY <1>1, BoundAssumption
  <2>2. /\ call \in [Jobs -> CallRecords] /\ pc \in [Jobs -> Places]
        /\ res \in [Jobs -> Responses] /\ last \in [Jobs -> Results]
    BY <1>1, <1>2, <1>3, <1>4 DEF Places
  <2>3. /\ link \in [Jobs -> Links \cup {0}] /\ waits \in [Jobs -> Links \cup {0}]
        /\ pool \in [Hosts -> Links \cup {0}] /\ conn \in [Links -> Conns]
        /\ excuse \in [Links -> SUBSET Excuses]
    BY <1>1, NewConnTyped
  <2>4. length \in BOOLEAN /\ current \in Jobs \cup {Nobody} /\ loop \in {"alive", "ended"}
    BY <1>1
  <2> QED
    BY <1>1, <2>1, <2>2, <2>3, <2>4, Zenon DEF Typed
<1>6. /\ \A h \in Hosts : pool[h] = 0
      /\ \A j \in Jobs : pc[j] = "idle" /\ link[j] = 0 /\ call[j] = NoCall
      /\ \A j \in Jobs : last[j] = NoResult
      /\ \A c \in Links : conn[c] = NewConn
  BY <1>1
<1>7. Linked /\ Pooled /\ Shared /\ Opening /\ Called
  BY <1>2, <1>6 DEF Linked, Pooled, Shared, Opening, Called
<1>8. FirstHop
  <2>1. \A c \in Links : BodyFirst(conn[c])
    BY <1>6, NewConnTyped
  <2> QED
    BY <2>1, BodyFirstAll
<1>9. InStep
  BY <1>6 DEF InStep
<1>10. OwnResponse /\ NoGarbage
  <2>1. \A j \in Jobs : Fair(last[j])
    BY <1>4, <1>6 DEF Fair
  <2> QED
    BY <2>1, FairAll
<1> QED
  BY <1>5, <1>7, <1>8, <1>9, <1>10, Zenon DEF ClientInv

LEMMA BeginKeeps == ASSUME ClientInv, NEW j \in Jobs, Begin(j) PROVE ClientInv'
<1>1. /\ Typed /\ pc[j] = "idle" /\ begun < Calls
      /\ call \in [Jobs -> CallRecords] /\ pc \in [Jobs -> Places]
      /\ last \in [Jobs -> Results] /\ link \in [Jobs -> Links \cup {0}]
  BY Zenon DEF ClientInv, Typed, Begin
<1>2. /\ use' = use /\ begun' = begun + 1 /\ link' = link /\ pool' = pool
      /\ res' = res /\ conn' = conn /\ excuse' = excuse /\ Goes(j)
      /\ pc' = [pc EXCEPT ![j] = "lookup"] /\ last' = [last EXCEPT ![j] = NoResult]
  BY Zenon DEF Begin
<1>3. PICK h \in use.hosts, b \in use.bodies, o \in BOOLEAN :
        /\ call' = [call EXCEPT ![j] = [id |-> begun + 1, host |-> h, body |-> b,
                                        own |-> o, hop |-> 0]]
        /\ length' = (length \/ (b /\ ~o))
  BY Zenon DEF Begin
<1>4. h \in Hosts /\ b \in BOOLEAN
  <2>1. use \in Uses
    BY <1>1, Zenon DEF Typed
  <2>2. use.hosts \in SUBSET Hosts /\ use.bodies \in SUBSET BOOLEAN
    BY <2>1, UseAssumption
  <2> QED
    BY <2>2
<1>5. begun \in Nat /\ begun + 1 \in 0 .. Calls /\ begun + 1 # 0
  <2>1. begun \in 0 .. Calls /\ Calls \in Nat
    BY <1>1, BoundAssumption DEF Typed
  <2> QED
    BY <1>1, <2>1
<1> DEFINE cl == [id |-> begun + 1, host |-> h, body |-> b, own |-> o, hop |-> 0]
<1>6. cl \in CallRecords /\ cl.id # 0 /\ cl.hop = 0
  BY <1>4, <1>5 DEF CallRecords
<1> HIDE DEF cl
<1>7. call' = [call EXCEPT ![j] = cl]
  BY <1>3 DEF cl
<1>8. NoResult \in Results /\ Fair(NoResult)
  <2>1. NoCall \in CallRecords
    <3>1. Calls \in Nat /\ (CHOOSE x \in Hosts : TRUE) \in Hosts
      BY BoundAssumption, HostAssumption
    <3> QED
      BY <3>1 DEF NoCall, CallRecords
  <2> QED
    BY <2>1 DEF NoResult, Results, Reasons, Fair
<1>9. /\ pc'[j] = "lookup" /\ call'[j] = cl /\ last'[j] = NoResult /\ link[j] = 0
      /\ \A k \in Jobs : k # j => pc'[k] = pc[k] /\ call'[k] = call[k] /\ last'[k] = last[k]
  BY <1>1, <1>2, <1>7 DEF ClientInv, Linked
<1>10. Typed'
  <2>1. /\ pc' \in [Jobs -> Places] /\ last' \in [Jobs -> Results]
        /\ call' \in [Jobs -> CallRecords]
    BY <1>1, <1>2, <1>6, <1>7, <1>8 DEF Places
  <2>2. Timed
    BY <1>1, <1>2, GoesTimed
  <2>3. length' \in BOOLEAN
    BY <1>3, Zenon
  <2> QED
    BY <1>1, <1>2, <1>5, <2>1, <2>2, <2>3, Zenon DEF Typed, Timed
<1>11. Linked'
  BY <1>2, <1>9 DEF ClientInv, Linked
<1>12. Pooled' /\ Shared'
  BY <1>2, Zenon DEF ClientInv, Pooled, Shared
<1>13. Opening'
  <2>1. \A k \in Jobs : pc'[k] \in {"open", "handshake"} => pc[k] \in {"open", "handshake"}
    BY <1>9
  <2> QED
    BY <1>2, <2>1, Zenon DEF ClientInv, Opening
<1>14. Called'
  <2> SUFFICES ASSUME NEW k \in Jobs
               PROVE  /\ pc'[k] # "idle" => call'[k].id # 0
                      /\ call'[k].body => call'[k].hop = 0
                      /\ pc'[k] = "body" => call'[k].body
    BY DEF Called
  <2>1. CASE k = j
    BY <1>6, <1>9, <2>1
  <2>2. CASE k # j
    BY <1>9, <2>2, Zenon DEF ClientInv, Called
  <2> QED
    BY <2>1, <2>2
<1>15. FirstHop'
  BY <1>2, Zenon DEF ClientInv, FirstHop
<1>16. InStep'
  <2>1. ASSUME NEW k \in Jobs, link[k] # 0, excuse[link[k]] = {}
        PROVE  Sync(conn[link[k]], pc'[k], res[k], call'[k])
    <3>1. pc'[k] = pc[k] /\ call'[k] = call[k]
      BY <1>9, <2>1
    <3> QED
      BY <2>1, <3>1, Zenon DEF ClientInv, InStep
  <2> QED
    BY <1>2, <2>1, Zenon DEF ClientInv, InStep
<1>17. OwnResponse' /\ NoGarbage'
  <2>1. \A k \in Jobs : Fair(last[k])
    BY FairAll DEF ClientInv
  <2>2. \A k \in Jobs : Fair(last'[k])
    BY <1>8, <1>9, <2>1
  <2> QED
    BY <2>2, Zenon DEF Fair, OwnResponse, NoGarbage
<1> QED
  BY <1>10, <1>11, <1>12, <1>13, <1>14, <1>15, <1>16, <1>17, Zenon DEF ClientInv

\* Bodies that are still to be answered are at their first hop.
LEMMA BodyFirstAfter ==
  ASSUME NEW l \in Conns, BodyFirst(l), NEW n \in 0 .. Len(l.outbox), NEW m,
         m.outbox = After(l.outbox, n)
  PROVE  BodyFirst(m)
<1>1. l.outbox \in Seq(Requests)
  BY ConnFields
<1>2. /\ After(l.outbox, n) \in Seq(Requests)
      /\ Len(After(l.outbox, n)) = Len(l.outbox) - n
      /\ \A i \in 1 .. (Len(l.outbox) - n) : After(l.outbox, n)[i] = l.outbox[n + i]
  BY <1>1, AfterCut
<1>3. ASSUME NEW i \in 1 .. (Len(l.outbox) - n) PROVE n + i \in DOMAIN l.outbox
  BY <1>1
<1>4. DOMAIN After(l.outbox, n) = 1 .. (Len(l.outbox) - n)
  BY <1>2
<1> QED
  BY <1>2, <1>3, <1>4 DEF BodyFirst

\* A server answers.
LEMMA ServerAnswersKeeps ==
  ASSUME ClientInv, NEW c \in Links, ServerAnswers(c)
  PROVE  ClientInv'
<1> DEFINE o == conn[c].outbox
<1>1. /\ Typed /\ Whole(o) > 0
      /\ pc \in [Jobs -> Places] /\ link \in [Jobs -> Links \cup {0}]
      /\ conn \in [Links -> Conns] /\ excuse \in [Links -> SUBSET Excuses]
      /\ pool \in [Hosts -> Links \cup {0}] /\ 0 \notin Links
  BY LinkAssumption, Zenon DEF ClientInv, Typed, ServerAnswers
<1>2. PICK u \in Jobs : link[u] = c /\ pc[u] \in Reading
  BY DEF ServerAnswers
<1>3. PICK code \in Codes, f \in use.framings :
        conn' = [conn EXCEPT ![c].inbox = @ \o Response(o[1], code, f),
                             ![c].outbox = After(@, Whole(@)), ![c].gone = (f = "open")]
  BY DEF ServerAnswers
<1>4. /\ use' = use /\ begun' = begun /\ call' = call /\ pc' = pc /\ link' = link
      /\ res' = res /\ last' = last /\ waits' = waits /\ current' = current
      /\ loop' = loop /\ length' = length /\ pool' = pool /\ excuse' = excuse
  BY Zenon DEF ServerAnswers, jobs, schedule
<1>5. f \in Framings
  <2>1. use \in Uses
    BY <1>1, Zenon DEF Typed
  <2>2. use.framings \in SUBSET {"sized", "chunked", "open"}
    BY <2>1, UseAssumption
  <2> QED
    BY <2>2 DEF Framings
<1>6. conn[c] \in Conns /\ o \in Seq(Requests) /\ conn[c].inbox \in Seq(Pieces)
  BY <1>1, ConnFields
<1>7. o # <<>> /\ o[1] \in Requests /\ Whole(o) \in 0 .. Len(o) /\ Whole(<<>>) = 0
  <2>1. o # <<>> /\ Whole(<<>>) = 0
    BY <1>1 DEF Whole
  <2>2. o[1] \in Requests /\ Len(o) \in Nat /\ Len(o) >= 1
    BY <1>6, <2>1
  <2>3. Whole(o) \in 0 .. Len(o)
    <3>1. CASE o[1].part # "head" \/ (o[1].length /\ ~(Len(o) >= 2 /\ o[2].part # "torn"))
      BY <2>1, <2>2, <3>1 DEF Whole
    <3>2. CASE o[1].part = "head" /\ ~o[1].length
      BY <2>1, <2>2, <3>2 DEF Whole
    <3>3. CASE o[1].part = "head" /\ o[1].length /\ Len(o) >= 2 /\ o[2].part # "torn"
      BY <2>1, <2>2, <3>3 DEF Whole
    <3> QED
      BY <3>1, <3>2, <3>3
  <2> QED
    BY <2>1, <2>2, <2>3
<1> DEFINE R == Response(o[1], code, f)
           l == conn'[c]
<1>8. R \in Seq(Pieces) /\ Ahead(R, o[1], code, f, 0)
  BY <1>5, <1>7, ResponseDue
<1> HIDE DEF R
<1>9. /\ l = [conn[c] EXCEPT !.inbox = conn[c].inbox \o R,
                             !.outbox = After(o, Whole(o)), !.gone = (f = "open")]
      /\ \A d \in Links : d # c => conn'[d] = conn[d]
  BY <1>1, <1>3 DEF R
<1>10. /\ l \in Conns /\ l.state = conn[c].state /\ l.retained = conn[c].retained
       /\ l.inbox = conn[c].inbox \o R /\ l.outbox = After(o, Whole(o))
  <2>1. conn[c].inbox \o R \in Seq(Pieces) /\ After(o, Whole(o)) \in Seq(Requests)
    BY <1>6, <1>7, <1>8, AfterCut
  <2>2. (f = "open") \in BOOLEAN
    OBVIOUS
  <2> QED
    BY <1>6, <1>9, <2>1, <2>2 DEF Conns
<1>11. conn' = [conn EXCEPT ![c] = l]
  BY <1>1, <1>3
<1> HIDE DEF l
<1>12. Typed'
  <2>1. conn' \in [Links -> Conns]
    BY <1>1, <1>10, <1>11
  <2> QED
    BY <1>1, <1>4, <2>1, Zenon DEF Typed
<1>13. Linked' /\ Shared' /\ Opening' /\ Called'
  BY <1>4, Zenon DEF ClientInv, Linked, Shared, Opening, Called
<1>14. Pooled'
  <2>1. \A h \in Hosts : pool[h] # 0 => pool[h] \in Links
    BY <1>1
  <2>2. conn'[c].state = conn[c].state
    BY <1>10 DEF l
  <2> QED
    BY <1>4, <1>9, <2>1, <2>2 DEF ClientInv, Pooled
<1>15. FirstHop'
  <2>1. \A d \in Links : BodyFirst(conn[d])
    BY BodyFirstAll DEF ClientInv
  <2>2. BodyFirst(conn'[c])
    BY <1>6, <1>7, <1>10, <2>1, BodyFirstAfter DEF l
  <2>3. \A d \in Links : BodyFirst(conn'[d])
    BY <1>9, <2>1, <2>2
  <2> QED
    BY <2>3, Zenon DEF BodyFirst, FirstHop
<1>16. ASSUME excuse[c] = {} PROVE AnswerDue(conn'[c], call[u]) /\ pc[u] = "response"
  <2>1. Sync(conn[c], pc[u], res[u], call[u])
    BY <1>1, <1>2, <1>16 DEF ClientInv, InStep
  <2>2. pc[u] = "response" /\ Asked(conn[c], call[u])
    BY <1>2, <1>7, <2>1 DEF Sync, Reading, BeingRead, AnswerDue
  <2>3. /\ l.retained = <<>> /\ conn[c].inbox = <<>> /\ Whole(o) = Len(o)
        /\ o[1].id = call[u].id /\ o[1].hop = call[u].hop
    BY <1>10, <2>2 DEF Asked
  <2>4. l.inbox = R
    BY <1>8, <1>10, <2>3
  <2>5. l.outbox = <<>>
    <3>1. Len(After(o, Whole(o))) = 0 /\ After(o, Whole(o)) \in Seq(Requests)
      <4>1. /\ After(o, Whole(o)) \in Seq(Requests)
            /\ Len(After(o, Whole(o))) = Len(o) - Whole(o)
        BY <1>6, <1>7, AfterCut
      <4>2. Len(o) \in Nat
        BY <1>6
      <4> QED
        BY <2>3, <4>1, <4>2
    <3> QED
      BY <1>10, <3>1
  <2>6. Ahead(R, call[u], code, f, 0)
    BY <1>8, <2>3, DueSame
  <2>7. Stream(l, call[u], code, f, 0)
    <3>1. Len(l.retained) = 0
      BY <2>3
    <3>2. Ahead(<<>>, call[u], code, f, 0)
      BY AheadNone
    <3> QED
      BY <2>3, <2>4, <2>6, <3>1, <3>2 DEF Stream
  <2>8. AnswerDue(l, call[u])
    <3>1. l.state = "ready" /\ code \in Answers
      BY <1>10, ServerAssumption DEF ServerAnswers, Answers
    <3> QED
      BY <1>5, <2>5, <2>7, <3>1 DEF AnswerDue
  <2> QED
    BY <2>2, <2>8 DEF l
<1>17. InStep'
  <2>1. ASSUME NEW k \in Jobs, link[k] # 0, excuse[link[k]] = {}
        PROVE  Sync(conn'[link[k]], pc[k], res[k], call[k])
    <3>1. CASE link[k] = c
      <4>1. k = u
        BY <1>1, <1>2, <2>1, <3>1 DEF ClientInv, Shared
      <4> QED
        BY <1>16, <2>1, <3>1, <4>1 DEF Sync
    <3>2. CASE link[k] # c
      <4>1. conn'[link[k]] = conn[link[k]]
        BY <1>1, <1>9, <2>1, <3>2
      <4> QED
        BY <2>1, <4>1, Zenon DEF ClientInv, InStep
    <3> QED
      BY <3>1, <3>2
  <2>2. ASSUME NEW h \in Hosts, pool[h] # 0, excuse[pool[h]] = {},
               \A k \in Jobs : link[k] # pool[h]
        PROVE  Quiet(conn'[pool[h]])
    <3>1. pool[h] # c /\ pool[h] \in Links
      BY <1>1, <1>2, <2>2
    <3>2. conn'[pool[h]] = conn[pool[h]]
      BY <1>9, <3>1
    <3> QED
      BY <2>2, <3>2, Zenon DEF ClientInv, InStep
  <2> QED
    BY <1>4, <2>1, <2>2, Zenon DEF InStep
<1>18. OwnResponse' /\ NoGarbage'
  BY <1>4, Zenon DEF ClientInv, OwnResponse, NoGarbage
<1> QED
  BY <1>12, <1>13, <1>14, <1>15, <1>17, <1>18, Zenon DEF ClientInv

-----------------------------------------------------------------------------
(* The ways in which a step of a call goes on, or ends.                     *)

\* Only these fields of a connection matter to the call that uses it.
LEMMA SyncSame ==
  ASSUME NEW l, NEW m, l.state = m.state, l.retained = m.retained, l.inbox = m.inbox,
         l.outbox = m.outbox, l.gone = m.gone, NEW p, NEW r, NEW cl, Sync(l, p, r, cl)
  PROVE  Sync(m, p, r, cl)
<1>1. Quiet(l) <=> Quiet(m)
  BY DEF Quiet
<1>2. HeadSent(l, cl) <=> HeadSent(m, cl)
  BY DEF HeadSent
<1>3. Asked(l, cl) <=> Asked(m, cl)
  BY DEF Asked
<1>4. \A code, f, k : Stream(l, cl, code, f, k) <=> Stream(m, cl, code, f, k)
  BY Zenon DEF Stream
<1>5. AnswerDue(l, cl) <=> AnswerDue(m, cl)
  BY <1>1, <1>4, Zenon DEF AnswerDue
<1>6. BeingRead(l, p, r, cl) <=> BeingRead(m, p, r, cl)
  BY <1>4, Zenon DEF BeingRead
<1> QED
  BY <1>1, <1>2, <1>3, <1>5, <1>6, Zenon DEF Sync

\* Where a call is, the connection it uses is in step or excused.
LEMMA SyncNow ==
  ASSUME ClientInv, NEW j \in Jobs, link[j] # 0
  PROVE  /\ link[j] \in Links /\ conn[link[j]] \in Conns /\ BodyFirst(conn[link[j]])
         /\ excuse[link[j]] \in SUBSET Excuses
         /\ (excuse[link[j]] = {} => Sync(conn[link[j]], pc[j], res[j], call[j]))
<1>1. Typed /\ FirstHop /\ InStep
  BY Zenon DEF ClientInv
<1>2. link[j] \in Links /\ conn[link[j]] \in Conns /\ excuse[link[j]] \in SUBSET Excuses
  BY <1>1, CallTypes
<1>3. BodyFirst(conn[link[j]])
  BY <1>1, <1>2, BodyFirstAll
<1>4. excuse[link[j]] = {} => Sync(conn[link[j]], pc[j], res[j], call[j])
  BY <1>1, Zenon DEF InStep
<1> QED
  BY <1>2, <1>3, <1>4

\* The call goes on, and has read nothing.
LEMMA MovesKeeps ==
  ASSUME ClientInv, NEW j \in Jobs, link[j] # 0,
         NEW p \in Places \ {"idle", "lookup"}, NEW l \in Conns, NEW ex \in SUBSET Excuses,
         pc' = [pc EXCEPT ![j] = p], conn' = [conn EXCEPT ![link[j]] = l],
         excuse' = Excused(link[j], ex),
         UNCHANGED <<use, begun, call, link, res, last, length, pool>>, Timed,
         p \in {"open", "handshake"} => pc[j] \in {"open", "handshake"},
         p = "body" => call[j].body,
         Poolable(j, l), BodyFirst(l),
         excuse[link[j]] \cup ex = {} => Sync(l, p, res[j], call[j])
  PROVE  ClientInv'
<1>1. res[j] \in Responses /\ res \in [Jobs -> Responses]
  BY CallTypes, Zenon DEF ClientInv, Typed
<1>2. res' = [res EXCEPT ![j] = res[j]]
  BY <1>1
<1>3. InPlace(j, p, res[j], l, ex)
  BY <1>2, Zenon DEF InPlace, Excused
<1> QED
  BY <1>1, <1>3, InPlaceKeeps

\* Nothing is added to the excuses of a connection.
LEMMA NotExcused ==
  ASSUME Typed, NEW c \in Links
  PROVE  excuse = Excused(c, {}) /\ {} \in SUBSET Excuses /\ excuse[c] \cup {} = excuse[c]
<1>1. excuse \in [Links -> SUBSET Excuses]
  BY Zenon DEF Typed
<1> QED
  BY <1>1 DEF Excused

\* The call waits, and touches no more than the mode of the descriptor.
LEMMA WaitsKeeps ==
  ASSUME ClientInv, NEW j \in Jobs, link[j] # 0, NEW l \in Conns,
         conn' = [conn EXCEPT ![link[j]] = l],
         UNCHANGED <<use, begun, jobs, length, pool, excuse>>, Timed,
         l.state = conn[link[j]].state, l.retained = conn[link[j]].retained,
         l.inbox = conn[link[j]].inbox, l.outbox = conn[link[j]].outbox,
         l.gone = conn[link[j]].gone
  PROVE  ClientInv'
<1>1. /\ link[j] \in Links /\ BodyFirst(conn[link[j]]) /\ Typed
      /\ (excuse[link[j]] = {} => Sync(conn[link[j]], pc[j], res[j], call[j]))
  BY SyncNow, Zenon DEF ClientInv
<1>2. /\ use' = use /\ begun' = begun /\ call' = call /\ pc' = pc /\ link' = link
      /\ res' = res /\ last' = last /\ length' = length /\ pool' = pool /\ excuse' = excuse
  BY Zenon DEF jobs
<1>3. pc[j] \in Places \ {"idle", "lookup"} /\ pc' = [pc EXCEPT ![j] = pc[j]]
  <2>1. pc \in [Jobs -> Places] /\ (pc[j] \in {"idle", "lookup"} <=> link[j] = 0)
    BY Zenon DEF ClientInv, Typed, Linked
  <2> QED
    BY <1>2, <2>1
<1>4. excuse' = Excused(link[j], {}) /\ excuse[link[j]] \cup {} = excuse[link[j]]
  BY <1>1, <1>2, NotExcused
<1>5. Poolable(j, l) /\ BodyFirst(l) /\ {} \in SUBSET Excuses
  BY <1>1 DEF Poolable, BodyFirst
<1>6. excuse[link[j]] \cup {} = {} => Sync(l, pc[j], res[j], call[j])
  <2> HAVE excuse[link[j]] \cup {} = {}
  <2>1. Sync(conn[link[j]], pc[j], res[j], call[j])
    BY <1>1, <1>4
  <2> QED
    BY <2>1, SyncSame
<1>7. pc[j] = "body" => call[j].body
  BY Zenon DEF ClientInv, Called
<1> QED
  BY <1>2, <1>3, <1>4, <1>5, <1>6, <1>7, MovesKeeps

\* What the program is told of a call that reads its own response is right.
LEMMA EndsKeeps ==
  ASSUME ClientInv, NEW j \in Jobs, link[j] # 0, NEW why \in Reasons, NEW l \in Conns,
         Ends(j, why, [conn EXCEPT ![link[j]] = l]),
         NEW ex \in SUBSET Excuses, excuse' = Excused(link[j], ex),
         Poolable(j, l), BodyFirst(l),
         excuse[link[j]] = {} => /\ why # "garbage"
                                 /\ why = "no" => res[j].got = Datas(call[j]),
         excuse[link[j]] \cup ex = {} /\ pc[j] \notin {"open", "handshake"} => Quiet(l)
  PROVE  ClientInv'
<1> DEFINE w == [call |-> call[j], got |-> res[j].got, raised |-> why,
                 clean |-> link[j] = 0 \/ excuse[link[j]] = {}]
<1>1. /\ Typed /\ call[j] \in CallRecords /\ res[j] \in Responses /\ link[j] \in Links
      /\ waits \in [Jobs -> Links \cup {0}] /\ length \in BOOLEAN
  BY CallTypes, Zenon DEF ClientInv, Typed
<1>2. w \in Results
  <2>1. (link[j] = 0 \/ excuse[link[j]] = {}) \in BOOLEAN /\ res[j].got \in Seq(Pieces)
    BY <1>1 DEF Responses
  <2> QED
    BY <1>1, <2>1 DEF Results
<1>3. Fair(w)
  BY DEF Fair
<1> HIDE DEF w
<1>4. NoResponse \in Responses /\ NoCall \in CallRecords /\ ~NoCall.body
  <2>1. Calls \in Nat /\ Body \in Nat /\ (CHOOSE h \in Hosts : TRUE) \in Hosts
    BY BoundAssumption, HostAssumption
  <2> QED
    BY <2>1 DEF NoCall, CallRecords, NoResponse, Responses, Framings
<1>5. Timed
  <2>1. /\ current' = Nobody /\ waits' = [waits EXCEPT ![j] = 0] /\ loop' = loop
        /\ loop \in {"alive", "ended"}
    BY <1>1, Zenon DEF Ends, Typed
  <2>2. waits' \in [Jobs -> Links \cup {0}]
    BY <1>1, <2>1
  <2> QED
    BY <2>1, <2>2 DEF Timed
<1>6. Leaves(j, "idle", NoCall, NoResponse, w, l, ex)
  <2>1. /\ pc' = [pc EXCEPT ![j] = "idle"] /\ call' = [call EXCEPT ![j] = NoCall]
        /\ res' = [res EXCEPT ![j] = NoResponse] /\ last' = [last EXCEPT ![j] = w]
        /\ link' = [link EXCEPT ![j] = 0] /\ conn' = [conn EXCEPT ![link[j]] = l]
        /\ use' = use /\ begun' = begun /\ pool' = pool /\ length' = length
    BY Zenon DEF Ends, w
  <2>2. excuse' = [excuse EXCEPT ![link[j]] = @ \cup ex]
    BY DEF Excused
  <2> QED
    BY <1>1, <1>5, <2>1, <2>2, Zenon DEF Leaves
<1> QED
  BY <1>2, <1>3, <1>4, <1>6, LeavesKeeps

\* An error leaves the connection excused, unless nothing can be left on it.
LEMMA RaisesKeeps ==
  ASSUME ClientInv, NEW j \in Jobs, link[j] # 0, NEW why \in Reasons \ {"no"}, NEW l \in Conns,
         Raises(j, why, [conn EXCEPT ![link[j]] = l]),
         Poolable(j, l), BodyFirst(l),
         excuse[link[j]] = {} => why # "garbage",
         l.state # "ready" /\ pc[j] \notin {"open", "handshake"} => Quiet(l)
  PROVE  ClientInv'
<1>1. link[j] \in Links /\ conn \in [Links -> Conns] /\ Typed
  BY CallTypes, Zenon DEF ClientInv, Typed
<1>2. Ends(j, why, [conn EXCEPT ![link[j]] = l])
  BY Zenon DEF Raises
<1>3. [conn EXCEPT ![link[j]] = l][link[j]] = l
  BY <1>1
<1>4. excuse' = IF l.state = "ready" THEN Excused(link[j], {"stray"}) ELSE excuse
  BY <1>3, Zenon DEF Raises
<1>5. CASE l.state = "ready"
  <2>1. {"stray"} \in SUBSET Excuses /\ excuse[link[j]] \cup {"stray"} # {}
    BY DEF Excuses
  <2>2. excuse' = Excused(link[j], {"stray"})
    BY <1>4, <1>5
  <2> QED
    BY <1>2, <2>1, <2>2, EndsKeeps
<1>6. CASE l.state # "ready"
  <2>1. /\ excuse' = Excused(link[j], {}) /\ {} \in SUBSET Excuses
        /\ excuse[link[j]] \cup {} = excuse[link[j]]
    BY <1>1, <1>4, <1>6, NotExcused
  <2> QED
    BY <1>2, <1>6, <2>1, EndsKeeps
<1> QED
  BY <1>5, <1>6

\* Where a call is, it has a connection.
LEMMA HasLink ==
  ASSUME ClientInv, NEW j \in Jobs, pc[j] \notin {"idle", "lookup"}
  PROVE  link[j] # 0
BY Zenon DEF ClientInv, Linked

-----------------------------------------------------------------------------
(* Opening a connection.                                                    *)

\* The socket that open returns.
LEMMA ReadyOrClosed ==
  ASSUME NEW l \in Conns, NEW s \in {"ready", "closed"}
  PROVE  /\ [l EXCEPT !.state = s] \in Conns /\ [l EXCEPT !.state = s].state = s
         /\ (BodyFirst(l) => BodyFirst([l EXCEPT !.state = s]))
         /\ (Quiet(l) => Quiet([l EXCEPT !.state = s]))
BY DEF Conns, BodyFirst, Quiet

\* What is left of a socket that has been closed.
ClosedConn == [NewConn EXCEPT !.state = "closed"]

LEMMA ClosedTyped ==
  ClosedConn \in Conns /\ Quiet(ClosedConn) /\ BodyFirst(ClosedConn) /\ ClosedConn.state = "closed"
BY NewConnTyped, ReadyOrClosed DEF ClosedConn

LEMMA ResolveWaitsKeeps ==
  ASSUME ClientInv, NEW j \in Jobs, ResolveWaits(j) PROVE ClientInv'
<1>1. pc[j] = "open" /\ link[j] # 0 /\ Yields(j) /\ conn' \in {conn, Closed(j)}
  BY HasLink DEF ResolveWaits
<1>2. /\ link[j] \in Links /\ conn[link[j]] \in Conns /\ Typed
      /\ (excuse[link[j]] = {} => Sync(conn[link[j]], pc[j], res[j], call[j]))
  BY <1>1, SyncNow, Zenon DEF ClientInv
<1>3. Timed /\ UNCHANGED <<use, begun, jobs, length, pool, excuse>>
  BY <1>1, <1>2, YieldsTimed, Zenon DEF ResolveWaits
<1>4. CASE conn' = conn
  <2>1. conn' = [conn EXCEPT ![link[j]] = conn[link[j]]]
    BY <1>2, <1>4 DEF Typed
  <2> QED
    BY <1>1, <1>2, <1>3, <2>1, WaitsKeeps
<1>5. CASE conn' = Closed(j)
  <2> DEFINE l == ClosedConn
  <2>1. l \in Conns /\ Quiet(l) /\ BodyFirst(l) /\ l.state = "closed"
    BY ClosedTyped
  <2>2. conn' = [conn EXCEPT ![link[j]] = l]
    BY <1>5 DEF Closed, ClosedConn
  <2> HIDE DEF l
  <2>3. pc \in [Jobs -> Places] /\ pc' = pc
    BY <1>2, <1>3, Zenon DEF Typed, jobs
  <2>4. pc' = [pc EXCEPT ![j] = "open"]
    BY <1>1, <2>3
  <2>5. /\ excuse' = Excused(link[j], {}) /\ {} \in SUBSET Excuses
        /\ UNCHANGED <<use, begun, call, link, res, last, length, pool>>
    BY <1>2, <1>3, NotExcused DEF jobs
  <2>6. Poolable(j, l) /\ "open" \in Places \ {"idle", "lookup"}
    BY <1>1 DEF Poolable, Places
  <2>7. Sync(l, "open", res[j], call[j])
    BY <2>1 DEF Sync
  <2> QED
    BY <1>1, <1>3, <2>1, <2>2, <2>4, <2>5, <2>6, <2>7, MovesKeeps
<1> QED
  BY <1>1, <1>4, <1>5

LEMMA HandshakeWaitsKeeps ==
  ASSUME ClientInv, NEW j \in Jobs, HandshakeWaits(j) PROVE ClientInv'
<1>1. pc[j] = "handshake" /\ link[j] # 0 /\ Yields(j)
  BY HasLink DEF HandshakeWaits
<1>2. link[j] \in Links /\ conn[link[j]] \in Conns /\ Typed
  BY <1>1, SyncNow, Zenon DEF ClientInv
<1>3. /\ Timed /\ UNCHANGED <<use, begun, jobs, length, pool, excuse>>
      /\ conn' = [conn EXCEPT ![link[j]] = conn[link[j]]]
  <2>1. Timed /\ UNCHANGED <<use, begun, jobs, length, pool, excuse>> /\ conn' = conn
    BY <1>1, <1>2, YieldsTimed, Zenon DEF HandshakeWaits
  <2> QED
    BY <1>2, <2>1 DEF Typed
<1> QED
  BY <1>1, <1>2, <1>3, WaitsKeeps

\* Once an address has been found, or not even that.
LEMMA ConnectedKeeps ==
  ASSUME ClientInv, NEW j \in Jobs, pc[j] = "open", NEW l \in Conns, Connected(j, l),
         BodyFirst(l), excuse[link[j]] = {} => Quiet(l)
  PROVE  ClientInv'
<1>1. link[j] # 0
  BY HasLink
<1>2. link[j] \in Links /\ Typed
  BY <1>1, SyncNow, Zenon DEF ClientInv
<1>3. CASE call[j].host \in Https
  <2> DEFINE m == [l EXCEPT !.state = "handshake", !.nonblock = TRUE]
  <2>1. m \in Conns /\ BodyFirst(m) /\ (Quiet(l) => Quiet(m)) /\ m.state = "handshake"
    BY DEF Conns, BodyFirst, Quiet
  <2>2. /\ conn' = [conn EXCEPT ![link[j]] = m] /\ pc' = [pc EXCEPT ![j] = "handshake"]
        /\ Goes(j) /\ UNCHANGED <<use, begun, call, link, res, last, length, pool, excuse>>
    BY <1>3 DEF Connected
  <2> HIDE DEF m
  <2>3. Timed
    BY <1>2, <2>2, GoesTimed
  <2>4. /\ excuse' = Excused(link[j], {}) /\ {} \in SUBSET Excuses
        /\ excuse[link[j]] \cup {} = excuse[link[j]]
    BY <1>2, <2>2, NotExcused
  <2>5. Poolable(j, m) /\ "handshake" \in Places \ {"idle", "lookup"}
    BY DEF Poolable, Places
  <2>6. excuse[link[j]] \cup {} = {} => Sync(m, "handshake", res[j], call[j])
    BY <2>1, <2>4 DEF Sync
  <2>7. UNCHANGED <<use, begun, call, link, res, last, length, pool>>
    BY <2>2
  <2> QED
    BY <1>1, <2>1, <2>2, <2>3, <2>4, <2>5, <2>6, <2>7, MovesKeeps
<1>4. CASE call[j].host \notin Https
  <2> DEFINE m == [l EXCEPT !.state = "ready"]
  <2>1. Opened(j, m)
    BY <1>4 DEF Connected
  <2>2. m \in Conns /\ m.state \in {"ready", "closed"} /\ BodyFirst(m) /\ (Quiet(l) => Quiet(m))
    BY ReadyOrClosed
  <2> HIDE DEF m
  <2> QED
    BY <2>1, <2>2, OpenedKeeps
<1> QED
  BY <1>3, <1>4

\* A connection that is being opened has nothing on its way.
LEMMA OpeningQuiet ==
  ASSUME ClientInv, NEW j \in Jobs, pc[j] \in {"open", "handshake"}
  PROVE  /\ link[j] # 0 /\ link[j] \in Links /\ conn[link[j]] \in Conns
         /\ BodyFirst(conn[link[j]])
         /\ (excuse[link[j]] = {} => Quiet(conn[link[j]]))
<1>1. link[j] # 0
  BY HasLink
<1> QED
  BY <1>1, SyncNow DEF Sync

\* An open that fails leaves nothing.
LEMMA DroppedKeeps ==
  ASSUME ClientInv, NEW j \in Jobs, pc[j] \in {"open", "handshake"},
         NEW why \in {"open", "yield"}, Raises(j, why, Dropped(j))
  PROVE  ClientInv'
<1>1. link[j] # 0
  BY OpeningQuiet
<1>2. NewConn \in Conns /\ BodyFirst(NewConn) /\ NewConn.state = "resolving"
  BY NewConnTyped DEF NewConn
<1>3. Raises(j, why, [conn EXCEPT ![link[j]] = NewConn])
  BY DEF Dropped
<1>4. Poolable(j, NewConn) /\ why \in Reasons \ {"no"} /\ why # "garbage"
  BY DEF Poolable, Reasons
<1> QED
  BY <1>1, <1>2, <1>3, <1>4, RaisesKeeps

LEMMA ResolveKeeps == ASSUME ClientInv, NEW j \in Jobs, Resolve(j) PROVE ClientInv'
<1>1. pc[j] = "open" /\ (Connected(j, conn[link[j]]) \/ Raises(j, "open", Dropped(j)))
  BY DEF Resolve
<1>2. CASE Connected(j, conn[link[j]])
  BY <1>1, <1>2, OpeningQuiet, ConnectedKeeps
<1>3. CASE Raises(j, "open", Dropped(j))
  BY <1>1, <1>3, DroppedKeeps
<1> QED
  BY <1>1, <1>2, <1>3

LEMMA OpenedClosedKeeps == ASSUME ClientInv, NEW j \in Jobs, OpenedClosed(j) PROVE ClientInv'
<1>1. pc[j] = "open" /\ conn[link[j]].state = "closed" /\ Opened(j, conn[link[j]])
  BY DEF OpenedClosed
<1> QED
  BY <1>1, OpeningQuiet, OpenedKeeps

LEMMA ConnectNowhereKeeps ==
  ASSUME ClientInv, NEW j \in Jobs, ConnectNowhere(j) PROVE ClientInv'
<1> DEFINE l == conn[link[j]]
           m == [l EXCEPT !.gone = TRUE]
<1>1. pc[j] = "open" /\ Connected(j, m)
  BY DEF ConnectNowhere
<1>2. l \in Conns /\ BodyFirst(l) /\ (excuse[link[j]] = {} => Quiet(l))
  BY <1>1, OpeningQuiet
<1>3. m \in Conns /\ BodyFirst(m) /\ (Quiet(l) => Quiet(m))
  BY <1>2 DEF Conns, BodyFirst, Quiet
<1> HIDE DEF m
<1> QED
  BY <1>1, <1>2, <1>3, ConnectedKeeps

LEMMA HandshakeKeeps == ASSUME ClientInv, NEW j \in Jobs, Handshake(j) PROVE ClientInv'
<1> DEFINE l == conn[link[j]]
           m == [l EXCEPT !.state = "ready"]
           why == IF j \in use.main THEN "yield" ELSE "open"
<1>1. pc[j] = "handshake" /\ (Opened(j, m) \/ Raises(j, why, Dropped(j)))
  BY DEF Handshake
<1>2. l \in Conns /\ BodyFirst(l) /\ (excuse[link[j]] = {} => Quiet(l))
  BY <1>1, OpeningQuiet
<1>3. m \in Conns /\ m.state \in {"ready", "closed"} /\ BodyFirst(m) /\ (Quiet(l) => Quiet(m))
  BY <1>2, ReadyOrClosed
<1>4. why \in {"open", "yield"}
  OBVIOUS
<1> HIDE DEF m, why
<1>5. CASE Opened(j, m)
  BY <1>1, <1>2, <1>3, <1>5, OpenedKeeps
<1>6. CASE Raises(j, why, Dropped(j))
  BY <1>1, <1>4, <1>6, DroppedKeeps
<1> QED
  BY <1>1, <1>5, <1>6

-----------------------------------------------------------------------------
(* Writing a request.                                                       *)

\* A request that is written, or torn.
LEMMA RequestTyped ==
  ASSUME ClientInv, NEW j \in Jobs, pc[j] # "idle", NEW part \in {"head", "body", "torn"}
  PROVE  /\ Request(j, part) \in Requests /\ ClaimsBody(j) \in BOOLEAN
         /\ Request(j, part).part = part /\ Request(j, part).hop = call[j].hop
         /\ Request(j, part).id = call[j].id /\ Request(j, part).length = ClaimsBody(j)
<1>1. call[j] \in CallRecords /\ call[j].id # 0 /\ length \in BOOLEAN
  BY CallTypes, Zenon DEF ClientInv, Typed, Called
<1>2. /\ call[j].id \in 0 .. Calls /\ call[j].hop \in Nat
      /\ call[j].own \in BOOLEAN /\ call[j].body \in BOOLEAN
  BY <1>1 DEF CallRecords
<1>3. ClaimsBody(j) \in BOOLEAN
  BY <1>1, <1>2, Zenon DEF ClaimsBody
<1>4. call[j].id \in 1 .. Calls
  BY <1>1, <1>2, BoundAssumption
<1> HIDE DEF ClaimsBody
<1> QED
  BY <1>2, <1>3, <1>4 DEF Request, Requests

\* The socket for a send is the socket, in another mode.
LEMMA ForSendKeeps ==
  ASSUME NEW j, conn[link[j]] \in Conns
  PROVE  /\ ForSend(j) \in Conns
         /\ ForSend(j).state = conn[link[j]].state
         /\ ForSend(j).retained = conn[link[j]].retained
         /\ ForSend(j).inbox = conn[link[j]].inbox
         /\ ForSend(j).outbox = conn[link[j]].outbox
         /\ ForSend(j).gone = conn[link[j]].gone
<1> DEFINE b == TRUE
           l == conn[link[j]]
<1>1. b \in BOOLEAN /\ l \in Conns
  OBVIOUS
<1> HIDE DEF b, l
<1>2. CASE l.state = "ready"
  <2>1. ForSend(j) = Set(l, b)
    BY <1>2 DEF ForSend, b, l
  <2> QED
    BY <1>1, <2>1, SetKeeps DEF l
<1>3. CASE l.state # "ready"
  BY <1>1, <1>3 DEF ForSend, l
<1> QED
  BY <1>2, <1>3

\* What is written follows what has been.
LEMMA AppendKeeps ==
  ASSUME NEW l \in Conns, BodyFirst(l), NEW q \in Requests, q.part = "body" => q.hop = 0,
         NEW m, m = [l EXCEPT !.outbox = Append(@, q)]
  PROVE  /\ m \in Conns /\ BodyFirst(m) /\ m.outbox = Append(l.outbox, q)
         /\ m.state = l.state /\ m.retained = l.retained /\ m.inbox = l.inbox
         /\ m.gone = l.gone
<1>1. l.outbox \in Seq(Requests)
  BY ConnFields
<1>2. /\ Append(l.outbox, q) \in Seq(Requests)
      /\ DOMAIN Append(l.outbox, q) = 1 .. (Len(l.outbox) + 1)
      /\ \A i \in 1 .. Len(l.outbox) : Append(l.outbox, q)[i] = l.outbox[i]
      /\ Append(l.outbox, q)[Len(l.outbox) + 1] = q /\ Len(l.outbox) \in Nat
      /\ DOMAIN l.outbox = 1 .. Len(l.outbox)
  BY <1>1
<1>3. m.outbox = Append(l.outbox, q)
  BY DEF Conns
<1>4. BodyFirst(m)
  <2> SUFFICES ASSUME NEW i \in DOMAIN m.outbox, m.outbox[i].part = "body"
               PROVE  m.outbox[i].hop = 0
    BY DEF BodyFirst
  <2>1. i \in 1 .. Len(l.outbox) \/ i = Len(l.outbox) + 1
    BY <1>2, <1>3
  <2> QED
    BY <1>2, <1>3, <2>1 DEF BodyFirst
<1>5. m \in Conns
  BY <1>2 DEF Conns
<1> QED
  BY <1>3, <1>4, <1>5 DEF Conns

\* The head has been written, and the body is next, or the response.
LEMMA SentKeeps ==
  ASSUME ClientInv, NEW j \in Jobs, pc[j] \in {"head", "body"}, NEW l \in Conns,
         NEW what \in SUBSET Excuses, Sent(j, l, what),
         l.state = conn[link[j]].state, BodyFirst(l),
         excuse[link[j]] \cup what = {} =>
           IF NextPart(j) = "body" THEN HeadSent(l, call[j])
           ELSE LET m == [l EXCEPT !.retained = <<>>]
                IN Asked(m, call[j]) \/ AnswerDue(m, call[j])
  PROVE  ClientInv'
<1> DEFINE n == [l EXCEPT !.retained = <<>>]
           m == IF NextPart(j) = "body" THEN l ELSE n
           p == NextPart(j)
<1>1. link[j] # 0 /\ Typed
  BY HasLink, Zenon DEF ClientInv
<1>2. /\ conn' = [conn EXCEPT ![link[j]] = m] /\ excuse' = Excused(link[j], what)
      /\ pc' = [pc EXCEPT ![j] = p] /\ Goes(j)
      /\ UNCHANGED <<use, begun, call, link, res, last, length, pool>>
  BY DEF Sent
<1>3. n \in Conns /\ n.state = l.state /\ BodyFirst(n)
  <2>1. <<>> \in Seq(Pieces)
    OBVIOUS
  <2> QED
    BY <2>1 DEF Conns, BodyFirst
<1> HIDE DEF n
<1>4. m \in Conns /\ m.state = l.state /\ BodyFirst(m)
  BY <1>3
<1>5. /\ p \in {"body", "response"} /\ (p = "body" => call[j].body)
      /\ p \in Places \ {"idle", "lookup"} /\ p \notin {"open", "handshake"}
  BY DEF NextPart, Places
<1>6. Timed
  BY <1>1, <1>2, GoesTimed
<1>7. ASSUME excuse[link[j]] \cup what = {} PROVE Sync(m, p, res[j], call[j])
  <2>1. CASE p = "body"
    BY <1>7, <2>1 DEF Sync
  <2>2. CASE p = "response"
    <3>1. m = n
      BY <2>2
    <3> QED
      BY <1>7, <2>2, <3>1 DEF Sync, n
  <2> QED
    BY <1>5, <2>1, <2>2
<1> HIDE DEF m, p
<1>8. Poolable(j, m)
  BY <1>4 DEF Poolable
<1> QED
  BY <1>1, <1>2, <1>4, <1>5, <1>6, <1>7, <1>8, MovesKeeps

LEMMA MisleadsTyped ==
  ASSUME NEW j PROVE Misleads(j) \in SUBSET Excuses /\ {"torn"} \in SUBSET Excuses
BY DEF Misleads, Excuses

\* All of it is written.
LEMMA SendKeeps == ASSUME ClientInv, NEW j \in Jobs, Send(j) PROVE ClientInv'
<1> DEFINE c == conn[link[j]]
           l == ForSend(j)
           q == Request(j, pc[j])
           a == [l EXCEPT !.outbox = Append(@, q)]
           m == IF l.state = "ready" /\ ~l.gone THEN a ELSE l
<1>1. pc[j] \in {"head", "body"} /\ Sent(j, m, Misleads(j))
  BY DEF Send
<1>2. link[j] # 0
  BY <1>1, HasLink
<1>3. c \in Conns /\ BodyFirst(c) /\ (excuse[link[j]] = {} => Sync(c, pc[j], res[j], call[j]))
  BY <1>2, SyncNow
<1>4. /\ q \in Requests /\ q.part = pc[j] /\ ClaimsBody(j) \in BOOLEAN /\ q.hop = call[j].hop
      /\ q.id = call[j].id /\ q.length = ClaimsBody(j)
  BY <1>1, RequestTyped
<1>5. q = [id |-> call[j].id, hop |-> call[j].hop, part |-> pc[j], length |-> ClaimsBody(j)]
  BY DEF Request
<1>6. /\ l \in Conns /\ l.state = c.state /\ l.retained = c.retained /\ l.inbox = c.inbox
      /\ l.outbox = c.outbox /\ l.gone = c.gone
  BY <1>3, ForSendKeeps
<1> HIDE DEF l, q
<1>7. BodyFirst(l)
  BY <1>3, <1>6 DEF BodyFirst
<1>8. q.part = "body" => q.hop = 0
  BY <1>1, <1>4, Zenon DEF ClientInv, Called
<1>9. /\ a \in Conns /\ BodyFirst(a) /\ a.outbox = Append(l.outbox, q)
      /\ a.state = l.state /\ a.retained = l.retained /\ a.inbox = l.inbox /\ a.gone = l.gone
  BY <1>6, <1>7, <1>4, <1>8, AppendKeeps
<1> HIDE DEF a
<1>10. /\ m \in Conns /\ BodyFirst(m) /\ m.state = c.state /\ m.gone = c.gone
       /\ m.retained = c.retained /\ m.inbox = c.inbox
       /\ m.outbox = IF c.state = "ready" /\ ~c.gone THEN Append(c.outbox, q) ELSE c.outbox
  BY <1>6, <1>7, <1>9
<1> HIDE DEF m
<1> DEFINE n == [m EXCEPT !.retained = <<>>]
<1>11. /\ n.state = c.state /\ n.gone = c.gone /\ n.retained = <<>> /\ n.inbox = c.inbox
       /\ n.outbox = m.outbox
  BY <1>10 DEF Conns
<1> HIDE DEF n
<1>12. ASSUME excuse[link[j]] \cup Misleads(j) = {}, pc[j] = "head"
       PROVE  IF NextPart(j) = "body" THEN HeadSent(m, call[j])
              ELSE Asked(n, call[j]) \/ AnswerDue(n, call[j])
  <2>1. excuse[link[j]] = {} /\ Misleads(j) = {}
    BY <1>12
  <2>2. Quiet(c) /\ ClaimsBody(j) = call[j].body
    BY <1>3, <1>12, <2>1 DEF Sync, Misleads
  <2>3. NextPart(j) = IF call[j].body THEN "body" ELSE "response"
    BY <1>12 DEF NextPart
  <2>4. Append(<<>>, q) = <<q>>
    OBVIOUS
  <2>5. CASE c.state = "ready" /\ ~c.gone
    <3>1. m.outbox = <<q>>
      BY <1>10, <2>2, <2>4, <2>5 DEF Quiet
    <3>2. CASE call[j].body
      <4>1. ClaimsBody(j) = TRUE
        BY <1>4, <2>2, <3>2, Zenon
      <4> QED
        BY <1>5, <1>10, <1>12, <2>2, <2>3, <2>5, <3>1, <3>2, <4>1 DEF HeadSent, Quiet
    <3>3. CASE ~call[j].body
      <4>1. n.outbox = <<q>> /\ q.part = "head" /\ ~q.length
        BY <1>4, <1>11, <1>12, <2>2, <3>1, <3>3
      <4>2. Whole(<<q>>) = 1 /\ Len(<<q>>) = 1 /\ <<q>> # <<>> /\ <<q>>[1] = q
        BY <4>1 DEF Whole
      <4> QED
        BY <1>4, <1>11, <2>2, <2>3, <3>3, <4>1, <4>2 DEF Asked, Quiet
    <3> QED
      BY <3>2, <3>3
  <2>6. CASE ~(c.state = "ready" /\ ~c.gone)
    <3>1. m.outbox = <<>> /\ Quiet(n)
      BY <1>10, <1>11, <2>2, <2>6 DEF Quiet
    <3>2. CASE call[j].body
      BY <1>10, <2>2, <2>3, <2>6, <3>1, <3>2 DEF HeadSent, Quiet
    <3>3. CASE ~call[j].body
      <4>1. Stream(n, call[j], "ok", "sized", 0)
        BY <3>1, AheadNone DEF Stream, Quiet
      <4>2. "ok" \in Answers /\ "sized" \in Framings
        BY DEF Answers, Framings
      <4>3. AnswerDue(n, call[j])
        BY <3>1, <4>1, <4>2, Zenon DEF AnswerDue, Quiet
      <4> QED
        BY <2>3, <3>3, <4>3
    <3> QED
      BY <3>2, <3>3
  <2> QED
    BY <2>5, <2>6
<1>13. ASSUME excuse[link[j]] \cup Misleads(j) = {}, pc[j] = "body"
       PROVE  Asked(n, call[j]) \/ AnswerDue(n, call[j])
  <2>1. excuse[link[j]] = {}
    BY <1>13
  <2>2. HeadSent(c, call[j])
    BY <1>3, <1>13, <2>1 DEF Sync
  <2>3. CASE c.state = "ready" /\ ~c.gone
    <3> DEFINE h == [id |-> call[j].id, hop |-> call[j].hop, part |-> "head", length |-> TRUE]
    <3>1. c.outbox = <<h>> /\ n.outbox = Append(c.outbox, q)
      BY <1>10, <1>11, <2>2, <2>3 DEF HeadSent
    <3>2. h.part = "head" /\ h.length /\ h.id = call[j].id /\ h.hop = call[j].hop
      OBVIOUS
    <3> HIDE DEF h
    <3> DEFINE o == n.outbox
    <3>3. o \in Seq(Requests) /\ Len(o) = 2 /\ o[1] = h /\ o[2] = q
      <4>1. c.outbox \in Seq(Requests) /\ Len(c.outbox) = 1 /\ c.outbox[1] = h
        <5>1. Len(<<h>>) = 1 /\ <<h>>[1] = h
          OBVIOUS
        <5> QED
          BY <1>3, <3>1, <5>1, ConnFields
      <4>2. o = Append(c.outbox, q)
        BY <3>1
      <4> HIDE DEF o
      <4> QED
        BY <1>4, <4>1, <4>2
    <3> HIDE DEF o
    <3>4. Whole(o) = 2 /\ o # <<>>
      <4>1. q.part = "body" /\ o # <<>> /\ Len(o) >= 2
        <5>1. q.part = "body"
          BY <1>4, <1>13
        <5>2. o # <<>> /\ Len(o) >= 2
          BY <3>3
        <5> QED
          BY <5>1, <5>2
      <4> QED
        BY <3>2, <3>3, <4>1 DEF Whole
    <3>5. n.retained = <<>> /\ n.inbox = <<>>
      BY <1>11, <2>2 DEF HeadSent
    <3> QED
      BY <3>2, <3>3, <3>4, <3>5 DEF Asked, o
  <2>4. CASE ~(c.state = "ready" /\ ~c.gone)
    <3>1. Quiet(n)
      BY <1>10, <1>11, <2>2, <2>4 DEF Quiet, HeadSent
    <3>2. Stream(n, call[j], "ok", "sized", 0)
      BY <3>1, AheadNone DEF Stream, Quiet
    <3>3. "ok" \in Answers /\ "sized" \in Framings
      BY DEF Answers, Framings
    <3>4. AnswerDue(n, call[j])
      BY <3>1, <3>2, <3>3, Zenon DEF AnswerDue, Quiet
    <3> QED
      BY <3>4
  <2> QED
    BY <2>3, <2>4
<1>14. pc[j] = "body" => NextPart(j) # "body"
  BY DEF NextPart
<1> QED
  BY <1>1, <1>10, <1>12, <1>13, <1>14, MisleadsTyped, SentKeeps DEF n

\* Part of it is written.
LEMMA SendSomeKeeps == ASSUME ClientInv, NEW j \in Jobs, SendSome(j) PROVE ClientInv'
<1> DEFINE l == ForSend(j)
           q == Request(j, "torn")
           m == [l EXCEPT !.outbox = Append(@, q)]
           what == Misleads(j) \cup {"torn"}
<1>1. pc[j] \in {"head", "body"} /\ Sent(j, m, what)
  BY DEF SendSome
<1>2. conn[link[j]] \in Conns /\ BodyFirst(conn[link[j]])
  BY <1>1, HasLink, SyncNow
<1>3. q \in Requests /\ q.part = "torn"
  BY <1>1, RequestTyped
<1>4. l \in Conns /\ l.state = conn[link[j]].state /\ l.outbox = conn[link[j]].outbox
  BY <1>2, ForSendKeeps
<1> HIDE DEF l, q
<1>5. BodyFirst(l)
  BY <1>2, <1>4 DEF BodyFirst
<1>6. m \in Conns /\ BodyFirst(m) /\ m.state = l.state
  BY <1>3, <1>4, <1>5, AppendKeeps
<1>7. what \in SUBSET Excuses /\ excuse[link[j]] \cup what # {}
  BY MisleadsTyped
<1> HIDE DEF m, what
<1> QED
  BY <1>1, <1>4, <1>6, <1>7, SentKeeps

-----------------------------------------------------------------------------
(* Reading.                                                                 *)

\* The socket for a receive is the socket, in another mode.
LEMMA ForRecvKeeps ==
  ASSUME NEW j, conn[link[j]] \in Conns
  PROVE  /\ ForRecv(j) \in Conns
         /\ ForRecv(j).state = conn[link[j]].state
         /\ ForRecv(j).retained = conn[link[j]].retained
         /\ ForRecv(j).inbox = conn[link[j]].inbox
         /\ ForRecv(j).outbox = conn[link[j]].outbox
         /\ ForRecv(j).gone = conn[link[j]].gone
<1> DEFINE b == j \in use.main
           l == conn[link[j]]
<1>1. b \in BOOLEAN /\ l \in Conns
  OBVIOUS
<1> HIDE DEF b, l
<1>2. ForRecv(j) = Set(l, b)
  BY DEF ForRecv, b, l
<1> QED
  BY <1>1, <1>2, SetKeeps DEF l

\* What has been received is the front of what had come.
LEMMA ReceivedCut ==
  ASSUME NEW j, conn[link[j]] \in Conns, NEW n \in Nat, NEW t \in Received(j, n)
  PROVE  LET l == conn[link[j]] IN
         /\ l.state = "ready"
         /\ \E k \in 1 .. Len(l.inbox) :
              /\ k <= n /\ t[1] = SubSeq(l.inbox, 1, k)
              /\ t[2] \in Conns
              /\ t[2].inbox = After(l.inbox, k) /\ t[2].retained = l.retained
              /\ t[2].state = l.state /\ t[2].outbox = l.outbox /\ t[2].gone = l.gone
<1> DEFINE l == conn[link[j]]
           m == ForRecv(j)
<1>1. /\ m \in Conns /\ m.state = l.state /\ m.retained = l.retained /\ m.inbox = l.inbox
      /\ m.outbox = l.outbox /\ m.gone = l.gone
  BY ForRecvKeeps
<1>2. /\ m.state = "ready"
      /\ \E k \in 1 .. Least(n, Len(m.inbox)) :
           t = <<SubSeq(m.inbox, 1, k), [m EXCEPT !.inbox = After(@, k)]>>
  BY DEF Received
<1>3. PICK k \in 1 .. Least(n, Len(m.inbox)) :
           t = <<SubSeq(m.inbox, 1, k), [m EXCEPT !.inbox = After(@, k)]>>
  BY <1>2
<1> HIDE DEF m
<1>4. m.inbox \in Seq(Pieces) /\ Len(m.inbox) \in Nat
  BY <1>1, ConnFields
<1>5. k \in 1 .. Len(m.inbox) /\ k <= n /\ k \in 0 .. Len(m.inbox)
  <2>1. \A x \in Nat : Least(n, x) \in Nat /\ Least(n, x) <= n /\ Least(n, x) <= x
    BY DEF Least
  <2>2. /\ Least(n, Len(m.inbox)) \in Nat /\ Least(n, Len(m.inbox)) <= n
        /\ Least(n, Len(m.inbox)) <= Len(m.inbox)
    BY <1>4, <2>1
  <2> QED
    BY <1>4, <2>2
<1>6. After(m.inbox, k) \in Seq(Pieces)
  BY <1>4, <1>5, AfterCut
<1> DEFINE u == [m EXCEPT !.inbox = After(@, k)]
<1>7. /\ u \in Conns /\ u.inbox = After(m.inbox, k) /\ u.retained = m.retained
      /\ u.state = m.state /\ u.outbox = m.outbox /\ u.gone = m.gone
  BY <1>1, <1>6 DEF Conns
<1>8. t[1] = SubSeq(m.inbox, 1, k) /\ t[2] = u
  BY <1>3
<1> HIDE DEF u
<1> QED
  BY <1>1, <1>2, <1>5, <1>7, <1>8

\* What has been taken is the front of the stream, and continues what it did.
LEMMA TakenCut ==
  ASSUME NEW j, conn[link[j]] \in Conns, NEW n \in Nat \ {0}, NEW t \in Taken(j, n)
  PROVE  LET l == conn[link[j]] IN
         /\ t[1] \in Seq(Pieces) /\ Len(t[1]) \in 1 .. n /\ t[2] \in Conns
         /\ t[2].state = l.state /\ t[2].outbox = l.outbox /\ t[2].gone = l.gone
         /\ \A r, code, f : \A k \in Nat :
              Stream(l, r, code, f, k) => /\ Ahead(t[1], r, code, f, k)
                                          /\ Stream(t[2], r, code, f, k + Len(t[1]))
<1> DEFINE l == conn[link[j]]
<1>1. l.retained \in Seq(Pieces) /\ l.inbox \in Seq(Pieces)
  BY ConnFields
<1>2. CASE l.retained = <<>>
  <2>1. t \in Received(j, n) /\ n \in Nat
    BY <1>2 DEF Taken
  <2>2. PICK k \in 1 .. Len(l.inbox) :
              /\ k <= n /\ t[1] = SubSeq(l.inbox, 1, k)
              /\ t[2] \in Conns
              /\ t[2].inbox = After(l.inbox, k) /\ t[2].retained = l.retained
              /\ t[2].state = l.state /\ t[2].outbox = l.outbox /\ t[2].gone = l.gone
    BY <2>1, ReceivedCut
  <2>3. k \in 0 .. Len(l.inbox) /\ k \in 1 .. n
    BY <2>2
  <2>4. t[1] \in Seq(Pieces) /\ Len(t[1]) = k
    BY <1>1, <2>2, <2>3, AfterCut
  <2>5. ASSUME NEW r, NEW code, NEW f, NEW i \in Nat, Stream(l, r, code, f, i)
        PROVE  Ahead(t[1], r, code, f, i) /\ Stream(t[2], r, code, f, i + Len(t[1]))
    <3>1. Len(l.retained) = 0 /\ i + 0 = i
      BY <1>2
    <3>2. Ahead(l.inbox, r, code, f, i)
      BY <2>5, <3>1 DEF Stream
    <3>3. Ahead(t[1], r, code, f, i) /\ Ahead(t[2].inbox, r, code, f, i + k)
      BY <1>1, <2>2, <2>3, <3>2, AheadCut
    <3>4. Ahead(t[2].retained, r, code, f, i + k)
      BY <1>2, <2>2, AheadNone
    <3>5. (i + k) + Len(t[2].retained) = i + k
      BY <1>2, <2>2
    <3> QED
      BY <2>4, <3>3, <3>4, <3>5 DEF Stream
  <2> QED
    BY <2>2, <2>3, <2>4, <2>5
<1>3. CASE l.retained # <<>>
  <2> DEFINE k == Least(n, Len(l.retained))
             u == [l EXCEPT !.retained = After(@, Least(n, Len(@)))]
  <2>1. t = <<SubSeq(l.retained, 1, k), u>>
    BY <1>3 DEF Taken
  <2>2. k \in 1 .. n /\ k \in 0 .. Len(l.retained) /\ Len(l.retained) \in Nat
    <3>1. \A x \in Nat \ {0} : Least(n, x) \in 1 .. n /\ Least(n, x) \in 0 .. x
      BY DEF Least
    <3>2. Len(l.retained) \in Nat \ {0}
      BY <1>1, <1>3
    <3> QED
      BY <3>1, <3>2
  <2>3. /\ After(l.retained, k) \in Seq(Pieces)
        /\ Len(After(l.retained, k)) = Len(l.retained) - k
        /\ SubSeq(l.retained, 1, k) \in Seq(Pieces) /\ Len(SubSeq(l.retained, 1, k)) = k
    <3> DEFINE s == l.retained
    <3>1. s \in Seq(Pieces) /\ k \in 0 .. Len(s)
      BY <1>1, <2>2
    <3> HIDE DEF k, s
    <3>2. /\ After(s, k) \in Seq(Pieces) /\ Len(After(s, k)) = Len(s) - k
          /\ SubSeq(s, 1, k) \in Seq(Pieces) /\ Len(SubSeq(s, 1, k)) = k
      BY <3>1, AfterCut
    <3> QED
      BY <3>2 DEF s
  <2>4. /\ u \in Conns /\ u.retained = After(l.retained, k) /\ u.inbox = l.inbox
        /\ u.state = l.state /\ u.outbox = l.outbox /\ u.gone = l.gone
    <3>1. u = [l EXCEPT !.retained = After(l.retained, k)]
      OBVIOUS
    <3> HIDE DEF k, u
    <3> QED
      BY <2>3, <3>1 DEF Conns
  <2> HIDE DEF k, u
  <2>5. t[1] = SubSeq(l.retained, 1, k) /\ t[2] = u
    BY <2>1
  <2>6. ASSUME NEW r, NEW code, NEW f, NEW i \in Nat, Stream(l, r, code, f, i)
        PROVE  Ahead(t[1], r, code, f, i) /\ Stream(t[2], r, code, f, i + Len(t[1]))
    <3>1. Ahead(l.retained, r, code, f, i) /\ Ahead(l.inbox, r, code, f, i + Len(l.retained))
      BY <2>6 DEF Stream
    <3>2. Ahead(t[1], r, code, f, i) /\ Ahead(u.retained, r, code, f, i + k)
      BY <1>1, <2>2, <2>4, <2>5, <3>1, AheadCut
    <3>3. (i + k) + Len(u.retained) = i + Len(l.retained)
      <4>1. Len(u.retained) = Len(l.retained) - k
        BY <2>3, <2>4
      <4>2. k \in Nat /\ Len(l.retained) \in Nat
        BY <2>2
      <4> DEFINE x == Len(u.retained)
                 y == Len(l.retained)
      <4> HIDE DEF x, y
      <4>3. y \in Nat /\ x = y - k
        BY <4>1, <4>2 DEF x, y
      <4>4. (i + k) + x = i + y
        BY <4>2, <4>3
      <4> QED
        BY <4>4 DEF x, y
    <3> QED
      BY <2>3, <2>4, <2>5, <3>1, <3>2, <3>3 DEF Stream
  <2> QED
    BY <2>2, <2>3, <2>4, <2>5, <2>6
<1> QED
  BY <1>2, <1>3

\* What has been received is retained.
LEMMA RetainCut ==
  ASSUME NEW j, conn[link[j]] \in Conns, NEW n \in Nat, NEW t \in Received(j, n),
         NEW m, m = [t[2] EXCEPT !.retained = @ \o t[1]]
  PROVE  LET l == conn[link[j]] IN
         /\ l.state = "ready" /\ l.inbox # <<>>
         /\ m \in Conns /\ m.state = l.state /\ m.outbox = l.outbox /\ m.gone = l.gone
         /\ \A r, code, f : \A k \in Nat :
              Stream(l, r, code, f, k) => Stream(m, r, code, f, k)
<1> DEFINE l == conn[link[j]]
           s == l.inbox
           u == l.retained
<1>1. s \in Seq(Pieces) /\ u \in Seq(Pieces)
  BY ConnFields
<1>2. PICK i \in 1 .. Len(s) :
            /\ l.state = "ready" /\ t[1] = SubSeq(s, 1, i)
            /\ t[2] \in Conns /\ t[2].inbox = After(s, i) /\ t[2].retained = u
            /\ t[2].state = l.state /\ t[2].outbox = l.outbox /\ t[2].gone = l.gone
  BY ReceivedCut
<1>3. i \in 0 .. Len(s) /\ Len(s) \in Nat
  BY <1>1, <1>2
<1>4. l.inbox # <<>>
  BY <1>1, <1>2
<1>5. t[1] \in Seq(Pieces) /\ Len(t[1]) = i
  <2> HIDE DEF s, u
  <2> QED
    BY <1>1, <1>2, <1>3, AfterCut
<1>6. u \o t[1] \in Seq(Pieces) /\ Len(u \o t[1]) = Len(u) + i /\ Len(u) \in Nat
  <2>1. \A x, y \in Seq(Pieces) : x \o y \in Seq(Pieces) /\ Len(x \o y) = Len(x) + Len(y)
    OBVIOUS
  <2>2. Len(u) \in Nat
    BY <1>1
  <2> DEFINE x == t[1]
  <2>3. x \in Seq(Pieces) /\ Len(x) = i
    BY <1>5
  <2> HIDE DEF s, u, x
  <2>4. u \o x \in Seq(Pieces) /\ Len(u \o x) = Len(u) + Len(x)
    BY <1>1, <2>1, <2>3
  <2> QED
    BY <2>2, <2>3, <2>4 DEF x
<1>7. /\ m \in Conns /\ m.state = l.state /\ m.outbox = l.outbox /\ m.gone = l.gone
      /\ m.retained = u \o t[1] /\ m.inbox = After(s, i)
  <2> HIDE DEF s, u
  <2> QED
    BY <1>2, <1>6 DEF Conns
<1>8. ASSUME NEW r, NEW code, NEW f, NEW k \in Nat, Stream(l, r, code, f, k)
      PROVE  Stream(m, r, code, f, k)
  <2>1. Ahead(u, r, code, f, k) /\ Ahead(s, r, code, f, k + Len(u))
    BY <1>8 DEF Stream
  <2> DEFINE d == k + Len(u)
  <2> HIDE DEF s, u
  <2>2. d \in Nat
    BY <1>6 DEF d
  <2>3. Ahead(s, r, code, f, d)
    BY <2>1 DEF d
  <2> HIDE DEF d
  <2>4. Ahead(After(s, i), r, code, f, d + i) /\ Ahead(t[1], r, code, f, d)
    BY <1>1, <1>2, <1>3, <2>2, <2>3, AheadCut
  <2>5. Ahead(u \o t[1], r, code, f, k)
    BY <1>1, <1>5, <2>1, <2>4, AheadJoin DEF d
  <2>6. d + i = k + Len(u \o t[1])
    BY <1>3, <1>6 DEF d
  <2> QED
    BY <1>7, <2>4, <2>5, <2>6 DEF Stream
<1> QED
  BY <1>2, <1>4, <1>7, <1>8

\* Where a call that reads has got to is a number.
LEMMA OffsetNat ==
  ASSUME NEW p, NEW r \in Responses
  PROVE  Offset(p, r) \in Nat /\ Len(r.got) \in Nat
<1>1. Body \in Nat /\ Len(r.got) \in Nat
  BY BoundAssumption DEF Responses
<1> QED
  BY <1>1 DEF Offset

LEMMA RetainKeeps == ASSUME ClientInv, NEW j \in Jobs, Retain(j) PROVE ClientInv'
<1> DEFINE l == conn[link[j]]
           p == pc[j]
<1>1. /\ p \in {"response", "line"} /\ Goes(j)
      /\ UNCHANGED <<use, begun, jobs, length, pool, excuse>>
  BY Zenon DEF Retain
<1>2. link[j] # 0 /\ Typed
  BY <1>1, HasLink, Zenon DEF ClientInv
<1>3. /\ l \in Conns /\ BodyFirst(l) /\ link[j] \in Links
      /\ (excuse[link[j]] = {} => Sync(l, p, res[j], call[j]))
  BY <1>2, SyncNow
<1>4. Len(l.inbox) \in Nat
  BY <1>3, ConnFields
<1>5. PICK t \in Received(j, Len(l.inbox)) :
            conn' = [conn EXCEPT ![link[j]] = [t[2] EXCEPT !.retained = @ \o t[1]]]
  BY DEF Retain
<1> DEFINE m == [t[2] EXCEPT !.retained = @ \o t[1]]
<1>6. conn' = [conn EXCEPT ![link[j]] = m]
  BY <1>5
<1>7. /\ l.state = "ready" /\ l.inbox # <<>>
      /\ m \in Conns /\ m.state = l.state /\ m.outbox = l.outbox /\ m.gone = l.gone
      /\ \A r, code, f : \A k \in Nat : Stream(l, r, code, f, k) => Stream(m, r, code, f, k)
  BY <1>3, <1>4, RetainCut
<1> HIDE DEF m
<1>8. BodyFirst(m) /\ Poolable(j, m)
  BY <1>3, <1>7 DEF BodyFirst, Poolable
<1>9. ASSUME excuse[link[j]] = {} PROVE Sync(m, p, res[j], call[j])
  <2>1. CASE p = "response"
    <3>1. AnswerDue(l, call[j])
      BY <1>3, <1>7, <1>9, <2>1 DEF Sync, Asked
    <3>2. PICK code \in Answers, f \in Framings : Stream(l, call[j], code, f, 0)
      BY <3>1, Zenon DEF AnswerDue
    <3>3. Stream(m, call[j], code, f, 0)
      BY <1>7, <3>2
    <3>4. AnswerDue(m, call[j])
      BY <1>7, <3>1, <3>3 DEF AnswerDue
    <3> QED
      BY <2>1, <3>4 DEF Sync
  <2>2. CASE p = "line"
    <3>1. BeingRead(l, p, res[j], call[j])
      BY <1>3, <1>9, <2>2 DEF Sync
    <3>2. res[j] \in Responses
      BY <1>2, CallTypes
    <3>3. Offset(p, res[j]) \in Nat
      BY <3>2, OffsetNat
    <3>4. BeingRead(m, p, res[j], call[j])
      BY <1>7, <3>1, <3>3 DEF BeingRead
    <3> QED
      BY <2>2, <3>4 DEF Sync
  <2> QED
    BY <1>1, <2>1, <2>2
<1>10. /\ pc' = [pc EXCEPT ![j] = p] /\ p \in Places \ {"idle", "lookup"}
       /\ UNCHANGED <<use, begun, call, link, res, last, length, pool>> /\ excuse' = excuse
  <2>1. pc \in [Jobs -> Places] /\ pc' = pc
    BY <1>1, <1>2, Zenon DEF Typed, jobs
  <2> QED
    BY <1>1, <2>1 DEF jobs
<1>11. /\ excuse' = Excused(link[j], {}) /\ {} \in SUBSET Excuses
       /\ excuse[link[j]] \cup {} = excuse[link[j]]
  BY <1>2, <1>3, <1>10, NotExcused
<1>12. Timed
  BY <1>1, <1>2, GoesTimed
<1> QED
  BY <1>1, <1>2, <1>6, <1>7, <1>8, <1>9, <1>10, <1>11, <1>12, MovesKeeps

LEMMA ReceiveWaitsKeeps == ASSUME ClientInv, NEW j \in Jobs, ReceiveWaits(j) PROVE ClientInv'
<1> DEFINE l == ForRecv(j)
<1>1. /\ pc[j] \in {"response", "line", "data", "crlf", "last"}
      /\ Yields(j) /\ conn' = [conn EXCEPT ![link[j]] = l]
      /\ UNCHANGED <<use, begun, jobs, length, pool, excuse>>
  BY DEF ReceiveWaits, Receiving
<1>2. link[j] # 0 /\ Typed
  BY <1>1, HasLink, Zenon DEF ClientInv
<1>3. conn[link[j]] \in Conns
  BY <1>2, SyncNow
<1>4. /\ l \in Conns /\ l.state = conn[link[j]].state
      /\ l.retained = conn[link[j]].retained /\ l.inbox = conn[link[j]].inbox
      /\ l.outbox = conn[link[j]].outbox /\ l.gone = conn[link[j]].gone
  BY <1>3, ForRecvKeeps
<1> HIDE DEF l
<1>5. Timed
  BY <1>1, <1>2, YieldsTimed
<1> QED
  BY <1>1, <1>2, <1>4, <1>5, WaitsKeeps

\* The end of the stream: the connection has been closed.
LEMMA ReceiveEndsKeeps == ASSUME ClientInv, NEW j \in Jobs, ReceiveEnds(j) PROVE ClientInv'
<1> DEFINE l == ClosedConn
<1>1. /\ pc[j] \in {"response", "line", "data", "crlf", "last"}
      /\ \/ pc[j] = "last" /\ Ends(j, "no", Closed(j)) /\ UNCHANGED excuse
         \/ /\ pc[j] = "crlf" /\ pc' = [pc EXCEPT ![j] = "line"]
            /\ conn' = Closed(j) /\ Goes(j)
            /\ UNCHANGED <<use, begun, call, link, res, last, length, pool, excuse>>
         \/ Raises(j, "end", Closed(j))
  BY DEF ReceiveEnds, Receiving
<1>2. link[j] # 0 /\ Typed
  BY <1>1, HasLink, Zenon DEF ClientInv
<1>3. /\ link[j] \in Links /\ conn[link[j]] \in Conns
      /\ (excuse[link[j]] = {} => Sync(conn[link[j]], pc[j], res[j], call[j]))
  BY <1>2, SyncNow
<1>4. l \in Conns /\ Quiet(l) /\ BodyFirst(l) /\ l.state = "closed"
  BY ClosedTyped
<1>5. Closed(j) = [conn EXCEPT ![link[j]] = l]
  BY DEF Closed, ClosedConn
<1> HIDE DEF l
<1>6. /\ excuse = Excused(link[j], {}) /\ {} \in SUBSET Excuses
      /\ excuse[link[j]] \cup {} = excuse[link[j]]
  BY <1>2, <1>3, NotExcused
<1>7. Poolable(j, l)
  BY <1>4 DEF Poolable
<1>8. CASE pc[j] = "last" /\ Ends(j, "no", Closed(j)) /\ UNCHANGED excuse
  <2>1. ASSUME excuse[link[j]] = {} PROVE res[j].got = Datas(call[j])
    <3>1. Progress("last", res[j], call[j])
      BY <1>3, <1>8, <2>1 DEF Sync, BeingRead
    <3>2. Len(res[j].got) = Body /\ \A i \in DOMAIN res[j].got : res[j].got[i] = Datum(call[j])
      BY <3>1 DEF Progress
    <3>3. res[j].got \in Seq(Pieces)
      BY <1>2, CallTypes DEF Responses
    <3> QED
      BY <3>2, <3>3, WholeBody
  <2>2. "no" \in Reasons
    BY DEF Reasons
  <2>3. Ends(j, "no", [conn EXCEPT ![link[j]] = l]) /\ excuse' = Excused(link[j], {})
    BY <1>5, <1>6, <1>8
  <2> QED
    BY <1>2, <1>4, <1>6, <1>7, <2>1, <2>2, <2>3, EndsKeeps
<1>9. CASE /\ pc[j] = "crlf" /\ pc' = [pc EXCEPT ![j] = "line"]
           /\ conn' = Closed(j) /\ Goes(j)
           /\ UNCHANGED <<use, begun, call, link, res, last, length, pool, excuse>>
  <2>1. ASSUME excuse[link[j]] = {} PROVE Sync(l, "line", res[j], call[j])
    <3>1. Progress("crlf", res[j], call[j])
      BY <1>3, <1>9, <2>1 DEF Sync, BeingRead
    <3>2. Progress("line", res[j], call[j])
      BY <3>1 DEF Progress
    <3>3. Stream(l, call[j], "ok", res[j].framing, Offset("line", res[j]))
      BY <1>4, AheadNone DEF Stream, Quiet
    <3> QED
      BY <1>4, <3>2, <3>3 DEF Sync, BeingRead, Quiet
  <2>2. "line" \in Places \ {"idle", "lookup"} /\ Timed
    BY <1>2, <1>9, GoesTimed DEF Places
  <2>3. /\ conn' = [conn EXCEPT ![link[j]] = l] /\ excuse' = Excused(link[j], {})
        /\ UNCHANGED <<use, begun, call, link, res, last, length, pool>>
    BY <1>5, <1>6, <1>9
  <2> QED
    BY <1>2, <1>4, <1>6, <1>7, <1>9, <2>1, <2>2, <2>3, MovesKeeps
<1>10. CASE Raises(j, "end", Closed(j))
  <2>1. "end" \in Reasons \ {"no"}
    BY DEF Reasons
  <2>2. Raises(j, "end", [conn EXCEPT ![link[j]] = l])
    BY <1>5, <1>10
  <2> QED
    BY <1>2, <1>4, <1>7, <2>1, <2>2, RaisesKeeps
<1> QED
  BY <1>1, <1>8, <1>9, <1>10

-----------------------------------------------------------------------------
(* The head of a response.                                                  *)

\* A head is the first of what has been retained, in step or not.
LEMMA AnsweredCut ==
  ASSUME ClientInv, NEW j \in Jobs, Answered(j),
         NEW m, m = [conn[link[j]] EXCEPT !.retained = Tail(@)]
  PROVE  LET l == conn[link[j]] IN
         /\ link[j] # 0 /\ link[j] \in Links /\ pc[j] = "response" /\ Typed
         /\ FirstPiece(j) \in Pieces
         /\ m \in Conns /\ BodyFirst(m) /\ Poolable(j, m) /\ m.state = l.state
         /\ HeadRead(j) = [conn EXCEPT ![link[j]] = m]
         /\ (excuse[link[j]] = {} =>
               /\ l.state = "ready" /\ m.outbox = <<>>
               /\ \E code \in Answers, f \in Framings :
                    /\ FirstPiece(j) = Piece(call[j].id, call[j].hop, "head", code, f)
                    /\ Stream(m, call[j], code, f, 1))
<1> DEFINE l == conn[link[j]]
           s == l.retained
<1>1. pc[j] = "response" /\ HeadEnds(s)
  BY DEF Answered, Retained
<1>2. link[j] # 0 /\ Typed
  BY <1>1, HasLink, Zenon DEF ClientInv
<1>3. /\ l \in Conns /\ BodyFirst(l) /\ link[j] \in Links
      /\ (excuse[link[j]] = {} => Sync(l, pc[j], res[j], call[j]))
  BY <1>2, SyncNow
<1>4. s \in Seq(Pieces) /\ l.inbox \in Seq(Pieces)
  BY <1>3, ConnFields
<1>5. s # <<>>
  BY <1>1 DEF HeadEnds
<1>6. s[1] \in Pieces /\ 1 \in 0 .. Len(s) /\ 1 \in DOMAIN s /\ FirstPiece(j) = s[1]
  BY <1>4, <1>5 DEF FirstPiece, Retained
<1>7. /\ Tail(s) = After(s, 1) /\ Tail(s) \in Seq(Pieces) /\ Len(Tail(s)) = Len(s) - 1
      /\ Len(After(s, 1)) = Len(s) - 1
  <2> HIDE DEF s
  <2>1. Tail(s) \in Seq(Pieces) /\ Len(Tail(s)) = Len(s) - 1
        /\ \A i \in 1 .. (Len(s) - 1) : Tail(s)[i] = s[i + 1]
    BY <1>4, <1>5
  <2>2. /\ After(s, 1) \in Seq(Pieces) /\ Len(After(s, 1)) = Len(s) - 1
        /\ \A i \in 1 .. (Len(s) - 1) : After(s, 1)[i] = s[1 + i]
    BY <1>4, <1>6, AfterCut
  <2>3. \A i \in 1 .. (Len(s) - 1) : Tail(s)[i] = After(s, 1)[i]
    BY <2>1, <2>2
  <2> QED
    BY <2>1, <2>2, <2>3, SeqEqual
<1>8. /\ m \in Conns /\ m.state = l.state /\ m.retained = After(s, 1) /\ m.inbox = l.inbox
      /\ m.outbox = l.outbox
  <2>1. m = [l EXCEPT !.retained = Tail(s)]
    OBVIOUS
  <2> HIDE DEF s
  <2> QED
    BY <1>3, <1>7, <2>1 DEF Conns
<1>9. BodyFirst(m) /\ Poolable(j, m)
  BY <1>3, <1>8 DEF BodyFirst, Poolable
<1>10. HeadRead(j) = [conn EXCEPT ![link[j]] = m]
  BY DEF HeadRead
<1>11. ASSUME excuse[link[j]] = {}
       PROVE  /\ l.state = "ready" /\ m.outbox = <<>>
              /\ \E code \in Answers, f \in Framings :
                    /\ FirstPiece(j) = Piece(call[j].id, call[j].hop, "head", code, f)
                    /\ Stream(m, call[j], code, f, 1)
  <2>1. AnswerDue(l, call[j])
    BY <1>1, <1>3, <1>5, <1>11 DEF Sync, Asked
  <2>2. l.state = "ready" /\ m.outbox = <<>>
    BY <1>5, <1>8, <2>1 DEF AnswerDue, Quiet
  <2>3. PICK code \in Answers, f \in Framings : Stream(l, call[j], code, f, 0)
    BY <2>1, Zenon DEF AnswerDue
  <2>4. Ahead(s, call[j], code, f, 0) /\ Ahead(l.inbox, call[j], code, f, 0 + Len(s))
    BY <2>3 DEF Stream
  <2>5. s[1] = Piece(call[j].id, call[j].hop, "head", code, f)
    <3>1. s[1] = Due(call[j], code, f, 0 + 1)
      BY <1>6, <2>4, Zenon DEF Ahead
    <3> QED
      BY <3>1 DEF Due
  <2>6. Stream(m, call[j], code, f, 1)
    <3> HIDE DEF s
    <3>1. Ahead(After(s, 1), call[j], code, f, 0 + 1) /\ 0 + 1 = 1
      BY <1>4, <1>6, <2>4, AheadCut
    <3> DEFINE x == Len(After(s, 1))
               y == Len(s)
    <3>2. y \in Nat /\ x = y - 1
      <4>1. Len(s) \in Nat
        BY <1>4
      <4> QED
        BY <1>7, <4>1
    <3> HIDE DEF x, y
    <3>3. 1 + x = 0 + y
      BY <3>2
    <3>4. Ahead(m.retained, call[j], code, f, 1)
      BY <1>8, <3>1
    <3>5. Ahead(m.inbox, call[j], code, f, 1 + Len(m.retained))
      BY <1>8, <2>4, <3>3 DEF x, y
    <3> QED
      BY <3>4, <3>5 DEF Stream
  <2> QED
    BY <1>6, <2>2, <2>5, <2>6, Zenon
<1> QED
  BY <1>1, <1>2, <1>3, <1>6, <1>8, <1>9, <1>10, <1>11

\* In step, the first piece is a head.
LEMMA HeadInvalidKeeps == ASSUME ClientInv, NEW j \in Jobs, HeadInvalid(j) PROVE ClientInv'
<1> DEFINE l == conn[link[j]]
           m == [l EXCEPT !.retained = Tail(@)]
<1>1. Answered(j) /\ FirstPiece(j).part # "head" /\ Raises(j, "garbage", conn)
  BY DEF HeadInvalid
<1>2. /\ link[j] # 0 /\ link[j] \in Links /\ Typed
      /\ (excuse[link[j]] = {} =>
            \E code \in Answers, f \in Framings :
               /\ FirstPiece(j) = Piece(call[j].id, call[j].hop, "head", code, f)
               /\ Stream(m, call[j], code, f, 1))
  BY <1>1, AnsweredCut
<1>3. excuse[link[j]] # {}
  BY <1>1, <1>2 DEF Piece
<1>4. l \in Conns /\ BodyFirst(l)
  BY <1>2, SyncNow
<1>5. Ends(j, "garbage", conn)
  BY <1>1, Zenon DEF Raises
<1>6. conn = [conn EXCEPT ![link[j]] = l]
  BY <1>2 DEF Typed
<1>7. \E ex \in SUBSET Excuses : excuse' = Excused(link[j], ex)
  <2>1. excuse' = Excused(link[j], {"stray"}) \/ excuse' = excuse
    BY <1>1 DEF Raises
  <2>2. {"stray"} \in SUBSET Excuses
    BY DEF Excuses
  <2>3. excuse = Excused(link[j], {}) /\ {} \in SUBSET Excuses
    BY <1>2, NotExcused
  <2> QED
    BY <2>1, <2>2, <2>3
<1>8. PICK ex \in SUBSET Excuses : excuse' = Excused(link[j], ex)
  BY <1>7
<1>9. Poolable(j, l) /\ "garbage" \in Reasons
  BY DEF Poolable, Reasons
<1>10. excuse[link[j]] \cup ex # {}
  BY <1>3
<1>11. Ends(j, "garbage", [conn EXCEPT ![link[j]] = l])
  BY <1>5, <1>6
<1> HIDE DEF l
<1> QED
  BY <1>2, <1>3, <1>4, <1>8, <1>9, <1>10, <1>11, EndsKeeps

\* An error after the head has been read.
LEMMA HeadRaisesKeeps ==
  ASSUME ClientInv, NEW j \in Jobs, Answered(j), NEW why \in {"code", "redirect"},
         Raises(j, why, HeadRead(j))
  PROVE  ClientInv'
<1> DEFINE l == conn[link[j]]
           m == [l EXCEPT !.retained = Tail(@)]
<1>1. /\ link[j] # 0 /\ link[j] \in Links /\ Typed
      /\ m \in Conns /\ BodyFirst(m) /\ Poolable(j, m) /\ m.state = l.state
      /\ HeadRead(j) = [conn EXCEPT ![link[j]] = m]
      /\ (excuse[link[j]] = {} => l.state = "ready")
  BY AnsweredCut
<1> HIDE DEF m
<1>2. Ends(j, why, [conn EXCEPT ![link[j]] = m])
  BY <1>1, Zenon DEF Raises
<1>3. [conn EXCEPT ![link[j]] = m][link[j]] = m
  BY <1>1 DEF Typed
<1>4. excuse' = IF m.state = "ready" THEN Excused(link[j], {"stray"}) ELSE excuse
  BY <1>1, <1>3, Zenon DEF Raises
<1>5. why \in Reasons /\ why # "no" /\ why # "garbage"
  BY DEF Reasons
<1>6. CASE m.state = "ready"
  <2>1. {"stray"} \in SUBSET Excuses /\ excuse[link[j]] \cup {"stray"} # {}
    BY DEF Excuses
  <2>2. excuse' = Excused(link[j], {"stray"})
    BY <1>4, <1>6
  <2> QED
    BY <1>1, <1>2, <1>5, <2>1, <2>2, EndsKeeps
<1>7. CASE m.state # "ready"
  <2>1. excuse' = Excused(link[j], {}) /\ {} \in SUBSET Excuses
    BY <1>1, <1>4, <1>7, NotExcused
  <2>2. excuse[link[j]] \cup {} # {}
    BY <1>1, <1>7
  <2> QED
    BY <1>1, <1>2, <1>5, <2>1, <2>2, EndsKeeps
<1> QED
  BY <1>6, <1>7

LEMMA AnsweredErrorKeeps == ASSUME ClientInv, NEW j \in Jobs, AnsweredError(j) PROVE ClientInv'
BY HeadRaisesKeeps DEF AnsweredError

LEMMA RedirectFailsKeeps == ASSUME ClientInv, NEW j \in Jobs, RedirectFails(j) PROVE ClientInv'
BY HeadRaisesKeeps DEF RedirectFails

\* The body is left to the program.
LEMMA AnsweredKeepKeeps == ASSUME ClientInv, NEW j \in Jobs, AnsweredKeep(j) PROVE ClientInv'
<1> DEFINE l == conn[link[j]]
           m == [l EXCEPT !.retained = Tail(@)]
<1>1. /\ Answered(j) /\ Ends(j, "kept", HeadRead(j)) /\ excuse' = Excused(link[j], {"stray"})
  BY DEF AnsweredKeep
<1>2. /\ link[j] # 0 /\ m \in Conns /\ BodyFirst(m) /\ Poolable(j, m)
      /\ HeadRead(j) = [conn EXCEPT ![link[j]] = m]
  BY <1>1, AnsweredCut
<1> HIDE DEF m
<1>3. "kept" \in Reasons /\ {"stray"} \in SUBSET Excuses /\ excuse[link[j]] \cup {"stray"} # {}
  BY DEF Reasons, Excuses
<1>4. Ends(j, "kept", [conn EXCEPT ![link[j]] = m])
  BY <1>1, <1>2
<1> QED
  BY <1>1, <1>2, <1>3, <1>4, EndsKeeps

LEMMA RedirectKeeps == ASSUME ClientInv, NEW j \in Jobs, Redirect(j) PROVE ClientInv'
<1> DEFINE l == conn[link[j]]
           m == [l EXCEPT !.retained = Tail(@)]
<1>1. /\ Answered(j) /\ length' = (length /\ call[j].own)
      /\ link' = [link EXCEPT ![j] = 0] /\ pc' = [pc EXCEPT ![j] = "lookup"]
      /\ conn' = HeadRead(j) /\ excuse' = Excused(link[j], {"stray"}) /\ Goes(j)
      /\ use' = use /\ begun' = begun /\ res' = res /\ last' = last /\ pool' = pool
  BY Zenon DEF Redirect
<1>2. PICK h \in Hosts : call' = [call EXCEPT ![j] = Redirected(call[j], h)]
  BY Zenon DEF Redirect
<1>3. /\ link[j] # 0 /\ m \in Conns /\ BodyFirst(m) /\ Poolable(j, m) /\ Typed
      /\ HeadRead(j) = [conn EXCEPT ![link[j]] = m] /\ pc[j] = "response"
  BY <1>1, AnsweredCut
<1> HIDE DEF m
<1> DEFINE cl == Redirected(call[j], h)
<1>4. /\ call[j] \in CallRecords /\ res[j] \in Responses /\ last[j] \in Results
      /\ res \in [Jobs -> Responses] /\ last \in [Jobs -> Results] /\ length \in BOOLEAN
  BY <1>3, CallTypes, Zenon DEF Typed
<1>5. cl \in CallRecords /\ cl.id = call[j].id /\ ~cl.body
  <2> DEFINE c == call[j]
  <2>1. /\ c \in CallRecords /\ c.id \in 0 .. Calls /\ c.own \in BOOLEAN /\ c.hop \in Nat
    BY <1>4 DEF CallRecords
  <2>2. cl = [c EXCEPT !.host = h, !.hop = c.hop + 1, !.body = FALSE]
    BY DEF Redirected
  <2> DEFINE n == c.hop + 1
  <2>3. n \in Nat
    BY <2>1
  <2> HIDE DEF c, cl, n
  <2>4. cl = [c EXCEPT !.host = h, !.hop = n, !.body = FALSE]
    BY <2>2 DEF n
  <2>5. cl \in CallRecords /\ cl.id = c.id /\ cl.body = FALSE
    BY <2>1, <2>3, <2>4 DEF CallRecords
  <2> QED
    BY <2>5 DEF c
<1>6. cl.id # 0
  BY <1>3, <1>5 DEF ClientInv, Called
<1> HIDE DEF cl
<1>7. Fair(last[j])
  BY FairAll DEF ClientInv
<1>8. Leaves(j, "lookup", cl, res[j], last[j], m, {"stray"})
  <2>1. res' = [res EXCEPT ![j] = res[j]] /\ last' = [last EXCEPT ![j] = last[j]]
    BY <1>1, <1>4
  <2>2. call' = [call EXCEPT ![j] = cl]
    BY <1>2 DEF cl
  <2>3. conn' = [conn EXCEPT ![link[j]] = m]
    BY <1>1, <1>3
  <2>4. excuse' = [excuse EXCEPT ![link[j]] = @ \cup {"stray"}]
    BY <1>1 DEF Excused
  <2>5. length' \in BOOLEAN /\ Timed
    <3>1. call[j].own \in BOOLEAN
      BY <1>4 DEF CallRecords
    <3>2. length' \in BOOLEAN
      BY <1>1, <1>4, <3>1, Zenon
    <3> QED
      BY <1>1, <1>3, <3>2, GoesTimed
  <2> QED
    BY <1>1, <2>1, <2>2, <2>3, <2>4, <2>5, Zenon DEF Leaves
<1>9. {"stray"} \in SUBSET Excuses /\ excuse[link[j]] \cup {"stray"} # {}
  BY DEF Excuses
<1> QED
  BY <1>3, <1>4, <1>5, <1>6, <1>7, <1>8, <1>9, LeavesKeeps

\* What follows the head is the body, or its first chunk.
LEMMA AnsweredBodyKeeps == ASSUME ClientInv, NEW j \in Jobs, AnsweredBody(j) PROVE ClientInv'
<1> DEFINE l == conn[link[j]]
           m == [l EXCEPT !.retained = Tail(@)]
           f == FirstPiece(j).framing
           r == [NoResponse EXCEPT !.framing = f, !.size = IF f = "chunked" THEN 0 ELSE Body]
           p == IF f = "chunked" THEN "line" ELSE "data"
<1>1. /\ Answered(j) /\ FirstPiece(j).code = "ok"
      /\ res' = [res EXCEPT ![j] = r] /\ pc' = [pc EXCEPT ![j] = p]
      /\ conn' = HeadRead(j) /\ Goes(j)
      /\ use' = use /\ begun' = begun /\ call' = call /\ link' = link /\ last' = last
      /\ length' = length /\ pool' = pool /\ excuse' = excuse
  BY DEF AnsweredBody
<1>2. /\ link[j] # 0 /\ link[j] \in Links /\ m \in Conns /\ BodyFirst(m) /\ Poolable(j, m)
      /\ Typed /\ HeadRead(j) = [conn EXCEPT ![link[j]] = m]
      /\ FirstPiece(j) \in Pieces
      /\ (excuse[link[j]] = {} =>
               /\ m.outbox = <<>>
               /\ \E code \in Answers, g \in Framings :
                    /\ FirstPiece(j) = Piece(call[j].id, call[j].hop, "head", code, g)
                    /\ Stream(m, call[j], code, g, 1))
  BY <1>1, AnsweredCut
<1> HIDE DEF m
<1>3. f \in Framings
  BY <1>2 DEF Pieces, Framings
<1>4. Body \in Nat /\ Body >= 1
  BY BoundAssumption
<1>5. ASSUME excuse[link[j]] = {} PROVE m.outbox = <<>> /\ Stream(m, call[j], "ok", f, 1)
  <2>1. PICK code \in Answers, g \in Framings :
                    /\ FirstPiece(j) = Piece(call[j].id, call[j].hop, "head", code, g)
                    /\ Stream(m, call[j], code, g, 1)
    BY <1>2, <1>5
  <2>2. code = "ok" /\ g = f
    BY <1>1, <2>1 DEF Piece
  <2> QED
    BY <1>2, <1>5, <2>1, <2>2
<1> HIDE DEF f
<1>6. /\ r \in Responses /\ r.framing = f /\ r.got = <<>> /\ r.read = 0
      /\ r.size = IF f = "chunked" THEN 0 ELSE Body
  <2> DEFINE x == IF f = "chunked" THEN 0 ELSE Body
  <2>1. x \in 0 .. Body
    BY <1>4
  <2>2. <<>> \in Seq(Pieces) /\ 0 \in Nat
    OBVIOUS
  <2>3. r = [NoResponse EXCEPT !.framing = f, !.size = x]
    OBVIOUS
  <2> HIDE DEF x, r
  <2>4. r = [framing |-> f, size |-> x, read |-> 0, got |-> <<>>]
    BY <2>3 DEF NoResponse
  <2> QED
    BY <1>3, <2>1, <2>2, <2>4 DEF Responses, x
<1> HIDE DEF r
<1>7. p \in Places \ {"idle", "lookup"} /\ p \in {"line", "data"}
  BY DEF Places
<1>8. excuse' = Excused(link[j], {}) /\ {} \in SUBSET Excuses
      /\ excuse[link[j]] \cup {} = excuse[link[j]]
  BY <1>1, <1>2, NotExcused
<1>9. InPlace(j, p, r, m, {})
  <2>1. Timed
    BY <1>1, <1>2, GoesTimed
  <2>2. conn' = [conn EXCEPT ![link[j]] = m]
    BY <1>1, <1>2
  <2>3. excuse' = [excuse EXCEPT ![link[j]] = @ \cup {}]
    BY <1>8 DEF Excused
  <2> HIDE DEF p
  <2> QED
    BY <1>1, <2>1, <2>2, <2>3, Zenon DEF InPlace
<1>10. ASSUME excuse[link[j]] \cup {} = {} PROVE Sync(m, p, r, call[j])
  <2>1. m.outbox = <<>> /\ Stream(m, call[j], "ok", f, 1)
    BY <1>5, <1>8, <1>10
  <2>2. Len(r.got) = 0 /\ DOMAIN r.got = {}
    BY <1>6
  <2>3. Offset(p, r) = 1
    BY <1>6, <2>2 DEF Offset
  <2>4. Progress(p, r, call[j])
    BY <1>4, <1>6, <2>2 DEF Progress
  <2>5. BeingRead(m, p, r, call[j])
    BY <1>6, <2>1, <2>3, <2>4, Zenon DEF BeingRead
  <2> QED
    BY <1>7, <2>5 DEF Sync
<1> HIDE DEF p
<1> QED
  BY <1>2, <1>6, <1>7, <1>8, <1>9, <1>10, InPlaceKeeps

-----------------------------------------------------------------------------
(* The body of a response.                                                  *)

\* Nothing follows the last piece of a response.
LEMMA StreamEnd ==
  ASSUME NEW l \in Conns, NEW r, NEW code, NEW f, NEW k \in Nat, k >= Total(f),
         Stream(l, r, code, f, k)
  PROVE  l.retained = <<>> /\ l.inbox = <<>>
<1>1. ASSUME NEW s \in Seq(Pieces), NEW i \in Nat, i >= Total(f), Ahead(s, r, code, f, i)
      PROVE  s = <<>>
  <2>1. SUFFICES ASSUME s # <<>> PROVE FALSE
    OBVIOUS
  <2>2. 1 \in DOMAIN s
    BY <2>1
  <2>3. i + 1 <= Total(f)
    BY <1>1, <2>2, Zenon DEF Ahead
  <2>4. Total(f) \in Nat
    BY TotalNat
  <2> HIDE DEF Total
  <2> QED
    BY <1>1, <2>3, <2>4
<1>2. l.retained \in Seq(Pieces) /\ l.inbox \in Seq(Pieces)
  BY ConnFields
<1>3. Ahead(l.retained, r, code, f, k) /\ Ahead(l.inbox, r, code, f, k + Len(l.retained))
  BY DEF Stream
<1>4. l.retained = <<>>
  BY <1>1, <1>2, <1>3
<1>5. k + Len(l.retained) = k
  BY <1>4
<1>6. l.inbox = <<>>
  BY <1>1, <1>2, <1>3, <1>5
<1> QED
  BY <1>4, <1>6

\* What is read of a body is data, and no more than is left of it.
LEMMA DataCut ==
  ASSUME NEW cl, NEW f, NEW s \in Seq(Pieces), NEW u \in Seq(Pieces), Len(u) # 0,
         NEW k, k = IF f = "chunked" THEN Len(s) + 2 ELSE Len(s) + 1,
         Ahead(u, cl, "ok", f, k), f = "chunked" => Len(s) + Len(u) <= Body
  PROVE  Len(s) + Len(u) <= Body /\ \A i \in DOMAIN u : u[i] = Datum(cl)
<1> DEFINE n == Len(s)
           x == Len(u)
<1>1. Body \in Nat /\ DOMAIN u = 1 .. x /\ n \in Nat /\ x \in Nat \ {0}
  BY BoundAssumption
<1> HIDE DEF n, x
<1>2. CASE f = "chunked" /\ k = n + 2 /\ n + x <= Body
  <2>1. ASSUME NEW i \in 1 .. x PROVE u[i] = Datum(cl)
    <3>1. u[i] = Due(cl, "ok", f, (n + 2) + i)
      BY <1>1, <1>2, Zenon DEF Ahead
    <3>2. (n + 2) + i \in Nat /\ (n + 2) + i > 2 /\ (n + 2) + i <= Body + 2
      BY <1>1, <1>2
    <3> QED
      BY <1>2, <3>1, <3>2 DEF Due
  <2> QED
    BY <1>1, <1>2, <2>1 DEF n, x
<1>3. CASE f # "chunked" /\ k = n + 1
  <2>1. ASSUME NEW i \in 1 .. x PROVE u[i] = Datum(cl) /\ (n + 1) + i <= Body + 1
    <3>1. u[i] = Due(cl, "ok", f, (n + 1) + i) /\ (n + 1) + i <= Total(f)
      BY <1>1, <1>3, Zenon DEF Ahead
    <3>2. (n + 1) + i # 1
      BY <1>1
    <3> QED
      BY <1>3, <3>1, <3>2 DEF Due, Total
  <2>2. x \in 1 .. x
    BY <1>1
  <2>3. (n + 1) + x <= Body + 1
    BY <2>1, <2>2
  <2>4. n + x <= Body
    BY <1>1, <2>3
  <2> QED
    BY <1>1, <2>1, <2>4 DEF n, x
<1> QED
  BY <1>2, <1>3 DEF n, x

\* Data that follows data is data.
LEMMA DataJoin ==
  ASSUME NEW s \in Seq(Pieces), NEW u \in Seq(Pieces), NEW d,
         \A i \in DOMAIN s : s[i] = d, \A i \in DOMAIN u : u[i] = d
  PROVE  \A i \in DOMAIN (s \o u) : (s \o u)[i] = d
<1> DEFINE w == s \o u
<1>1. /\ Len(s) \in Nat /\ Len(u) \in Nat /\ DOMAIN w = 1 .. (Len(s) + Len(u))
      /\ DOMAIN s = 1 .. Len(s) /\ DOMAIN u = 1 .. Len(u)
      /\ \A i \in 1 .. Len(s) : w[i] = s[i]
      /\ \A i \in 1 .. Len(u) : w[Len(s) + i] = u[i]
  OBVIOUS
<1> HIDE DEF w
<1>2. ASSUME NEW i \in DOMAIN w PROVE w[i] = d
  <2>1. CASE i \in 1 .. Len(s)
    BY <1>1, <2>1
  <2>2. CASE i \notin 1 .. Len(s)
    <3>1. i - Len(s) \in 1 .. Len(u) /\ Len(s) + (i - Len(s)) = i
      BY <1>1, <2>2
    <3>2. w[i] = u[i - Len(s)]
      BY <1>1, <3>1
    <3> QED
      BY <1>1, <3>1, <3>2
  <2> QED
    BY <2>1, <2>2
<1> QED
  BY <1>2 DEF w

\* Where a call reads its body, it has the connection for it.
LEMMA ReadingNow ==
  ASSUME ClientInv, NEW j \in Jobs, pc[j] \in {"data", "line", "crlf", "last"}
  PROVE  LET l == conn[link[j]] IN
         /\ link[j] # 0 /\ link[j] \in Links /\ Typed /\ l \in Conns /\ BodyFirst(l)
         /\ res[j] \in Responses /\ res[j].got \in Seq(Pieces) /\ Len(res[j].got) \in Nat
         /\ res[j].framing \in Framings /\ res[j].size \in 0 .. Body /\ res[j].read \in Nat
         /\ Body \in Nat /\ Body >= 1
         /\ (excuse[link[j]] = {} =>
               /\ l.outbox = <<>> /\ Progress(pc[j], res[j], call[j])
               /\ Stream(l, call[j], "ok", res[j].framing, Offset(pc[j], res[j])))
<1>1. link[j] # 0 /\ Typed
  BY HasLink, Zenon DEF ClientInv
<1>2. /\ link[j] \in Links /\ conn[link[j]] \in Conns /\ BodyFirst(conn[link[j]])
      /\ (excuse[link[j]] = {} => Sync(conn[link[j]], pc[j], res[j], call[j]))
  BY <1>1, SyncNow
<1>3. res[j] \in Responses
  BY <1>1, CallTypes
<1>4. /\ res[j].got \in Seq(Pieces) /\ Len(res[j].got) \in Nat
      /\ res[j].framing \in Framings /\ res[j].size \in 0 .. Body /\ res[j].read \in Nat
      /\ Body \in Nat /\ Body >= 1
  BY <1>3, BoundAssumption DEF Responses
<1>5. excuse[link[j]] = {} => BeingRead(conn[link[j]], pc[j], res[j], call[j])
  BY <1>2 DEF Sync
<1> QED
  BY <1>1, <1>2, <1>3, <1>4, <1>5, Zenon DEF BeingRead

LEMMA ReadDataKeeps == ASSUME ClientInv, NEW j \in Jobs, ReadData(j) PROVE ClientInv'
<1> DEFINE l == conn[link[j]]
           o == res[j]
           n == Remaining(o)
           f == o.framing
           g == o.got
           cl == call[j]
<1>1. /\ pc[j] = "data" /\ n > 0 /\ Goes(j)
      /\ use' = use /\ begun' = begun /\ call' = call /\ link' = link /\ last' = last
      /\ length' = length /\ pool' = pool /\ excuse' = excuse
  BY DEF ReadData
<1>2. PICK t \in Taken(j, n) :
        LET r == [o EXCEPT !.read = @ + Len(t[1]), !.got = @ \o t[1]]
        IN /\ res' = [res EXCEPT ![j] = IF ChunkOver(r) THEN [r EXCEPT !.read = 0] ELSE r]
           /\ pc' = [pc EXCEPT ![j] = IF ChunkOver(r) THEN "crlf" ELSE "data"]
           /\ conn' = [conn EXCEPT ![link[j]] = t[2]]
  BY DEF ReadData
<1>3. /\ link[j] # 0 /\ link[j] \in Links /\ Typed /\ l \in Conns /\ BodyFirst(l)
      /\ o \in Responses /\ g \in Seq(Pieces) /\ Len(g) \in Nat
      /\ f \in Framings /\ o.size \in 0 .. Body /\ o.read \in Nat
      /\ Body \in Nat /\ Body >= 1
      /\ (excuse[link[j]] = {} =>
            /\ l.outbox = <<>> /\ Progress("data", o, cl)
            /\ Stream(l, cl, "ok", f, Offset("data", o)))
  BY <1>1, ReadingNow
<1>4. n \in Nat \ {0} /\ (f # "open" => n = o.size - o.read)
  BY <1>1, <1>3 DEF Remaining
<1> DEFINE u == t[1]
           x == Len(u)
           m == t[2]
<1>5. /\ u \in Seq(Pieces) /\ x \in 1 .. n /\ m \in Conns
      /\ m.state = l.state /\ m.outbox = l.outbox
      /\ \A r, code, h : \A k \in Nat :
           Stream(l, r, code, h, k) => Ahead(u, r, code, h, k) /\ Stream(m, r, code, h, k + x)
  <2> HIDE DEF n
  <2> QED
    BY <1>3, <1>4, TakenCut
<1> DEFINE a == o.read + x
           w == g \o u
           r == [o EXCEPT !.read = a, !.got = w]
           over == f = "chunked" /\ a = o.size
           q == IF over THEN [r EXCEPT !.read = 0] ELSE r
           p == IF over THEN "crlf" ELSE "data"
<1>6. /\ res' = [res EXCEPT ![j] = q] /\ pc' = [pc EXCEPT ![j] = p]
      /\ conn' = [conn EXCEPT ![link[j]] = m]
  <2>1. LET b == [o EXCEPT !.read = @ + Len(t[1]), !.got = @ \o t[1]]
        IN /\ res' = [res EXCEPT ![j] = IF ChunkOver(b) THEN [b EXCEPT !.read = 0] ELSE b]
           /\ pc' = [pc EXCEPT ![j] = IF ChunkOver(b) THEN "crlf" ELSE "data"]
           /\ conn' = [conn EXCEPT ![link[j]] = t[2]]
    BY <1>2
  <2>2. r = [o EXCEPT !.read = @ + Len(t[1]), !.got = @ \o t[1]]
    OBVIOUS
  <2>3. r.framing = f /\ r.read = a /\ r.size = o.size
    <3> HIDE DEF a, w, o
    <3> QED
      BY <1>3 DEF Responses
  <2>4. ChunkOver(r) <=> over
    <3> HIDE DEF r, a
    <3> QED
      BY <2>3 DEF ChunkOver
  <2> QED
    BY <2>1, <2>2, <2>4
<1> HIDE DEF u, x, m
<1>7. a \in Nat /\ x \in Nat \ {0} /\ x <= n
  BY <1>3, <1>4, <1>5
<1>8. w \in Seq(Pieces) /\ Len(w) = Len(g) + x
  <2>1. \A s, v \in Seq(Pieces) : s \o v \in Seq(Pieces) /\ Len(s \o v) = Len(s) + Len(v)
    OBVIOUS
  <2> HIDE DEF g
  <2> QED
    BY <1>3, <1>5, <2>1 DEF x
<1>9. /\ q \in Responses /\ q.framing = f /\ q.size = o.size /\ q.got = w
      /\ q.read = IF over THEN 0 ELSE a
  <2> DEFINE b == IF over THEN 0 ELSE a
  <2>1. b \in Nat
    BY <1>7
  <2>2. q = [o EXCEPT !.read = b, !.got = w]
    <3> HIDE DEF a, w, o, over
    <3> QED
      BY <1>3 DEF Responses
  <2> HIDE DEF q, w, o, b
  <2>3. q \in Responses /\ q.framing = o.framing /\ q.size = o.size /\ q.got = w /\ q.read = b
    BY <1>3, <1>8, <2>1, <2>2 DEF Responses
  <2> QED
    BY <2>3 DEF b
<1>10. BodyFirst(m) /\ Poolable(j, m)
  BY <1>3, <1>5 DEF BodyFirst, Poolable
<1>11. p \in Places \ {"idle", "lookup"} /\ p \in {"crlf", "data"}
  BY DEF Places
<1>12. ASSUME excuse[link[j]] = {} PROVE Sync(m, p, q, cl)
  <2>1. /\ Len(g) <= Body /\ \A i \in DOMAIN g : g[i] = Datum(cl)
        /\ o.size = Body /\ o.read = Len(g)
        /\ (f = "chunked" => o.read < o.size)
    BY <1>3, <1>12 DEF Progress
  <2> DEFINE k == IF f = "chunked" THEN Len(g) + 2 ELSE Len(g) + 1
  <2>2. Offset("data", o) = k /\ k \in Nat
    BY <1>3 DEF Offset
  <2>3. Ahead(u, cl, "ok", f, k) /\ Stream(m, cl, "ok", f, k + x)
    BY <1>3, <1>5, <1>12, <2>2
  <2>4. f = "chunked" => Len(g) + x <= Body
    <3>1. ASSUME f = "chunked" PROVE Len(g) + x <= Body
      <4>1. n = Body - Len(g)
        BY <1>4, <2>1, <3>1
      <4> QED
        BY <1>3, <1>7, <4>1
    <3> QED
      BY <3>1
  <2>5. Len(g) + x <= Body /\ \A i \in DOMAIN u : u[i] = Datum(cl)
    <3>1. g \in Seq(Pieces) /\ u \in Seq(Pieces) /\ Len(u) # 0 /\ Len(u) = x
      BY <1>3, <1>5, <1>7 DEF x
    <3>2. /\ k = IF f = "chunked" THEN Len(g) + 2 ELSE Len(g) + 1
          /\ Ahead(u, cl, "ok", f, k) /\ (f = "chunked" => Len(g) + Len(u) <= Body)
      BY <2>3, <2>4 DEF x
    <3> HIDE DEF g, f, cl, k
    <3>3. Len(g) + Len(u) <= Body /\ \A i \in DOMAIN u : u[i] = Datum(cl)
      BY <3>1, <3>2, DataCut
    <3> QED
      BY <3>1, <3>3
  <2>6. Len(w) <= Body /\ a = Len(w) /\ (over => Len(w) = Body)
    <3>1. a = Len(g) + x
      BY <2>1
    <3> QED
      BY <1>8, <2>1, <2>5, <3>1
  <2>7. \A i \in DOMAIN w : w[i] = Datum(cl)
    <3> HIDE DEF g, cl
    <3> QED
      BY <1>3, <1>5, <2>1, <2>5, DataJoin
  <2>8. Progress(p, q, cl)
    <3>1. /\ q.got = w /\ q.size = Body /\ q.framing = f
          /\ q.read = IF over THEN 0 ELSE Len(w)
      BY <1>9, <2>1, <2>6
    <3>2. CASE over
      <4>1. p = "crlf" /\ q.read = 0 /\ f = "chunked" /\ Len(w) = Body
        BY <2>6, <3>1, <3>2
      <4> HIDE DEF p, q, w, over
      <4> QED
        BY <1>3, <2>6, <2>7, <3>1, <4>1 DEF Progress
    <3>3. CASE ~over
      <4>1. p = "data" /\ q.read = Len(w)
        BY <3>1, <3>3
      <4>2. f = "chunked" => Len(w) < Body
        <5>1. f = "chunked" => Len(w) # Body
          BY <2>1, <2>6, <3>3
        <5>2. Len(w) \in Nat
          BY <1>8
        <5> HIDE DEF w
        <5> QED
          BY <1>3, <2>6, <5>1, <5>2
      <4> HIDE DEF p, q, w, over
      <4> QED
        BY <2>6, <2>7, <3>1, <4>1, <4>2 DEF Progress
    <3> QED
      BY <3>2, <3>3
  <2>9. Offset(p, q) = k + x
    <3>1. q.got = w /\ q.framing = f /\ x \in Nat
      BY <1>7, <1>9
    <3>2. CASE over
      <4>1. p = "crlf" /\ f = "chunked" /\ Len(g) + x = Body
        BY <1>8, <2>6, <3>2
      <4>2. Offset(p, q) = Body + 2
        BY <4>1 DEF Offset
      <4>3. k + x = Body + 2
        BY <1>3, <3>1, <4>1
      <4> QED
        BY <4>2, <4>3
    <3>3. CASE ~over
      <4>1. p = "data"
        BY <3>3
      <4>2. Offset(p, q) = IF f = "chunked" THEN (Len(g) + x) + 2 ELSE (Len(g) + x) + 1
        <5> HIDE DEF q, w, f
        <5> QED
          BY <1>8, <3>1, <4>1 DEF Offset
      <4> QED
        BY <1>3, <3>1, <4>2
    <3> QED
      BY <3>2, <3>3
  <2>10. m.outbox = <<>> /\ q.framing = f
    BY <1>3, <1>5, <1>9, <1>12
  <2> HIDE DEF p, q, k, f, cl
  <2>11. BeingRead(m, p, q, cl)
    BY <2>3, <2>8, <2>9, <2>10 DEF BeingRead
  <2> QED
    BY <1>11, <2>11 DEF Sync
<1> HIDE DEF p, q
<1>13. excuse' = Excused(link[j], {}) /\ {} \in SUBSET Excuses
       /\ excuse[link[j]] \cup {} = excuse[link[j]]
  BY <1>1, <1>3, NotExcused
<1>14. InPlace(j, p, q, m, {})
  <2>1. Timed
    BY <1>1, <1>3, GoesTimed
  <2>2. excuse' = [excuse EXCEPT ![link[j]] = @ \cup {}]
    BY <1>13 DEF Excused
  <2> QED
    BY <1>1, <1>6, <2>1, <2>2, Zenon DEF InPlace
<1>15. excuse[link[j]] \cup {} = {} => Sync(m, p, q, call[j])
  BY <1>12, <1>13
<1>16. p # "body" /\ p \notin {"open", "handshake"}
  BY <1>11
<1> QED
  BY <1>3, <1>5, <1>9, <1>10, <1>11, <1>13, <1>14, <1>15, <1>16, InPlaceKeeps

\* All of the body has been read, and nothing else.
LEMMA ReadAllKeeps == ASSUME ClientInv, NEW j \in Jobs, ReadAll(j) PROVE ClientInv'
<1> DEFINE l == conn[link[j]]
           o == res[j]
           f == o.framing
<1>1. /\ pc[j] = "data" /\ Remaining(o) = 0 /\ Ends(j, "no", conn) /\ UNCHANGED excuse
  BY DEF ReadAll
<1>2. /\ link[j] # 0 /\ link[j] \in Links /\ Typed /\ l \in Conns /\ BodyFirst(l)
      /\ o.got \in Seq(Pieces) /\ Len(o.got) \in Nat
      /\ f \in Framings /\ o.size \in 0 .. Body /\ o.read \in Nat
      /\ Body \in Nat /\ Body >= 1
      /\ (excuse[link[j]] = {} =>
            /\ l.outbox = <<>> /\ Progress("data", o, call[j])
            /\ Stream(l, call[j], "ok", f, Offset("data", o)))
  BY <1>1, ReadingNow
<1>3. ASSUME excuse[link[j]] = {} PROVE o.got = Datas(call[j]) /\ Quiet(l)
  <2>1. /\ \A i \in DOMAIN o.got : o.got[i] = Datum(call[j])
        /\ o.size = Body /\ o.read = Len(o.got) /\ (f = "chunked" => o.read < o.size)
    BY <1>2, <1>3 DEF Progress
  <2>2. f # "open" /\ o.size = o.read
    <3>1. f # "open"
      BY <1>1, <1>2 DEF Remaining
    <3>2. o.size - o.read = 0
      BY <1>1, <3>1 DEF Remaining
    <3> QED
      BY <1>2, <3>1, <3>2
  <2>3. f # "chunked" /\ Len(o.got) = Body
    BY <1>2, <2>1, <2>2
  <2>4. Offset("data", o) = Body + 1 /\ Total(f) = Body + 1 /\ Body + 1 \in Nat
    BY <1>2, <2>3 DEF Offset, Total
  <2>5. Stream(l, call[j], "ok", f, Body + 1) /\ Body + 1 >= Total(f)
    BY <1>2, <1>3, <2>4
  <2>6. l.retained = <<>> /\ l.inbox = <<>>
    BY <1>2, <2>4, <2>5, StreamEnd
  <2>7. o.got = Datas(call[j])
    BY <1>2, <2>1, <2>3, WholeBody
  <2> QED
    BY <1>2, <1>3, <2>6, <2>7 DEF Quiet
<1>4. /\ excuse' = Excused(link[j], {}) /\ {} \in SUBSET Excuses
      /\ excuse[link[j]] \cup {} = excuse[link[j]]
  BY <1>1, <1>2, NotExcused
<1>5. Ends(j, "no", [conn EXCEPT ![link[j]] = l])
  <2>1. conn = [conn EXCEPT ![link[j]] = l]
    BY <1>2 DEF Typed
  <2> QED
    BY <1>1, <2>1
<1>6. Poolable(j, l) /\ "no" \in Reasons
  BY DEF Poolable, Reasons
<1> HIDE DEF l
<1> QED
  BY <1>2, <1>3, <1>4, <1>5, <1>6, EndsKeeps

\* A set of numbers has a smallest.
LEMMA LeastIn ==
  ASSUME NEW T, T \subseteq Nat, T # {}
  PROVE  \E x \in T : \A y \in T : x <= y
<1> DEFINE R == OpToRel(<, Nat)
<1>1. IsWellFoundedOn(R, Nat)
  BY NatLessThanWellFounded
<1>2. \A x, y \in Nat : y < x => <<y, x>> \in R
  BY DEF OpToRel
<1> HIDE DEF R
<1>3. \E x \in T : \A y \in T : ~(<<y, x>> \in R)
  BY <1>1, WFMin
<1>4. \A x, y \in Nat : ~(<<y, x>> \in R) => x <= y
  BY <1>2
<1> QED
  BY <1>3, <1>4

\* Where the first line ends: at once, when no data comes before it.
LEMMA LineCut ==
  ASSUME NEW s \in Seq(Pieces), LineEnds(s)
  PROVE  /\ s # <<>> /\ s[1] \in Pieces /\ LineOf(s) \in 1 .. Len(s)
         /\ s[1].part # "data" => LineOf(s) = 1
<1> DEFINE T == {p \in DOMAIN s : s[p].part # "data"}
           P(p) == s[p].part # "data" /\ \A q \in 1 .. (p - 1) : s[q].part = "data"
<1>1. DOMAIN s = 1 .. Len(s) /\ Len(s) \in Nat
  OBVIOUS
<1>2. T # {} /\ T \subseteq Nat
  BY <1>1 DEF LineEnds
<1>3. PICK x \in T : \A y \in T : x <= y
  <2> HIDE DEF T
  <2> QED
    BY <1>2, LeastIn
<1>4. \A q \in 1 .. (x - 1) : q \in DOMAIN s /\ q \notin T
  BY <1>1, <1>3
<1>5. x \in DOMAIN s /\ P(x)
  BY <1>1, <1>3, <1>4
<1>6. LineOf(s) \in DOMAIN s /\ P(LineOf(s))
  BY <1>5 DEF LineOf
<1>7. s # <<>> /\ s[1] \in Pieces
  BY <1>1, <1>5
<1>8. ASSUME s[1].part # "data" PROVE LineOf(s) = 1
  <2> DEFINE n == LineOf(s)
  <2>1. n \in 1 .. Len(s) /\ \A q \in 1 .. (n - 1) : s[q].part = "data"
    BY <1>1, <1>6
  <2> HIDE DEF n
  <2>2. 1 \notin 1 .. (n - 1)
    BY <1>8, <2>1
  <2>3. n = 1
    BY <1>1, <2>1, <2>2
  <2> QED
    BY <2>3 DEF n
<1> QED
  BY <1>1, <1>6, <1>7, <1>8

\* A line: the size of a chunk, or the end.
LEMMA ReadLineKeeps == ASSUME ClientInv, NEW j \in Jobs, ReadLine(j) PROVE ClientInv'
<1> DEFINE l == conn[link[j]]
           o == res[j]
           cl == call[j]
           s == l.retained
           z == SizeOf(s)
           q == [o EXCEPT !.size = z]
           p == IF z = 0 THEN "last" ELSE "data"
           n == LineOf(s)
           m == [l EXCEPT !.retained = After(s, n)]
<1>1. /\ pc[j] = "line" /\ LineEnds(s) /\ Goes(j)
      /\ res' = [res EXCEPT ![j].size = z] /\ pc' = [pc EXCEPT ![j] = p]
      /\ conn' = [conn EXCEPT ![link[j]].retained = After(@, LineOf(@))]
      /\ use' = use /\ begun' = begun /\ call' = call /\ link' = link /\ last' = last
      /\ length' = length /\ pool' = pool /\ excuse' = excuse
  BY DEF ReadLine, Retained
<1>2. /\ link[j] # 0 /\ link[j] \in Links /\ Typed /\ l \in Conns /\ BodyFirst(l)
      /\ o \in Responses /\ Len(o.got) \in Nat /\ o.framing \in Framings
      /\ Body \in Nat /\ Body >= 1
      /\ (excuse[link[j]] = {} =>
            /\ l.outbox = <<>> /\ Progress("line", o, cl)
            /\ Stream(l, cl, "ok", o.framing, Offset("line", o)))
  BY <1>1, ReadingNow
<1>3. s \in Seq(Pieces) /\ Len(s) \in Nat
  BY <1>2, ConnFields
<1>4. /\ s # <<>> /\ s[1] \in Pieces /\ n \in 1 .. Len(s) /\ n \in 0 .. Len(s)
      /\ (s[1].part # "data" => n = 1)
  <2> HIDE DEF s
  <2>1. /\ s # <<>> /\ s[1] \in Pieces /\ n \in 1 .. Len(s)
        /\ (s[1].part # "data" => n = 1)
    BY <1>1, <1>3, LineCut
  <2> HIDE DEF n
  <2> QED
    BY <1>3, <2>1
<1>5. After(s, n) \in Seq(Pieces) /\ Len(After(s, n)) = Len(s) - n
  <2> HIDE DEF s, n
  <2> QED
    BY <1>3, <1>4, AfterCut
<1>6. conn' = [conn EXCEPT ![link[j]] = m] /\ res' = [res EXCEPT ![j] = q]
  BY <1>1
<1>7. /\ m \in Conns /\ m.state = l.state /\ m.outbox = l.outbox
      /\ m.retained = After(s, n) /\ m.inbox = l.inbox
  <2> HIDE DEF s, n
  <2> QED
    BY <1>2, <1>5 DEF Conns
<1>8. BodyFirst(m) /\ Poolable(j, m)
  BY <1>2, <1>7 DEF BodyFirst, Poolable
<1> HIDE DEF n, m
<1>9. z \in 0 .. Body
  BY <1>2 DEF SizeOf
<1>10. /\ q \in Responses /\ q.size = z /\ q.framing = o.framing /\ q.got = o.got
       /\ q.read = o.read
  <2> HIDE DEF z, o
  <2> QED
    BY <1>2, <1>9 DEF Responses
<1>11. p \in Places \ {"idle", "lookup"} /\ p \in {"last", "data"}
  BY DEF Places
<1>12. ASSUME excuse[link[j]] = {} PROVE Sync(m, p, q, cl)
  <2> DEFINE k == Offset("line", o)
             f == o.framing
  <2>1. /\ l.outbox = <<>> /\ Progress("line", o, cl) /\ Stream(l, cl, "ok", f, k) /\ k \in Nat
    BY <1>2, <1>12, OffsetNat
  <2>2. /\ Len(o.got) <= Body /\ \A i \in DOMAIN o.got : o.got[i] = Datum(cl)
        /\ f = "chunked" /\ o.read = 0 /\ (o.got = <<>> \/ Len(o.got) = Body)
    BY <2>1 DEF Progress
  <2>3. k = IF o.got = <<>> THEN 1 ELSE Body + 3
    BY DEF Offset
  <2> HIDE DEF k
  <2>4. Ahead(s, cl, "ok", f, k) /\ Ahead(l.inbox, cl, "ok", f, k + Len(s))
    BY <2>1 DEF Stream
  <2>5. s[1] = Due(cl, "ok", f, k + 1)
    <3>1. 1 \in DOMAIN s
      BY <1>3, <1>4
    <3> HIDE DEF s
    <3> QED
      BY <2>4, <3>1, Zenon DEF Ahead
  <2>6. s[1].part = IF o.got = <<>> THEN "size" ELSE "end"
    <3>1. CASE o.got = <<>>
      <4>1. s[1] = LineOfChunk(cl, "size")
        BY <1>2, <2>2, <2>3, <2>5, <3>1 DEF Due
      <4> QED
        BY <3>1, <4>1 DEF LineOfChunk, Piece
    <3>2. CASE o.got # <<>>
      <4>1. s[1] = LineOfChunk(cl, "end")
        BY <1>2, <2>2, <2>3, <2>5, <3>2 DEF Due
      <4> QED
        BY <3>2, <4>1 DEF LineOfChunk, Piece
    <3> QED
      BY <3>1, <3>2
  <2>7. n = 1 /\ z = IF o.got = <<>> THEN Body ELSE 0
    BY <1>4, <2>6 DEF SizeOf
  <2>8. Stream(m, cl, "ok", f, k + 1)
    <3>1. Ahead(After(s, n), cl, "ok", f, k + n)
      <4> HIDE DEF s
      <4> QED
        BY <1>3, <1>4, <2>1, <2>4, AheadCut
    <3> DEFINE x == Len(After(s, n))
               y == Len(s)
    <3>2. x = y - 1 /\ y \in Nat
      BY <1>3, <1>5, <2>7
    <3> HIDE DEF x, y
    <3>3. (k + 1) + x = k + y
      BY <2>1, <3>2
    <3>4. Ahead(m.retained, cl, "ok", f, k + 1)
      BY <1>7, <2>7, <3>1
    <3>5. Ahead(m.inbox, cl, "ok", f, (k + 1) + Len(m.retained))
      BY <1>7, <2>4, <3>3 DEF x, y
    <3> QED
      BY <3>4, <3>5 DEF Stream
  <2> HIDE DEF z, q
  <2>9. Progress(p, q, cl) /\ Offset(p, q) = k + 1
    <3>1. CASE o.got = <<>>
      <4>1. p = "data" /\ Len(o.got) = 0 /\ q.size = Body /\ k = 1
        BY <1>2, <1>10, <2>3, <2>7, <3>1
      <4> HIDE DEF p
      <4> QED
        BY <1>2, <1>10, <2>2, <4>1 DEF Progress, Offset
    <3>2. CASE o.got # <<>>
      <4>1. p = "last" /\ Len(o.got) = Body /\ k = Body + 3
        BY <2>2, <2>3, <2>7, <3>2
      <4> HIDE DEF p
      <4> QED
        BY <1>2, <1>10, <2>2, <4>1 DEF Progress, Offset
    <3> QED
      BY <3>1, <3>2
  <2>10. BeingRead(m, p, q, cl)
    BY <1>7, <1>10, <2>1, <2>8, <2>9, Zenon DEF BeingRead
  <2> QED
    BY <1>11, <2>10 DEF Sync
<1> HIDE DEF p, q
<1>13. excuse' = Excused(link[j], {}) /\ {} \in SUBSET Excuses
       /\ excuse[link[j]] \cup {} = excuse[link[j]]
  BY <1>1, <1>2, NotExcused
<1>14. InPlace(j, p, q, m, {})
  <2>1. Timed
    BY <1>1, <1>2, GoesTimed
  <2>2. excuse' = [excuse EXCEPT ![link[j]] = @ \cup {}]
    BY <1>13 DEF Excused
  <2>3. pc' = [pc EXCEPT ![j] = p]
    BY <1>1 DEF p
  <2> QED
    BY <1>1, <1>6, <2>1, <2>2, <2>3, Zenon DEF InPlace
<1>15. excuse[link[j]] \cup {} = {} => Sync(m, p, q, call[j])
  BY <1>12, <1>13
<1>16. p # "body" /\ p \notin {"open", "handshake"}
  BY <1>11
<1> QED
  BY <1>2, <1>7, <1>8, <1>10, <1>11, <1>13, <1>14, <1>15, <1>16, InPlaceKeeps

\* The empty line after a chunk, or after the last: nothing is left of the response.
LEMMA ReadCrLfKeeps == ASSUME ClientInv, NEW j \in Jobs, ReadCrLf(j) PROVE ClientInv'
<1> DEFINE l == conn[link[j]]
           o == res[j]
           cl == call[j]
           f == o.framing
<1>1. pc[j] \in {"crlf", "last"}
  BY DEF ReadCrLf
<1>2. /\ link[j] # 0 /\ link[j] \in Links /\ Typed /\ l \in Conns /\ BodyFirst(l)
      /\ o.got \in Seq(Pieces) /\ Len(o.got) \in Nat
      /\ Body \in Nat /\ Body >= 1
      /\ (excuse[link[j]] = {} =>
            /\ l.outbox = <<>> /\ Progress(pc[j], o, cl)
            /\ Stream(l, cl, "ok", f, Offset(pc[j], o)))
  BY <1>1, ReadingNow
<1>3. PICK t \in Taken(j, 1) :
       LET links == [conn EXCEPT ![link[j]] = t[2]]
       IN \/ /\ pc[j] = "crlf"
             /\ pc' = [pc EXCEPT ![j] = "line"] /\ conn' = links
             /\ Goes(j)
             /\ UNCHANGED <<use, begun, call, link, res, last, length, pool, excuse>>
          \/ pc[j] = "last" /\ Ends(j, "no", links) /\ UNCHANGED excuse
  BY DEF ReadCrLf
<1> DEFINE m == t[2]
<1>4. /\ Len(t[1]) = 1 /\ m \in Conns /\ m.state = l.state /\ m.outbox = l.outbox
      /\ \A r, code, h : \A k \in Nat : Stream(l, r, code, h, k) => Stream(m, r, code, h, k + 1)
  <2>1. 1 \in Nat \ {0}
    OBVIOUS
  <2>2. /\ Len(t[1]) \in 1 .. 1 /\ m \in Conns /\ m.state = l.state /\ m.outbox = l.outbox
        /\ \A r, code, h : \A k \in Nat :
             Stream(l, r, code, h, k) => Stream(m, r, code, h, k + Len(t[1]))
    BY <1>2, <2>1, TakenCut
  <2>3. Len(t[1]) = 1
    BY <2>2
  <2> QED
    BY <2>2, <2>3
<1>5. \/ /\ pc[j] = "crlf" /\ pc' = [pc EXCEPT ![j] = "line"]
         /\ conn' = [conn EXCEPT ![link[j]] = m] /\ Goes(j)
         /\ UNCHANGED <<use, begun, call, link, res, last, length, pool, excuse>>
      \/ /\ pc[j] = "last" /\ Ends(j, "no", [conn EXCEPT ![link[j]] = m])
         /\ UNCHANGED excuse
  BY <1>3
<1> HIDE DEF m
<1>6. BodyFirst(m) /\ Poolable(j, m)
  BY <1>2, <1>4 DEF BodyFirst, Poolable
<1>7. /\ excuse = Excused(link[j], {}) /\ {} \in SUBSET Excuses
      /\ excuse[link[j]] \cup {} = excuse[link[j]]
  BY <1>2, NotExcused
<1>8. CASE /\ pc[j] = "crlf" /\ pc' = [pc EXCEPT ![j] = "line"]
           /\ conn' = [conn EXCEPT ![link[j]] = m] /\ Goes(j)
           /\ UNCHANGED <<use, begun, call, link, res, last, length, pool, excuse>>
  <2>1. ASSUME excuse[link[j]] = {} PROVE Sync(m, "line", o, cl)
    <3>1. l.outbox = <<>> /\ Progress("crlf", o, cl) /\ Stream(l, cl, "ok", f, Body + 2)
      BY <1>2, <1>8, <2>1 DEF Offset
    <3>2. Progress("line", o, cl) /\ Len(o.got) = Body
      BY <3>1 DEF Progress
    <3>3. Offset("line", o) = (Body + 2) + 1
      <4>1. o.got # <<>>
        BY <1>2, <3>2
      <4> QED
        BY <1>2, <4>1 DEF Offset
    <3>4. Stream(m, cl, "ok", f, Offset("line", o))
      <4>1. Body + 2 \in Nat
        BY <1>2
      <4> QED
        BY <1>4, <3>1, <3>3, <4>1
    <3>5. BeingRead(m, "line", o, cl)
      BY <1>4, <3>1, <3>2, <3>4 DEF BeingRead
    <3> QED
      BY <3>5 DEF Sync
  <2>2. "line" \in Places \ {"idle", "lookup"} /\ Timed
    BY <1>2, <1>8, GoesTimed DEF Places
  <2>3. /\ excuse' = Excused(link[j], {})
        /\ UNCHANGED <<use, begun, call, link, res, last, length, pool>>
    BY <1>7, <1>8
  <2> QED
    BY <1>2, <1>4, <1>6, <1>7, <1>8, <2>1, <2>2, <2>3, MovesKeeps
<1>9. CASE /\ pc[j] = "last" /\ Ends(j, "no", [conn EXCEPT ![link[j]] = m])
           /\ UNCHANGED excuse
  <2>1. ASSUME excuse[link[j]] = {} PROVE o.got = Datas(cl) /\ Quiet(m)
    <3>1. l.outbox = <<>> /\ Progress("last", o, cl) /\ Stream(l, cl, "ok", f, Body + 4)
      BY <1>2, <1>9, <2>1 DEF Offset
    <3>2. /\ f = "chunked" /\ Len(o.got) = Body
          /\ \A i \in DOMAIN o.got : o.got[i] = Datum(cl)
      BY <3>1 DEF Progress
    <3>3. o.got = Datas(cl)
      BY <1>2, <3>2, WholeBody
    <3>4. /\ Body + 4 \in Nat /\ (Body + 4) + 1 \in Nat /\ (Body + 4) + 1 >= Total(f)
      BY <1>2, <3>2 DEF Total
    <3>5. Stream(m, cl, "ok", f, (Body + 4) + 1)
      BY <1>4, <3>1, <3>4
    <3>6. m.retained = <<>> /\ m.inbox = <<>>
      BY <1>4, <3>4, <3>5, StreamEnd
    <3> QED
      BY <1>4, <3>1, <3>3, <3>6 DEF Quiet
  <2>2. "no" \in Reasons /\ excuse' = Excused(link[j], {})
    BY <1>7, <1>9 DEF Reasons
  <2> QED
    BY <1>2, <1>4, <1>6, <1>7, <1>9, <2>1, <2>2, EndsKeeps
<1> QED
  BY <1>5, <1>8, <1>9

-----------------------------------------------------------------------------
(* The theorems.                                                            *)

\* A step that changes nothing.
LEMMA StutterKeeps == ASSUME ClientInv, UNCHANGED vars PROVE ClientInv'
<1>1. /\ use' = use /\ begun' = begun /\ call' = call /\ pc' = pc /\ link' = link
      /\ res' = res /\ last' = last /\ waits' = waits /\ current' = current
      /\ loop' = loop /\ length' = length /\ pool' = pool /\ conn' = conn
      /\ excuse' = excuse
  BY DEF vars, jobs, schedule
<1>2. Typed'
  BY <1>1, Zenon DEF ClientInv, Typed
<1>3. Linked' /\ Pooled' /\ Shared' /\ Opening' /\ Called'
  BY <1>1, Zenon DEF ClientInv, Linked, Pooled, Shared, Opening, Called
<1>4. FirstHop' /\ OwnResponse' /\ NoGarbage'
  BY <1>1, Zenon DEF ClientInv, FirstHop, OwnResponse, NoGarbage
<1>5. InStep'
  BY <1>1, Zenon DEF ClientInv, InStep
<1> QED
  BY <1>2, <1>3, <1>4, <1>5, Zenon DEF ClientInv

\* Every step of a call, or of a server, keeps the streams in step.
LEMMA NextInv == ClientInv /\ [Next]_vars => ClientInv'
<1> SUFFICES ASSUME ClientInv, [Next]_vars PROVE ClientInv'
  OBVIOUS
<1>1. CASE Servers
  BY <1>1, ServerAnswersKeeps DEF Servers
<1>2. ASSUME NEW j \in Jobs, Begin(j) \/ Work(j) \/ ReceiveEnds(j) \/ Wait(j)
      PROVE  ClientInv'
  <2>1. CASE Begin(j)
    BY <2>1, BeginKeeps
  <2>2. CASE Connect(j)
    BY <2>2, FromPoolKeeps, OpenKeeps, ResolveKeeps, OpenedClosedKeeps, ConnectNowhereKeeps,
       HandshakeKeeps DEF Connect
  <2>3. CASE Write(j)
    BY <2>3, SendKeeps, SendSomeKeeps DEF Write
  <2>4. CASE Answer(j)
    BY <2>4, HeadInvalidKeeps, AnsweredErrorKeeps, AnsweredKeepKeeps, AnsweredBodyKeeps,
       RedirectKeeps, RedirectFailsKeeps DEF Answer
  <2>5. CASE Read(j)
    BY <2>5, RetainKeeps, ReadDataKeeps, ReadAllKeeps, ReadLineKeeps, ReadCrLfKeeps DEF Read
  <2>6. CASE ReceiveEnds(j)
    BY <2>6, ReceiveEndsKeeps
  <2>7. CASE Wait(j)
    BY <2>7, ResolveWaitsKeeps, HandshakeWaitsKeeps, ReceiveWaitsKeeps DEF Wait
  <2> QED
    BY <1>2, <2>1, <2>2, <2>3, <2>4, <2>5, <2>6, <2>7 DEF Work, EndSeen
<1>3. CASE UNCHANGED vars
  BY <1>3, StutterKeeps
<1> QED
  BY <1>1, <1>2, <1>3 DEF Next

LEMMA Invariant == Spec => []ClientInv
<1>1. Init => ClientInv
  BY InitInv
<1>2. ClientInv /\ [Next]_vars => ClientInv'
  BY NextInv
<1> QED
  BY <1>1, <1>2, PTL DEF Spec

\* The state keeps its types, and a connection of the pool has been opened
\* (client.c:11274-11420, 11846-11893).
THEOREM TypesKept == Spec => []TypeOK
<1>1. ClientInv => TypeOK
  <2> SUFFICES ASSUME ClientInv PROVE TypeOK
    OBVIOUS
  <2>1. Typed /\ Linked /\ Pooled
    BY DEF ClientInv
  <2>2. ASSUME NEW j \in Jobs
        PROVE  /\ pc[j] \in {"idle", "lookup", "open", "handshake", "head", "body",
                             "response", "data", "line", "crlf", "last"}
               /\ res[j].size \in 0 .. Body /\ res[j].read \in Nat
               /\ res[j].got \in Seq(Pieces)
               /\ last[j].raised \in {"no", "kept", "open", "yield", "end", "garbage",
                                      "code", "redirect"}
    BY <2>1, CallTypes DEF Places, Responses, Results, Reasons
  <2>3. \A j \in Jobs : pc[j] \in {"idle", "lookup"} <=> link[j] = 0
    BY <2>1 DEF Linked
  <2>4. ASSUME NEW c \in Links
        PROVE  /\ conn[c].state \in {"resolving", "handshake", "ready", "closed"}
               /\ {conn[c].retained, conn[c].inbox} \subseteq Seq(Pieces)
               /\ conn[c].outbox \in Seq(Requests)
               /\ excuse[c] \subseteq {"stray", "torn", "misled", "shared"}
    <3>1. conn \in [Links -> Conns] /\ excuse \in [Links -> SUBSET Excuses]
      BY <2>1, Zenon DEF Typed
    <3>2. conn[c] \in Conns /\ excuse[c] \in SUBSET Excuses
      BY <3>1
    <3> QED
      BY <3>2, ConnFields DEF Excuses
  <2>5. \A h \in Hosts : pool[h] # 0 => conn[pool[h]].state \in {"ready", "closed"}
    BY <2>1 DEF Pooled
  <2>6. /\ use \in Uses /\ begun \in 0 .. Calls /\ length \in BOOLEAN
        /\ call \in [Jobs -> CallRecords]
        /\ link \in [Jobs -> Links \cup {0}] /\ waits \in [Jobs -> Links \cup {0}]
        /\ pool \in [Hosts -> Links \cup {0}]
        /\ current \in Jobs \cup {Nobody} /\ loop \in {"alive", "ended"}
    BY <2>1, Zenon DEF Typed
  <2> QED
    BY <2>2, <2>3, <2>4, <2>5, <2>6, Zenon DEF TypeOK
<1> QED
  BY <1>1, Invariant, PTL

\* A call that returns a body returns its own, and all of it, unless the
\* connection has been excused (client.c:11720-11796, 11863-11886).
THEOREM OwnResponses == Spec => []OwnResponse
<1>1. ClientInv => OwnResponse
  BY DEF ClientInv
<1> QED
  BY <1>1, Invariant, PTL

\* What a call meets where its head should be is a head (client.c:11777-11788,
\* 11813-11828).
THEOREM HeadsFirst == Spec => []NoGarbage
<1>1. ClientInv => NoGarbage
  BY DEF ClientInv
<1> QED
  BY <1>1, Invariant, PTL

-----------------------------------------------------------------------------
(* What is written, and the flag of a socket.                               *)

\* Where a call may still have to write a body.
Early == {"lookup", "open", "handshake", "head", "body"}

\* The body of the call with the number i is on its way to a server.
Written(i) == \E c \in Links : \E p \in DOMAIN conn[c].outbox :
                conn[c].outbox[p].part = "body" /\ conn[c].outbox[p].id = i

\* Every request is that of a call there has been.
Numbered == \A c \in Links : \A p \in DOMAIN conn[c].outbox : conn[c].outbox[p].id <= begun

\* Calls that go on have numbers of their own.
Distinct == \A j \in Jobs :
              /\ call[j].id <= begun
              /\ \A k \in Jobs \ {j} : call[j].id = call[k].id => call[j].id = 0

Unsent == \A j \in Jobs : call[j].body /\ pc[j] \in Early => ~Written(call[j].id)

\* Nobody runs between the head and the body of a request.
HeadLast ==
  \A j \in Jobs : pc[j] = "body" =>
    /\ current = j
    /\ LET l == conn[link[j]]
       IN l.state = "ready" /\ ~l.gone /\ l.outbox # <<>>
          => l.outbox[Len(l.outbox)].id = call[j].id

\* A receive without blocking finds a flag to change, or a descriptor that is
\* as it should be.
Flagged(l) == l.state = "ready" => l.blocking \/ l.nonblock
Flags == \A j \in Jobs : pc[j] \in Reading => Flagged(conn[link[j]])

SentInv == Numbered /\ Distinct /\ Unsent /\ HeadLast /\ BodyOnce /\ Flags

\* A step that only takes pieces off the fronts of what has been written.
Cut(n) == \A c \in Links : \A p \in DOMAIN conn'[c].outbox :
            /\ p \in Nat /\ p + n[c] \in DOMAIN conn[c].outbox
            /\ conn'[c].outbox[p] = conn[c].outbox[p + n[c]]

LEMMA CutKeeps ==
  ASSUME Numbered, BodyOnce, NEW n \in [Links -> Nat], Cut(n), begun' = begun,
         \A c \in Links : \A p \in DOMAIN conn'[c].outbox :
           p >= 1 /\ (p > 1 => p - 1 \in DOMAIN conn'[c].outbox)
  PROVE  Numbered' /\ BodyOnce' /\ \A i : Written(i)' => Written(i)
<1>1. Numbered'
  BY DEF Numbered, Cut
<1>2. \A i : Written(i)' => Written(i)
  <2> SUFFICES ASSUME NEW i, NEW c \in Links, NEW p \in DOMAIN conn'[c].outbox,
                      conn'[c].outbox[p].part = "body", conn'[c].outbox[p].id = i
               PROVE  Written(i)
    BY DEF Written
  <2>1. /\ p + n[c] \in DOMAIN conn[c].outbox
        /\ conn'[c].outbox[p] = conn[c].outbox[p + n[c]]
    BY DEF Cut
  <2> QED
    BY <2>1 DEF Written
<1>3. ASSUME NEW c \in Links, NEW d \in Links, NEW p \in DOMAIN conn'[c].outbox,
             NEW q \in DOMAIN conn'[d].outbox, conn'[c].outbox[p].part = "body"
      PROVE  /\ conn'[c].outbox[p].hop = 0
             /\ conn'[d].outbox[q].part = "body"
                /\ conn'[d].outbox[q].id = conn'[c].outbox[p].id => c = d /\ p = q
             /\ p > 1 => conn'[c].outbox[p - 1].id = conn'[c].outbox[p].id
  <2> DEFINE x == conn[c].outbox[p + n[c]]
             y == conn[d].outbox[q + n[d]]
  <2>1. /\ p \in Nat /\ q \in Nat /\ n[c] \in Nat /\ n[d] \in Nat
        /\ p + n[c] \in DOMAIN conn[c].outbox /\ conn'[c].outbox[p] = x
        /\ q + n[d] \in DOMAIN conn[d].outbox /\ conn'[d].outbox[q] = y
    BY DEF Cut
  <2>2. /\ x.hop = 0
        /\ y.part = "body" /\ y.id = x.id => c = d /\ p + n[c] = q + n[d]
        /\ p + n[c] > 1 => conn[c].outbox[p + n[c] - 1].id = x.id
    BY <1>3, <2>1 DEF BodyOnce
  <2> HIDE DEF x, y
  <2>3. y.part = "body" /\ y.id = x.id => c = d /\ p = q
    BY <2>1, <2>2
  <2>4. ASSUME p > 1 PROVE conn'[c].outbox[p - 1].id = x.id
    <3>1. p - 1 \in DOMAIN conn'[c].outbox
      BY <2>4
    <3>2. conn'[c].outbox[p - 1] = conn[c].outbox[(p - 1) + n[c]]
      BY <3>1 DEF Cut
    <3>3. (p - 1) + n[c] = p + n[c] - 1 /\ p + n[c] > 1
      BY <2>1, <2>4
    <3> QED
      BY <2>2, <3>2, <3>3
  <2> QED
    BY <2>1, <2>2, <2>3, <2>4
<1>4. BodyOnce'
  BY <1>3 DEF BodyOnce
<1> QED
  BY <1>1, <1>2, <1>4

\* A step that leaves what has been written, or throws all of a connection away.
LEMMA KeptCut ==
  ASSUME Typed, Numbered, BodyOnce, begun' = begun,
         \A c \in Links : conn'[c].outbox \in {conn[c].outbox, <<>>}
  PROVE  Numbered' /\ BodyOnce' /\ \A i : Written(i)' => Written(i)
<1> DEFINE n == [c \in Links |-> 0]
<1>1. n \in [Links -> Nat] /\ \A c \in Links : n[c] = 0
  OBVIOUS
<1> HIDE DEF n
<1>2. ASSUME NEW c \in Links, NEW p \in DOMAIN conn'[c].outbox
      PROVE  /\ p \in Nat /\ p + n[c] \in DOMAIN conn[c].outbox
             /\ conn'[c].outbox[p] = conn[c].outbox[p + n[c]]
             /\ p >= 1 /\ (p > 1 => p - 1 \in DOMAIN conn'[c].outbox)
  <2>1. conn[c].outbox \in Seq(Requests)
    <3>1. conn \in [Links -> Conns]
      BY Zenon DEF Typed
    <3>2. conn[c] \in Conns
      BY <3>1
    <3> QED
      BY <3>2, ConnFields
  <2>2. conn'[c].outbox = conn[c].outbox
    BY <1>2
  <2>3. p \in 1 .. Len(conn[c].outbox) /\ Len(conn[c].outbox) \in Nat
        /\ DOMAIN conn'[c].outbox = 1 .. Len(conn[c].outbox)
    BY <2>1, <2>2
  <2>4. p + n[c] = p /\ p \in Nat /\ p >= 1 /\ (p > 1 => p - 1 \in 1 .. Len(conn[c].outbox))
    BY <1>1, <2>3
  <2> QED
    BY <2>2, <2>3, <2>4
<1>3. Cut(n)
  BY <1>2 DEF Cut
<1> QED
  BY <1>1, <1>2, <1>3, CutKeeps

\* A step of a job that writes nothing.
Opens(j) == pc[j] \in {"open", "handshake"}
Advances(j) ==
  /\ Runs(j) /\ pc[j] # "body" /\ pc'[j] # "body" /\ begun' = begun
  /\ \A k \in Jobs \ {j} : pc'[k] = pc[k] /\ call'[k] = call[k] /\ link'[k] = link[k]
  /\ call'[j].id \in {0, call[j].id}
  /\ call'[j].body => call[j].body /\ call'[j].id = call[j].id
                      /\ (pc'[j] \in Early => pc[j] \in Early)
  /\ pc'[j] \in Reading => pc[j] \in Reading /\ link'[j] = link[j]
  /\ \A c \in Links : /\ conn'[c].outbox \in {conn[c].outbox, <<>>}
                      /\ \/ Flagged(conn[c]) => Flagged(conn'[c])
                         \/ Opens(j) /\ c = link[j]

LEMMA AdvancesKeeps ==
  ASSUME ClientInv, SentInv, NEW j \in Jobs, Advances(j) PROVE SentInv'
<1>1. Typed /\ Opening /\ Linked
  BY DEF ClientInv
<1>2. Numbered' /\ BodyOnce' /\ \A i : Written(i)' => Written(i)
  BY <1>1, KeptCut DEF SentInv, Advances
<1>3. Distinct'
  <2>1. \A k \in Jobs : call'[k].id \in {0, call[k].id} /\ call[k].id <= begun
    BY DEF SentInv, Distinct, Advances
  <2>2. begun \in Nat /\ begun' = begun
    BY <1>1 DEF Typed, Advances
  <2>3. \A k \in Jobs : call'[k].id <= begun'
    BY <2>1, <2>2
  <2>4. ASSUME NEW k \in Jobs, NEW i \in Jobs \ {k}, call'[k].id = call'[i].id
        PROVE  call'[k].id = 0
    BY <2>1, <2>4 DEF SentInv, Distinct
  <2> QED
    BY <2>3, <2>4 DEF Distinct
<1>4. Unsent'
  <2> SUFFICES ASSUME NEW k \in Jobs, call'[k].body, pc'[k] \in Early, NEW c \in Links,
                      NEW p \in DOMAIN conn'[c].outbox, conn'[c].outbox[p].part = "body",
                      conn'[c].outbox[p].id = call'[k].id
               PROVE  FALSE
    BY Zenon DEF Unsent, Written
  <2>1. call[k].body /\ call'[k].id = call[k].id /\ pc[k] \in Early
    BY DEF Advances
  <2>2. PICK i : i = call[k].id
    OBVIOUS
  <2>3. Written(i)'
    BY <2>1, <2>2 DEF Written
  <2>4. Written(i)
    BY <1>2, <2>3
  <2> QED
    BY <2>1, <2>2, <2>4 DEF SentInv, Unsent
<1>5. HeadLast'
  <2>1. \A k \in Jobs : pc'[k] # "body"
    BY JobAssumption DEF SentInv, HeadLast, Advances, Runs
  <2> QED
    BY <2>1, Zenon DEF HeadLast
<1>6. Flags'
  <2> SUFFICES ASSUME NEW k \in Jobs, pc'[k] \in Reading
               PROVE  Flagged(conn'[link'[k]])
    BY DEF Flags, Flagged
  <2>1. pc[k] \in Reading /\ link'[k] = link[k]
    BY DEF Advances
  <2>2. Flagged(conn[link[k]])
    BY <2>1 DEF SentInv, Flags
  <2>3. link[k] \in Links
    BY <1>1, <2>1, CallTypes, Zenon DEF Linked, Reading
  <2>4. ~(Opens(j) /\ link[k] = link[j])
    BY <1>1, <2>1, Zenon DEF Opening, Opens, Reading
  <2> QED
    BY <2>1, <2>2, <2>3, <2>4 DEF Advances
<1> QED
  BY <1>2, <1>3, <1>4, <1>5, <1>6 DEF SentInv

\* The same, on the connection it has.
Lets(l, m) == m.outbox \in {l.outbox, <<>>} /\ (Flagged(l) => Flagged(m))

\* The same of all connections.
Steady(links) == \A c \in Links : Lets(conn[c], links[c])

LEMMA SteadyOne ==
  ASSUME Typed, NEW j, NEW m, Lets(conn[link[j]], m)
  PROVE  Steady([conn EXCEPT ![link[j]] = m])
<1>1. conn \in [Links -> Conns]
  BY Zenon DEF Typed
<1>2. ASSUME NEW c \in Links PROVE Lets(conn[c], [conn EXCEPT ![link[j]] = m][c])
  <2>1. CASE c = link[j]
    BY <1>1, <2>1
  <2>2. CASE c # link[j]
    <3>1. [conn EXCEPT ![link[j]] = m][c] = conn[c]
      BY <1>1, <2>2
    <3> QED
      BY <3>1 DEF Lets
  <2> QED
    BY <2>1, <2>2
<1> QED
  BY <1>2 DEF Steady

LEMMA SteadySame == Steady(conn)
BY DEF Steady, Lets

\* The socket in another mode, and one that is closed or has gone.
LEMMA SetLets == ASSUME NEW l \in Conns, NEW b \in BOOLEAN PROVE Lets(l, Set(l, b))
<1>1. l.blocking \in BOOLEAN /\ l.nonblock \in BOOLEAN
  BY ConnFields
<1>2. /\ Set(l, b).outbox = l.outbox /\ Set(l, b).state = l.state /\ Set(l, b).blocking = b
      /\ Set(l, b).nonblock = IF b = l.blocking THEN l.nonblock ELSE ~b
  BY DEF Set, Conns
<1>3. CASE b = TRUE
  BY <1>2, <1>3, Zenon DEF Lets, Flagged
<1>4. CASE b = FALSE
  <2>1. CASE l.blocking = TRUE
    BY <1>2, <1>4, <2>1 DEF Lets, Flagged
  <2>2. CASE l.blocking = FALSE
    BY <1>2, <1>4, <2>2 DEF Lets, Flagged
  <2> QED
    BY <1>1, <2>1, <2>2
<1> QED
  BY <1>3, <1>4

LEMMA ForRecvLets == ASSUME NEW j, conn[link[j]] \in Conns PROVE Lets(conn[link[j]], ForRecv(j))
<1> DEFINE b == j \in use.main
<1>1. b \in BOOLEAN
  OBVIOUS
<1>2. ForRecv(j) = Set(conn[link[j]], b)
  BY DEF ForRecv
<1> HIDE DEF b
<1> QED
  BY <1>1, <1>2, SetLets

LEMMA NewLets ==
  ASSUME NEW l PROVE Lets(l, NewConn) /\ Lets(l, [NewConn EXCEPT !.state = "closed"])
BY DEF Lets, Flagged, NewConn

\* Another stream, on the same socket.
LEMMA SameLets ==
  ASSUME NEW l, NEW m, NEW n, Lets(l, m), n.outbox = m.outbox, n.state = m.state,
         n.blocking = m.blocking, n.nonblock = m.nonblock
  PROVE  Lets(l, n)
BY DEF Lets, Flagged

LEMMA ReceivedLets ==
  ASSUME NEW j, conn[link[j]] \in Conns, NEW n, NEW t \in Received(j, n)
  PROVE  Lets(conn[link[j]], t[2])
<1> DEFINE m == ForRecv(j)
<1>1. m \in Conns /\ Lets(conn[link[j]], m)
  BY ForRecvKeeps, ForRecvLets
<1>2. PICK k : t = <<SubSeq(m.inbox, 1, k), [m EXCEPT !.inbox = After(@, k)]>>
  BY DEF Received
<1> HIDE DEF m
<1> DEFINE u == [m EXCEPT !.inbox = After(@, k)]
<1>3. /\ t[2] = u /\ u.outbox = m.outbox /\ u.state = m.state
      /\ u.blocking = m.blocking /\ u.nonblock = m.nonblock
  BY <1>1, <1>2 DEF Conns
<1> QED
  BY <1>1, <1>3, SameLets

LEMMA TakenLets ==
  ASSUME NEW j, conn[link[j]] \in Conns, NEW n, NEW t \in Taken(j, n)
  PROVE  Lets(conn[link[j]], t[2])
<1> DEFINE l == conn[link[j]]
<1>1. CASE l.retained = <<>>
  BY <1>1, ReceivedLets DEF Taken
<1>2. CASE l.retained # <<>>
  <2> DEFINE u == [l EXCEPT !.retained = After(@, Least(n, Len(@)))]
  <2>1. t[2] = u
    BY <1>2 DEF Taken
  <2>2. u.outbox = l.outbox /\ u.state = l.state /\ u.blocking = l.blocking
        /\ u.nonblock = l.nonblock
    BY DEF Conns
  <2>3. Lets(l, l)
    BY DEF Lets
  <2> HIDE DEF u, l
  <2>4. Lets(l, u)
    BY <2>2, <2>3, SameLets
  <2> QED
    BY <2>1, <2>4 DEF l
<1> QED
  BY <1>1, <1>2

\* A call goes on, waits or ends.
LEMMA MovesAdvances ==
  ASSUME Typed, NEW j \in Jobs, Runs(j), pc[j] # "body", NEW p, p # "body",
         pc' = [pc EXCEPT ![j] = p], UNCHANGED <<begun, call, link>>,
         p \in Reading => pc[j] \in Reading, p \in Early => pc[j] \in Early, Steady(conn')
  PROVE  Advances(j)
<1>1. pc \in [Jobs -> Places] /\ pc'[j] = p /\ \A k \in Jobs \ {j} : pc'[k] = pc[k]
  <2>1. pc \in [Jobs -> Places]
    BY Zenon DEF Typed
  <2> QED
    BY <2>1
<1> QED
  BY <1>1 DEF Advances, Steady, Lets

LEMMA WaitsAdvances ==
  ASSUME Typed, NEW j \in Jobs, Runs(j), pc[j] # "body",
         UNCHANGED <<begun, jobs>>, Steady(conn')
  PROVE  Advances(j)
BY DEF Advances, Steady, Lets, jobs

LEMMA EndsAdvances ==
  ASSUME Typed, NEW j \in Jobs, Runs(j), pc[j] # "body", NEW why, NEW links,
         Ends(j, why, links), Steady(links)
  PROVE  Advances(j)
<1>1. /\ pc'[j] = "idle" /\ call'[j] = NoCall /\ begun' = begun /\ conn' = links
      /\ \A k \in Jobs \ {j} : pc'[k] = pc[k] /\ call'[k] = call[k] /\ link'[k] = link[k]
  <2>1. /\ pc \in [Jobs -> Places] /\ call \in [Jobs -> CallRecords]
        /\ link \in [Jobs -> Links \cup {0}]
    BY Zenon DEF Typed
  <2> QED
    BY <2>1 DEF Ends
<1>2. NoCall.id = 0 /\ NoCall.body = FALSE /\ "idle" \notin Reading
  BY DEF NoCall, Reading
<1> QED
  BY <1>1, <1>2 DEF Advances, Steady, Lets

LEMMA RaisesAdvances ==
  ASSUME Typed, NEW j \in Jobs, Runs(j), pc[j] # "body", NEW why, NEW links,
         Raises(j, why, links), Steady(links)
  PROVE  Advances(j)
BY EndsAdvances DEF Raises

LEMMA OpenedAdvances ==
  ASSUME Typed, NEW j \in Jobs, Runs(j), Opens(j), NEW l, Opened(j, l),
         l.outbox = conn[link[j]].outbox
  PROVE  Advances(j)
<1>1. pc \in [Jobs -> Places] /\ conn \in [Links -> Conns]
  BY Zenon DEF Typed
<1>2. pc'[j] = "head" /\ \A k \in Jobs \ {j} : pc'[k] = pc[k]
  BY <1>1 DEF Opened
<1>3. \A c \in Links : conn'[c].outbox = conn[c].outbox /\ (c # link[j] => conn'[c] = conn[c])
  BY <1>1 DEF Opened
<1>4. begun' = begun /\ call' = call /\ link' = link
  BY DEF Opened
<1>5. "head" \notin Reading /\ pc[j] \in Early /\ pc[j] # "body"
  BY DEF Reading, Early, Opens
<1> QED
  BY <1>2, <1>3, <1>4, <1>5 DEF Advances

LEMMA ConnectedAdvances ==
  ASSUME Typed, NEW j \in Jobs, Runs(j), Opens(j), NEW l \in Conns, Connected(j, l),
         l.outbox = conn[link[j]].outbox
  PROVE  Advances(j)
<1>1. CASE call[j].host \in Https
  <2> DEFINE m == [l EXCEPT !.state = "handshake", !.nonblock = TRUE]
  <2>1. /\ conn' = [conn EXCEPT ![link[j]] = m] /\ pc' = [pc EXCEPT ![j] = "handshake"]
        /\ UNCHANGED <<begun, call, link>>
    BY <1>1 DEF Connected
  <2>2. Lets(conn[link[j]], m)
    BY DEF Lets, Flagged, Conns
  <2>3. Steady(conn')
    BY <2>1, <2>2, SteadyOne
  <2>4. "handshake" \notin Reading /\ pc[j] \in Early /\ pc[j] # "body"
    BY DEF Reading, Early, Opens
  <2> QED
    BY <2>1, <2>3, <2>4, MovesAdvances
<1>2. CASE call[j].host \notin Https
  <2> DEFINE m == [l EXCEPT !.state = "ready"]
  <2>1. Opened(j, m)
    BY <1>2 DEF Connected
  <2>2. m.outbox = l.outbox
    BY DEF Conns
  <2> QED
    BY <2>1, <2>2, OpenedAdvances
<1> QED
  BY <1>1, <1>2

\* Where a call has a connection, it has a record.
LEMMA HasConn ==
  ASSUME ClientInv, NEW j \in Jobs, pc[j] \notin {"idle", "lookup"}
  PROVE  link[j] \in Links /\ conn[link[j]] \in Conns /\ Typed
BY SyncNow, Zenon DEF ClientInv, Linked

LEMMA ConnectAdvances == ASSUME ClientInv, NEW j \in Jobs, Connect(j) PROVE Advances(j)
<1>0. Typed
  BY DEF ClientInv
<1>1. CASE FromPool(j)
  <2>1. /\ pc[j] = "lookup" /\ pc'[j] = "head"
        /\ \A k \in Jobs \ {j} : pc'[k] = pc[k] /\ link'[k] = link[k]
    <3>1. pc \in [Jobs -> Places] /\ link \in [Jobs -> Links \cup {0}]
      BY <1>0, Zenon DEF Typed
    <3> QED
      BY <1>1, <3>1 DEF FromPool
  <2>2. Runs(j) /\ begun' = begun /\ call' = call /\ conn' = conn
    BY <1>1 DEF FromPool
  <2> QED
    BY <2>1, <2>2 DEF Advances, Reading, Early
<1>2. CASE Open(j)
  <2>1. /\ pc[j] = "lookup" /\ pc'[j] = "open"
        /\ \A k \in Jobs \ {j} : pc'[k] = pc[k] /\ link'[k] = link[k]
    <3>1. pc \in [Jobs -> Places] /\ link \in [Jobs -> Links \cup {0}]
      BY <1>0, Zenon DEF Typed
    <3> QED
      BY <1>2, <3>1 DEF Open
  <2>2. Runs(j) /\ begun' = begun /\ call' = call
    BY <1>2 DEF Open
  <2>3. PICK c : conn' = [conn EXCEPT ![c] = Set(NewConn, j \in use.main)]
    BY <1>2 DEF Open
  <2> DEFINE m == Set(NewConn, j \in use.main)
  <2>4. m.outbox = <<>> /\ m.state = "resolving"
    BY DEF Set, NewConn
  <2> HIDE DEF m
  <2>5. ASSUME NEW d \in Links
        PROVE  /\ conn'[d].outbox \in {conn[d].outbox, <<>>}
               /\ Flagged(conn[d]) => Flagged(conn'[d])
    <3>1. conn'[d] \in {conn[d], m}
      <4>1. conn \in [Links -> Conns]
        BY <1>0, Zenon DEF Typed
      <4> QED
        BY <2>3, <4>1 DEF m
    <3> QED
      BY <2>4, <3>1 DEF Flagged
  <2> QED
    BY <2>1, <2>2, <2>5 DEF Advances, Reading, Early
<1>3. CASE Resolve(j)
  <2>1. /\ pc[j] = "open" /\ Runs(j)
        /\ Connected(j, conn[link[j]]) \/ Raises(j, "open", Dropped(j))
    BY <1>3 DEF Resolve
  <2>2. conn[link[j]] \in Conns
    BY <2>1, HasConn
  <2>3. Steady(Dropped(j))
    BY <1>0, NewLets, SteadyOne DEF Dropped
  <2> QED
    BY <1>0, <2>1, <2>2, <2>3, ConnectedAdvances, RaisesAdvances DEF Opens
<1>4. CASE OpenedClosed(j)
  BY <1>0, <1>4, OpenedAdvances DEF OpenedClosed, Opens
<1>5. CASE ConnectNowhere(j)
  <2> DEFINE m == [conn[link[j]] EXCEPT !.gone = TRUE]
  <2>1. pc[j] = "open" /\ Runs(j) /\ Connected(j, m)
    BY <1>5 DEF ConnectNowhere
  <2>2. conn[link[j]] \in Conns
    BY <2>1, HasConn
  <2>3. m \in Conns /\ m.outbox = conn[link[j]].outbox
    BY <2>2 DEF Conns
  <2> HIDE DEF m
  <2> QED
    BY <1>0, <2>1, <2>3, ConnectedAdvances DEF Opens
<1>6. CASE Handshake(j)
  <2> DEFINE m == [conn[link[j]] EXCEPT !.state = "ready"]
             why == IF j \in use.main THEN "yield" ELSE "open"
  <2>1. /\ pc[j] = "handshake" /\ Runs(j)
        /\ Opened(j, m) \/ Raises(j, why, Dropped(j))
    BY <1>6 DEF Handshake
  <2>2. conn[link[j]] \in Conns
    BY <2>1, HasConn
  <2>3. m.outbox = conn[link[j]].outbox
    BY <2>2 DEF Conns
  <2>4. Steady(Dropped(j))
    BY <1>0, NewLets, SteadyOne DEF Dropped
  <2> HIDE DEF m, why
  <2>5. Opens(j) /\ pc[j] # "body"
    BY <2>1 DEF Opens
  <2> QED
    BY <1>0, <2>1, <2>3, <2>4, <2>5, OpenedAdvances, RaisesAdvances
<1> QED
  BY <1>1, <1>2, <1>3, <1>4, <1>5, <1>6 DEF Connect

LEMMA WaitAdvances == ASSUME ClientInv, NEW j \in Jobs, Wait(j) PROVE Advances(j)
<1>0. Typed
  BY DEF ClientInv
<1>1. CASE ResolveWaits(j)
  <2>1. /\ pc[j] = "open" /\ Runs(j) /\ conn' \in {conn, Closed(j)}
        /\ UNCHANGED <<begun, jobs>>
    BY <1>1 DEF ResolveWaits
  <2>2. Steady(Closed(j)) /\ Steady(conn)
    BY <1>0, NewLets, SteadyOne, SteadySame DEF Closed
  <2> QED
    BY <1>0, <2>1, <2>2, WaitsAdvances
<1>2. CASE HandshakeWaits(j)
  BY <1>0, <1>2, SteadySame, WaitsAdvances DEF HandshakeWaits
<1>3. CASE ReceiveWaits(j)
  <2>1. /\ Runs(j) /\ pc[j] \in {"response", "line", "data", "crlf", "last"}
        /\ conn' = [conn EXCEPT ![link[j]] = ForRecv(j)] /\ UNCHANGED <<begun, jobs>>
    BY <1>3 DEF ReceiveWaits, Receiving
  <2>2. conn[link[j]] \in Conns
    BY <2>1, HasConn
  <2>3. Steady(conn')
    BY <1>0, <2>1, <2>2, ForRecvLets, SteadyOne
  <2> QED
    BY <1>0, <2>1, <2>3, WaitsAdvances
<1> QED
  BY <1>1, <1>2, <1>3 DEF Wait

LEMMA HeadReadSteady ==
  ASSUME Typed, NEW j, conn[link[j]] \in Conns PROVE Steady(HeadRead(j))
<1> DEFINE l == conn[link[j]]
           m == [l EXCEPT !.retained = Tail(@)]
<1>1. HeadRead(j) = [conn EXCEPT ![link[j]] = m]
  BY DEF HeadRead
<1>2. /\ m.outbox = l.outbox /\ m.state = l.state /\ m.blocking = l.blocking
      /\ m.nonblock = l.nonblock
  BY DEF Conns
<1>3. Lets(l, l)
  BY DEF Lets
<1> HIDE DEF m, l
<1>4. Lets(l, m)
  BY <1>2, <1>3, SameLets
<1>5. Steady([conn EXCEPT ![link[j]] = m])
  BY <1>4, SteadyOne DEF l
<1> QED
  BY <1>1, <1>5, Zenon

LEMMA AnswerAdvances == ASSUME ClientInv, NEW j \in Jobs, Answer(j) PROVE Advances(j)
<1>0. /\ Typed /\ Runs(j) /\ pc[j] = "response"
  BY DEF Answer, HeadInvalid, AnsweredError, AnsweredKeep, AnsweredBody, Redirect,
         RedirectFails, Answered, ClientInv
<1>1. Steady(HeadRead(j)) /\ Steady(conn)
  BY <1>0, HasConn, HeadReadSteady, SteadySame
<1>2. CASE HeadInvalid(j)
  BY <1>0, <1>1, <1>2, RaisesAdvances DEF HeadInvalid
<1>3. CASE AnsweredError(j)
  BY <1>0, <1>1, <1>3, RaisesAdvances DEF AnsweredError
<1>4. CASE AnsweredKeep(j)
  BY <1>0, <1>1, <1>4, EndsAdvances DEF AnsweredKeep
<1>5. CASE AnsweredBody(j)
  <2> DEFINE p == IF FirstPiece(j).framing = "chunked" THEN "line" ELSE "data"
  <2>1. /\ pc' = [pc EXCEPT ![j] = p] /\ conn' = HeadRead(j)
        /\ UNCHANGED <<begun, call, link>>
    BY <1>5, Zenon DEF AnsweredBody
  <2>2. p # "body" /\ p \notin Early /\ pc[j] \in Reading
    BY <1>0 DEF Early, Reading
  <2> HIDE DEF p
  <2> QED
    BY <1>0, <1>1, <2>1, <2>2, MovesAdvances
<1>6. CASE Redirect(j)
  <2>1. PICK h : call' = [call EXCEPT ![j] = Redirected(call[j], h)]
    BY <1>6 DEF Redirect
  <2>2. /\ call'[j].id = call[j].id /\ call'[j].body = FALSE
        /\ \A k \in Jobs \ {j} : call'[k] = call[k]
    <3>1. call \in [Jobs -> CallRecords]
      BY <1>0, Zenon DEF Typed
    <3> QED
      BY <2>1, <3>1 DEF Redirected, CallRecords
  <2>3. /\ pc'[j] = "lookup"
        /\ \A k \in Jobs \ {j} : pc'[k] = pc[k] /\ link'[k] = link[k]
    <3>1. pc \in [Jobs -> Places] /\ link \in [Jobs -> Links \cup {0}]
      BY <1>0, Zenon DEF Typed
    <3> QED
      BY <1>6, <3>1 DEF Redirect
  <2>4. begun' = begun /\ conn' = HeadRead(j) /\ "lookup" \notin Reading
    BY <1>6, Zenon DEF Redirect, Reading
  <2> QED
    BY <1>0, <1>1, <2>2, <2>3, <2>4 DEF Advances, Steady, Lets
<1>7. CASE RedirectFails(j)
  BY <1>0, <1>1, <1>7, RaisesAdvances DEF RedirectFails
<1> QED
  BY <1>2, <1>3, <1>4, <1>5, <1>6, <1>7 DEF Answer

LEMMA ReadAdvances == ASSUME ClientInv, NEW j \in Jobs, Read(j) PROVE Advances(j)
<1> DEFINE l == conn[link[j]]
<1>0. Typed /\ Runs(j) /\ pc[j] \in Reading /\ pc[j] \notin Early /\ pc[j] # "body"
  <2>1. Typed
    BY DEF ClientInv
  <2>2. Runs(j) /\ pc[j] \in Reading
    BY DEF Read, Retain, Receiving, ReadData, ReadAll, ReadLine, ReadCrLf, Reading
  <2> QED
    BY <2>1, <2>2 DEF Reading, Early
<1>1. l \in Conns
  BY <1>0, HasConn DEF Reading
<1>2. ASSUME NEW p \in Reading, pc' = [pc EXCEPT ![j] = p],
             UNCHANGED <<begun, call, link>>, Steady(conn')
      PROVE  Advances(j)
  <2>1. p # "body" /\ p \notin Early
    BY DEF Reading, Early
  <2> QED
    BY <1>0, <1>2, <2>1, MovesAdvances
<1>3. CASE Retain(j)
  <2>1. PICK t \in Received(j, Len(l.inbox)) :
          conn' = [conn EXCEPT ![link[j]] = [t[2] EXCEPT !.retained = @ \o t[1]]]
    BY <1>3 DEF Retain
  <2>2. Lets(l, t[2])
    BY <1>1, ReceivedLets
  <2> DEFINE m == [t[2] EXCEPT !.retained = @ \o t[1]]
  <2>3. /\ m.outbox = t[2].outbox /\ m.state = t[2].state
        /\ m.blocking = t[2].blocking /\ m.nonblock = t[2].nonblock
    OBVIOUS
  <2> HIDE DEF m, l
  <2>4. Lets(l, m)
    BY <2>2, <2>3, SameLets
  <2>5. conn' = [conn EXCEPT ![link[j]] = m]
    BY <2>1 DEF m
  <2>6. Steady(conn')
    BY <1>0, <2>4, <2>5, SteadyOne DEF l
  <2>7. UNCHANGED <<begun, jobs>>
    BY <1>3 DEF Retain
  <2> QED
    BY <1>0, <2>6, <2>7, WaitsAdvances
<1>4. CASE ReadData(j)
  <2>1. PICK t \in Taken(j, Remaining(res[j])) :
          /\ \E p \in Reading : pc' = [pc EXCEPT ![j] = p]
          /\ conn' = [conn EXCEPT ![link[j]] = t[2]]
    BY <1>4 DEF ReadData, Reading
  <2>2. Lets(l, t[2])
    BY <1>1, TakenLets
  <2>3. Steady(conn')
    BY <1>0, <2>1, <2>2, SteadyOne
  <2>4. UNCHANGED <<begun, call, link>>
    BY <1>4 DEF ReadData
  <2> QED
    BY <1>2, <2>1, <2>3, <2>4
<1>5. CASE ReadAll(j)
  BY <1>0, <1>5, SteadySame, EndsAdvances DEF ReadAll
<1>6. CASE ReadLine(j)
  <2> DEFINE m == [l EXCEPT !.retained = After(@, LineOf(@))]
  <2>1. conn' = [conn EXCEPT ![link[j]] = m]
    BY <1>6 DEF ReadLine
  <2>2. /\ m.outbox = l.outbox /\ m.state = l.state
        /\ m.blocking = l.blocking /\ m.nonblock = l.nonblock
    BY <1>1 DEF Conns
  <2>3. Lets(l, l)
    BY DEF Lets
  <2> HIDE DEF m, l
  <2>4. Lets(l, m)
    BY <2>2, <2>3, SameLets
  <2>5. Steady(conn')
    BY <1>0, <2>1, <2>4, SteadyOne DEF l
  <2>6. UNCHANGED <<begun, call, link>>
    BY <1>6 DEF ReadLine
  <2>7. \E p \in Reading : pc' = [pc EXCEPT ![j] = p]
    BY <1>6 DEF ReadLine, Reading
  <2> QED
    BY <1>2, <2>5, <2>6, <2>7
<1>7. CASE ReadCrLf(j)
  <2>1. PICK t \in Taken(j, 1) :
       LET links == [conn EXCEPT ![link[j]] = t[2]]
       IN \/ /\ pc' = [pc EXCEPT ![j] = "line"] /\ conn' = links
             /\ UNCHANGED <<begun, call, link>>
          \/ Ends(j, "no", links)
    BY <1>7 DEF ReadCrLf
  <2>2. Lets(l, t[2])
    BY <1>1, TakenLets
  <2>3. Steady([conn EXCEPT ![link[j]] = t[2]])
    BY <1>0, <2>2, SteadyOne
  <2>4. "line" \in Reading
    BY DEF Reading
  <2> QED
    BY <1>0, <1>2, <2>1, <2>3, <2>4, EndsAdvances
<1> QED
  BY <1>3, <1>4, <1>5, <1>6, <1>7 DEF Read

LEMMA ReceiveEndsAdvances ==
  ASSUME ClientInv, NEW j \in Jobs, ReceiveEnds(j) PROVE Advances(j)
<1>1. Typed /\ Runs(j) /\ pc[j] \in Reading /\ pc[j] \notin Early /\ pc[j] # "body"
  BY DEF ClientInv, ReceiveEnds, Receiving, Reading, Early
<1>2. Steady(Closed(j))
  BY <1>1, NewLets, SteadyOne DEF Closed
<1>3. \/ Ends(j, "no", Closed(j))
      \/ /\ pc' = [pc EXCEPT ![j] = "line"] /\ conn' = Closed(j)
         /\ UNCHANGED <<begun, call, link>>
      \/ Raises(j, "end", Closed(j))
  BY Zenon DEF ReceiveEnds
<1>4. "line" \in Reading /\ "line" \notin Early
  BY DEF Reading, Early
<1> QED
  BY <1>1, <1>2, <1>3, <1>4, EndsAdvances, RaisesAdvances, MovesAdvances

\* What a send writes comes last on its connection.
LEMMA Appended ==
  ASSUME NEW s \in Seq(Requests), NEW q \in Requests
  PROVE  /\ DOMAIN Append(s, q) = 1 .. (Len(s) + 1) /\ Len(Append(s, q)) = Len(s) + 1
         /\ DOMAIN s = 1 .. Len(s) /\ Len(s) \in Nat
         /\ Append(s, q)[Len(s) + 1] = q
         /\ \A p \in 1 .. Len(s) : Append(s, q)[p] = s[p]
OBVIOUS

\* A step of a job that writes the head or the body of its request, all of it or
\* less, or nothing.
Writes(j, m) ==
  /\ Runs(j) /\ pc[j] \in {"head", "body"}
  /\ conn' = [conn EXCEPT ![link[j]] = m]
  /\ pc' = [pc EXCEPT ![j] = NextPart(j)] /\ current' = j
  /\ UNCHANGED <<begun, call, link>>
  /\ Flagged(m)
  /\ \/ m.outbox = conn[link[j]].outbox /\ (m.state # "ready" \/ m.gone)
     \/ /\ conn[link[j]].state = "ready" /\ ~conn[link[j]].gone
        /\ \E part \in {pc[j], "torn"} :
             m.outbox = Append(conn[link[j]].outbox, Request(j, part))

LEMMA WritesKeeps ==
  ASSUME ClientInv, SentInv, NEW j \in Jobs, NEW m, Writes(j, m) PROVE SentInv'
<1> DEFINE c == link[j]
           l == conn[c]
           i == call[j].id
<1>1. /\ c \in Links /\ l \in Conns /\ l.outbox \in Seq(Requests) /\ Typed
      /\ conn'[c] = m /\ \A d \in Links \ {c} : conn'[d] = conn[d]
  <2>1. c \in Links /\ l \in Conns /\ Typed
    BY HasConn DEF Writes
  <2>2. conn \in [Links -> Conns]
    BY <2>1, Zenon DEF Typed
  <2> QED
    BY <2>1, <2>2, ConnFields DEF Writes
<1>2. /\ i # 0 /\ begun' = begun /\ call' = call /\ link' = link /\ i <= begun
      /\ pc[j] = "body" => call[j].body
      /\ call[j].body => call[j].hop = 0
  BY Zenon DEF ClientInv, Called, Writes, SentInv, Distinct
<1>3. /\ pc'[j] = NextPart(j) /\ \A k \in Jobs \ {j} : pc'[k] = pc[k] /\ pc[k] # "body"
  <2>1. pc \in [Jobs -> Places]
    BY <1>1, Zenon DEF Typed
  <2>2. \A k \in Jobs \ {j} : pc[k] # "body"
    BY JobAssumption DEF SentInv, HeadLast, Writes, Runs
  <2> QED
    BY <2>1, <2>2 DEF Writes
<1>4. Distinct'
  BY <1>2, Zenon DEF SentInv, Distinct
<1>5. Flags'
  <2> SUFFICES ASSUME NEW k \in Jobs, pc'[k] \in Reading
               PROVE  Flagged(conn'[link'[k]])
    BY DEF Flags, Flagged
  <2>1. CASE link[k] = c
    BY <1>1, <1>2, <2>1 DEF Writes
  <2>2. CASE link[k] # c
    <3>1. pc[k] \in Reading
      BY <1>3, <2>2
    <3>2. link[k] \in Links /\ Flagged(conn[link[k]])
      BY <3>1, HasConn DEF SentInv, Flags, Reading
    <3> QED
      BY <1>1, <1>2, <2>2, <3>2
  <2> QED
    BY <2>1, <2>2
<1>6. CASE m.outbox = l.outbox /\ (m.state # "ready" \/ m.gone)
  <2>1. \A d \in Links : conn'[d].outbox = conn[d].outbox
    BY <1>1, <1>6
  <2>2. Numbered' /\ BodyOnce' /\ \A x : Written(x)' => Written(x)
    BY <1>1, <1>2, <2>1, KeptCut DEF SentInv
  <2>3. Unsent'
    <3> SUFFICES ASSUME NEW k \in Jobs, call[k].body, pc'[k] \in Early, NEW d \in Links,
                        NEW p \in DOMAIN conn'[d].outbox, conn'[d].outbox[p].part = "body",
                        conn'[d].outbox[p].id = call[k].id
                 PROVE  FALSE
      BY <1>2, Zenon DEF Unsent, Written
    <3>1. pc[k] \in Early
      BY <1>3 DEF Writes, Early
    <3>2. Written(call[k].id)
      BY <2>1 DEF Written
    <3> QED
      BY <3>1, <3>2 DEF SentInv, Unsent
  <2>4. HeadLast'
    <3> SUFFICES ASSUME NEW k \in Jobs, pc'[k] = "body"
                 PROVE  /\ current' = k
                        /\ conn'[link'[k]].state # "ready" \/ conn'[link'[k]].gone
      BY DEF HeadLast
    <3>1. k = j
      BY <1>3
    <3> QED
      BY <1>1, <1>2, <1>6, <3>1 DEF Writes
  <2> QED
    BY <1>4, <1>5, <2>2, <2>3, <2>4 DEF SentInv
<1>7. ASSUME l.state = "ready", ~l.gone,
             NEW part \in {pc[j], "torn"}, m.outbox = Append(l.outbox, Request(j, part))
      PROVE  SentInv'
  <2> DEFINE q == Request(j, part)
             N == Len(l.outbox)
  <2>1. /\ q \in Requests /\ q.part = part /\ q.id = i /\ q.hop = call[j].hop
    <3>1. part \in {"head", "body", "torn"}
      BY <1>7 DEF Writes
    <3> QED
      BY <3>1, RequestTyped DEF Request, Writes
  <2>2. /\ DOMAIN m.outbox = 1 .. (N + 1) /\ Len(m.outbox) = N + 1
        /\ DOMAIN l.outbox = 1 .. N /\ N \in Nat
        /\ m.outbox[N + 1] = q /\ \A p \in 1 .. N : m.outbox[p] = l.outbox[p]
    BY <1>1, <1>7, <2>1, Appended
  <2> HIDE DEF q, N
  \* A piece is an old one, or the one that has been written.
  <2>3. ASSUME NEW d \in Links, NEW p \in DOMAIN conn'[d].outbox
        PROVE  \/ /\ p \in DOMAIN conn[d].outbox
                  /\ conn'[d].outbox[p] = conn[d].outbox[p]
               \/ d = c /\ p = N + 1 /\ conn'[d].outbox[p] = q
    <3>1. CASE d = c
      BY <1>1, <2>2, <3>1
    <3>2. CASE d # c
      BY <1>1, <3>2
    <3> QED
      BY <3>1, <3>2
  <2>4. part = "body" => ~Written(i) /\ pc[j] = "body"
    BY <1>2, <1>7 DEF SentInv, Unsent, Writes, Early
  <2>5. Numbered'
    BY <1>2, <2>1, <2>3 DEF SentInv, Numbered
  <2>6. Unsent'
    <3> SUFFICES ASSUME NEW k \in Jobs, call[k].body, pc'[k] \in Early, NEW d \in Links,
                        NEW p \in DOMAIN conn'[d].outbox, conn'[d].outbox[p].part = "body",
                        conn'[d].outbox[p].id = call[k].id
                 PROVE  FALSE
      BY <1>2, Zenon DEF Unsent, Written
    <3>1. pc[k] \in Early
      BY <1>3 DEF Writes, Early
    <3>2. ~Written(call[k].id)
      BY <3>1 DEF SentInv, Unsent
    <3>3. conn'[d].outbox[p] = q
      BY <2>3, <3>2 DEF Written
    <3>4. part = "body" /\ call[k].id = i
      BY <2>1, <3>3
    <3>5. k = j
      BY <1>2, <3>4 DEF SentInv, Distinct
    <3>6. pc'[j] = "response"
      BY <1>3, <2>4, <3>4 DEF NextPart
    <3> QED
      BY <3>5, <3>6 DEF Early
  <2>7. HeadLast'
    <3> SUFFICES ASSUME NEW k \in Jobs, pc'[k] = "body"
                 PROVE  /\ current' = k
                        /\ conn'[link'[k]].outbox[Len(conn'[link'[k]].outbox)].id = call'[k].id
      BY DEF HeadLast
    <3>1. k = j
      BY <1>3
    <3>2. conn'[link'[k]].outbox[Len(conn'[link'[k]].outbox)] = q
      BY <1>1, <1>2, <2>2, <3>1
    <3> QED
      BY <1>2, <2>1, <3>1, <3>2 DEF Writes
  <2>8. BodyOnce'
    <3> SUFFICES ASSUME NEW d \in Links, NEW e \in Links, NEW p \in DOMAIN conn'[d].outbox,
                        NEW r \in DOMAIN conn'[e].outbox, conn'[d].outbox[p].part = "body"
                 PROVE  /\ conn'[d].outbox[p].hop = 0
                        /\ conn'[e].outbox[r].part = "body"
                           /\ conn'[e].outbox[r].id = conn'[d].outbox[p].id => d = e /\ p = r
                        /\ p > 1 => conn'[d].outbox[p - 1].id = conn'[d].outbox[p].id
      BY DEF BodyOnce
    <3> DEFINE x == conn'[d].outbox[p]
               y == conn'[e].outbox[r]
    <3>1. x.hop = 0
      BY <1>2, <2>1, <2>3, <2>4 DEF SentInv, BodyOnce
    <3>2. y.part = "body" /\ y.id = x.id => d = e /\ p = r
      <4>1. CASE p \in DOMAIN conn[d].outbox /\ x = conn[d].outbox[p]
        <5>1. CASE r \in DOMAIN conn[e].outbox /\ y = conn[e].outbox[r]
          BY <4>1, <5>1 DEF SentInv, BodyOnce
        <5>2. CASE y = q
          BY <2>1, <2>4, <4>1, <5>2 DEF Written
        <5> QED
          BY <2>3, <5>1, <5>2
      <4>2. CASE d = c /\ p = N + 1 /\ x = q
        <5>1. CASE r \in DOMAIN conn[e].outbox /\ y = conn[e].outbox[r]
          BY <2>1, <2>4, <4>2, <5>1 DEF Written
        <5>2. CASE e = c /\ r = N + 1
          BY <4>2, <5>2
        <5> QED
          BY <2>3, <5>1, <5>2
      <4> QED
        BY <2>3, <4>1, <4>2
    <3>3. ASSUME p > 1 PROVE conn'[d].outbox[p - 1].id = x.id
      <4>1. CASE p \in DOMAIN conn[d].outbox /\ x = conn[d].outbox[p]
        <5>1. conn[d].outbox[p - 1].id = x.id
          BY <3>3, <4>1 DEF SentInv, BodyOnce
        <5>2. conn'[d].outbox[p - 1] = conn[d].outbox[p - 1]
          <6>1. CASE d = c
            <7>1. p \in 1 .. N
              BY <2>2, <4>1, <6>1
            <7>2. p - 1 \in 1 .. N
              BY <2>2, <3>3, <7>1
            <7> QED
              BY <1>1, <2>2, <6>1, <7>2
          <6>2. CASE d # c
            BY <1>1, <6>2
          <6> QED
            BY <6>1, <6>2
        <5> QED
          BY <5>1, <5>2
      <4>2. CASE d = c /\ p = N + 1 /\ x = q
        <5>1. N \in 1 .. N /\ l.outbox # <<>> /\ p - 1 = N
          BY <1>1, <2>2, <3>3, <4>2
        <5>2. conn'[d].outbox[p - 1] = l.outbox[N]
          BY <1>1, <2>2, <4>2, <5>1
        <5>3. part = "body" /\ pc[j] = "body"
          BY <2>1, <2>4, <4>2
        <5>4. l.state = "ready" /\ ~l.gone => l.outbox[N].id = i
          BY <5>1, <5>3 DEF SentInv, HeadLast, N
        <5> QED
          BY <1>7, <2>1, <4>2, <5>2, <5>4
      <4> QED
        BY <2>3, <4>1, <4>2
    <3> QED
      BY <3>1, <3>2, <3>3
  <2> QED
    BY <1>4, <1>5, <2>5, <2>6, <2>7, <2>8 DEF SentInv
<1> QED
  BY <1>6, <1>7 DEF Writes

LEMMA WriteKeeps == ASSUME ClientInv, SentInv, NEW j \in Jobs, Write(j) PROVE SentInv'
<1> DEFINE l == conn[link[j]]
           f == ForSend(j)
<1>1. Runs(j) /\ pc[j] \in {"head", "body"}
  BY DEF Write, Send, SendSome
<1>2. l \in Conns
  BY <1>1, HasConn
<1>3. f \in Conns /\ f.state = l.state /\ f.outbox = l.outbox /\ f.gone = l.gone
  BY <1>2, ForSendKeeps
<1>4. Flagged(f)
  <2>1. CASE l.state = "ready"
    <3>1. f = Set(l, TRUE)
      BY <2>1 DEF ForSend
    <3>2. f.blocking = TRUE
      BY <1>2, <3>1 DEF Set, Conns
    <3> QED
      BY <3>2 DEF Flagged
  <2>2. CASE l.state # "ready"
    BY <1>3, <2>2 DEF Flagged
  <2> QED
    BY <2>1, <2>2
<1> HIDE DEF f, l
\* What Sent makes of the connection n that has been written to.
<1>5. ASSUME NEW n, NEW what, Sent(j, n, what), n = [f EXCEPT !.outbox = n.outbox],
             \/ n.outbox = l.outbox /\ (f.state # "ready" \/ f.gone)
             \/ /\ l.state = "ready" /\ ~l.gone
                /\ \E part \in {pc[j], "torn"} :
                     n.outbox = Append(l.outbox, Request(j, part))
      PROVE  SentInv'
  <2> DEFINE m == IF NextPart(j) = "body" THEN n ELSE [n EXCEPT !.retained = <<>>]
  <2>1. /\ n.state = f.state /\ n.gone = f.gone /\ n.blocking = f.blocking
        /\ n.nonblock = f.nonblock
    BY <1>3, <1>5 DEF Conns
  <2>2. /\ m.state = n.state /\ m.gone = n.gone /\ m.blocking = n.blocking
        /\ m.nonblock = n.nonblock /\ m.outbox = n.outbox
    <3>1. n \in [DOMAIN f -> UNION {{n[x]} : x \in DOMAIN f}]
      BY <1>5
    <3>2. DOMAIN n = {"state", "blocking", "nonblock", "retained", "inbox", "outbox", "gone"}
      BY <1>3, <1>5 DEF Conns
    <3> QED
      BY <3>2
  <2>3. /\ conn' = [conn EXCEPT ![link[j]] = m] /\ pc' = [pc EXCEPT ![j] = NextPart(j)]
        /\ current' = j /\ UNCHANGED <<begun, call, link>>
    BY <1>5 DEF Sent, Goes
  <2> HIDE DEF m
  <2>4. Flagged(m)
    BY <1>4, <2>1, <2>2, Zenon DEF Flagged
  <2>5. Writes(j, m)
    BY <1>1, <1>5, <2>1, <2>2, <2>3, <2>4, Zenon DEF Writes, l
  <2> QED
    BY <2>5, WritesKeeps
<1>6. CASE Send(j)
  <2>1. CASE f.state = "ready" /\ ~f.gone
    <3> DEFINE n == [f EXCEPT !.outbox = Append(@, Request(j, pc[j]))]
    <3>1. Sent(j, n, Misleads(j))
      BY <1>6, <2>1 DEF Send, f
    <3>2. n.outbox = Append(l.outbox, Request(j, pc[j]))
      BY <1>3 DEF Conns
    <3>3. n = [f EXCEPT !.outbox = n.outbox]
      BY <1>3, <3>2
    <3> HIDE DEF n
    <3> QED
      BY <1>3, <1>5, <2>1, <3>1, <3>2, <3>3
  <2>2. CASE ~(f.state = "ready" /\ ~f.gone)
    <3>1. Sent(j, f, Misleads(j))
      BY <1>6, <2>2, Zenon DEF Send, f
    <3>2. f = [f EXCEPT !.outbox = f.outbox]
      BY <1>3 DEF Conns
    <3> QED
      BY <1>3, <1>5, <2>2, <3>1, <3>2
  <2> QED
    BY <2>1, <2>2
<1>7. CASE SendSome(j)
  <2> DEFINE n == [f EXCEPT !.outbox = Append(@, Request(j, "torn"))]
  <2>1. Sent(j, n, Misleads(j) \cup {"torn"}) /\ l.state = "ready" /\ ~f.gone
    BY <1>7 DEF SendSome, f, l
  <2>2. n.outbox = Append(l.outbox, Request(j, "torn"))
    BY <1>3 DEF Conns
  <2>3. n = [f EXCEPT !.outbox = n.outbox]
    BY <1>3, <2>2
  <2> HIDE DEF n
  <2> QED
    BY <1>3, <1>5, <2>1, <2>2, <2>3
<1> QED
  BY <1>6, <1>7 DEF Write

LEMMA ServersKeep == ASSUME ClientInv, SentInv, Servers PROVE SentInv'
<1>1. PICK c \in Links : ServerAnswers(c)
  BY DEF Servers
<1> DEFINE l == conn[c]
           w == Whole(l.outbox)
<1>2. Typed /\ conn \in [Links -> Conns] /\ l \in Conns /\ l.outbox \in Seq(Requests)
  <2>1. Typed /\ conn \in [Links -> Conns]
    BY Zenon DEF ClientInv, Typed
  <2>2. l \in Conns
    BY <2>1
  <2> QED
    BY <2>1, <2>2, ConnFields
<1>3. w \in 1 .. Len(l.outbox)
  <2>1. w > 0 /\ w \in {0, 1, 2}
    BY <1>1 DEF ServerAnswers, Whole
  <2>2. Len(l.outbox) \in Nat
    BY <1>2
  <2>3. l.outbox # <<>> /\ (w = 2 => Len(l.outbox) >= 2)
    BY <1>1, <2>1 DEF ServerAnswers, Whole
  <2>4. Len(l.outbox) >= 1
    BY <1>2, <2>3
  <2> QED
    BY <2>1, <2>2, <2>3, <2>4
<1>4. /\ conn'[c].outbox = After(l.outbox, w) /\ conn'[c].state = l.state
      /\ l.state = "ready" /\ ~l.gone
      /\ conn'[c].blocking = l.blocking /\ conn'[c].nonblock = l.nonblock
      /\ \A d \in Links \ {c} : conn'[d] = conn[d]
  <2>1. PICK code \in Codes, f \in use.framings :
          conn' = [conn EXCEPT
            ![c].inbox = @ \o Response(conn[c].outbox[1], code, f),
            ![c].outbox = After(@, Whole(@)), ![c].gone = (f = "open")]
    BY <1>1 DEF ServerAnswers
  <2>2. l.state = "ready" /\ ~l.gone
    BY <1>1 DEF ServerAnswers
  <2> DEFINE r == Response(conn[c].outbox[1], code, f)
  <2> HIDE DEF r
  <2>3. conn' = [conn EXCEPT ![c] = [l EXCEPT !.inbox = @ \o r, !.outbox = After(@, Whole(@)),
                                              !.gone = (f = "open")]]
    BY <2>1 DEF r
  <2> QED
    BY <1>2, <2>2, <2>3 DEF Conns
<1>5. UNCHANGED <<begun, call, link, pc, current>>
  BY <1>1 DEF ServerAnswers, jobs, schedule
<1> HIDE DEF w
<1> DEFINE n == [d \in Links |-> IF d = c THEN w ELSE 0]
           L == Len(l.outbox)
<1>6. /\ n \in [Links -> Nat] /\ n[c] = w /\ \A d \in Links \ {c} : n[d] = 0
      /\ L \in Nat /\ w \in 0 .. L
  <2>1. L \in Nat
    BY <1>2
  <2>2. w \in Nat /\ w \in 0 .. L
    BY <1>3, <2>1
  <2> QED
    BY <2>1, <2>2
<1>7. /\ DOMAIN conn'[c].outbox = 1 .. (L - w)
      /\ \A p \in 1 .. (L - w) : conn'[c].outbox[p] = l.outbox[w + p]
      /\ Len(conn'[c].outbox) = L - w /\ DOMAIN l.outbox = 1 .. L
  <2> DEFINE s == l.outbox
  <2>1. s \in Seq(Requests) /\ w \in 0 .. Len(s)
    BY <1>2, <1>6
  <2> HIDE DEF s, l
  <2>2. /\ After(s, w) \in Seq(Requests) /\ Len(After(s, w)) = Len(s) - w
        /\ \A i \in 1 .. (Len(s) - w) : After(s, w)[i] = s[w + i]
    BY <2>1, AfterCut
  <2>3. DOMAIN After(s, w) = 1 .. Len(After(s, w)) /\ DOMAIN s = 1 .. Len(s)
    BY <2>1, <2>2
  <2> QED
    BY <1>4, <2>2, <2>3 DEF s
<1> HIDE DEF n, L
<1>8. ASSUME NEW d \in Links, NEW p \in DOMAIN conn'[d].outbox
      PROVE  /\ p \in Nat /\ p + n[d] \in DOMAIN conn[d].outbox
             /\ conn'[d].outbox[p] = conn[d].outbox[p + n[d]]
             /\ p >= 1 /\ (p > 1 => p - 1 \in DOMAIN conn'[d].outbox)
  <2>1. CASE d = c
    <3>1. p \in 1 .. (L - w) /\ w + p = p + w /\ p + w \in 1 .. L /\ p \in Nat /\ p >= 1
          /\ (p > 1 => p - 1 \in 1 .. (L - w))
      BY <1>6, <1>7, <2>1
    <3> QED
      BY <1>6, <1>7, <2>1, <3>1
  <2>2. CASE d # c
    <3>1. conn'[d] = conn[d] /\ n[d] = 0 /\ conn[d].outbox \in Seq(Requests)
      <4>1. conn[d] \in Conns
        BY <1>2
      <4> QED
        BY <1>4, <1>6, <2>2, <4>1, ConnFields
    <3> DEFINE s == conn[d].outbox
    <3>2. s \in Seq(Requests) /\ p \in DOMAIN s /\ conn'[d].outbox = s
      BY <3>1
    <3> HIDE DEF s
    <3>3. DOMAIN s = 1 .. Len(s) /\ Len(s) \in Nat /\ p \in 1 .. Len(s)
      BY <3>2
    <3>4. p \in Nat /\ p + 0 = p /\ p >= 1 /\ (p > 1 => p - 1 \in 1 .. Len(s))
      BY <3>3
    <3> QED
      BY <3>1, <3>2, <3>3, <3>4 DEF s
  <2> QED
    BY <2>1, <2>2
<1>9. Cut(n)
  BY <1>8 DEF Cut
<1>10. Numbered' /\ BodyOnce' /\ \A i : Written(i)' => Written(i)
  BY <1>5, <1>6, <1>8, <1>9, CutKeeps DEF SentInv
<1>11. Distinct'
  BY <1>5, Zenon DEF SentInv, Distinct
<1>12. Unsent'
  <2> SUFFICES ASSUME NEW k \in Jobs, call[k].body, pc[k] \in Early, NEW d \in Links,
                      NEW p \in DOMAIN conn'[d].outbox, conn'[d].outbox[p].part = "body",
                      conn'[d].outbox[p].id = call[k].id
               PROVE  FALSE
    BY <1>5, Zenon DEF Unsent, Written
  <2>1. Written(call[k].id)
    BY <1>8 DEF Written
  <2> QED
    BY <2>1 DEF SentInv, Unsent
<1>13. HeadLast'
  <2> SUFFICES ASSUME NEW k \in Jobs, pc[k] = "body"
               PROVE  /\ current = k
                      /\ LET m == conn'[link[k]]
                         IN m.state = "ready" /\ ~m.gone /\ m.outbox # <<>>
                            => m.outbox[Len(m.outbox)].id = call[k].id
    BY <1>5 DEF HeadLast
  <2>1. /\ current = k /\ link[k] \in Links
        /\ LET m == conn[link[k]]
           IN m.state = "ready" /\ ~m.gone /\ m.outbox # <<>>
              => m.outbox[Len(m.outbox)].id = call[k].id
    BY HasConn DEF SentInv, HeadLast
  <2>2. CASE link[k] # c
    BY <1>4, <2>1, <2>2
  <2>3. CASE link[k] = c
    <3> SUFFICES ASSUME conn'[c].outbox # <<>>
                 PROVE  conn'[c].outbox[Len(conn'[c].outbox)].id = call[k].id
      BY <2>1, <2>3
    <3>1. L - w # 0
      <4>1. conn'[c].outbox = After(l.outbox, w) /\ After(l.outbox, w) \in Seq(Requests)
        <5> DEFINE s == l.outbox
        <5>1. s \in Seq(Requests) /\ w \in 0 .. Len(s)
          BY <1>2, <1>6 DEF L
        <5> HIDE DEF s, l
        <5>2. After(s, w) \in Seq(Requests)
          BY <5>1, AfterCut
        <5> QED
          BY <1>4, <5>2 DEF s
      <4> DEFINE s == conn'[c].outbox
      <4>2. s \in Seq(Requests) /\ s # <<>> /\ Len(s) = L - w
        BY <1>7, <4>1
      <4> HIDE DEF s
      <4> QED
        BY <4>2
    <3>2. L - w \in 1 .. (L - w) /\ w + (L - w) = L
      BY <1>6, <3>1
    <3>3. conn'[c].outbox[Len(conn'[c].outbox)] = l.outbox[L]
      BY <1>7, <3>2
    <3>4. l.outbox # <<>>
      BY <1>2, <1>3
    <3> QED
      BY <1>4, <2>1, <2>3, <3>3, <3>4 DEF L
  <2> QED
    BY <2>2, <2>3
<1>14. Flags'
  <2> SUFFICES ASSUME NEW k \in Jobs, pc[k] \in Reading PROVE Flagged(conn'[link[k]])
    BY <1>5 DEF Flags, Flagged
  <2>1. link[k] \in Links /\ Flagged(conn[link[k]])
    BY HasConn DEF SentInv, Flags, Reading
  <2> QED
    BY <1>4, <2>1 DEF Flagged
<1> QED
  BY <1>10, <1>11, <1>12, <1>13, <1>14 DEF SentInv

\* A call that begins has the next number.
LEMMA BeginSent == ASSUME ClientInv, SentInv, NEW j \in Jobs, Begin(j) PROVE SentInv'
<1>1. /\ Typed /\ begun \in Nat /\ begun' = begun + 1 /\ conn' = conn /\ link' = link
      /\ pc[j] = "idle" /\ Runs(j)
  <2>1. Typed
    BY DEF ClientInv
  <2>2. begun \in Nat
    BY <2>1, BoundAssumption DEF Typed
  <2> QED
    BY <2>1, <2>2 DEF Begin
<1>2. /\ call'[j].id = begun + 1 /\ pc'[j] = "lookup"
      /\ \A k \in Jobs \ {j} : call'[k] = call[k] /\ pc'[k] = pc[k]
  <2>1. call \in [Jobs -> CallRecords] /\ pc \in [Jobs -> Places]
    BY <1>1, Zenon DEF Typed
  <2>2. PICK h \in use.hosts, b \in use.bodies, o \in BOOLEAN :
          call' = [call EXCEPT ![j] = [id |-> begun + 1, host |-> h, body |-> b,
                                       own |-> o, hop |-> 0]]
    BY DEF Begin
  <2>3. pc' = [pc EXCEPT ![j] = "lookup"]
    BY DEF Begin
  <2> QED
    BY <2>1, <2>2, <2>3
<1>3. \A k \in Jobs : call[k].id \in Nat /\ call[k].id <= begun
  <2>1. \A k \in Jobs : call[k] \in CallRecords
    BY <1>1, CallTypes
  <2> QED
    BY <2>1, BoundAssumption DEF CallRecords, SentInv, Distinct
<1>4. Distinct'
  <2>1. \A k \in Jobs : call'[k].id <= begun'
    BY <1>1, <1>2, <1>3
  <2>2. ASSUME NEW k \in Jobs, NEW i \in Jobs \ {k}, call'[k].id = call'[i].id
        PROVE  call'[k].id = 0
    BY <1>1, <1>2, <1>3, <2>2 DEF SentInv, Distinct
  <2> QED
    BY <2>1, <2>2 DEF Distinct
<1>5. ASSUME NEW c \in Links, NEW p \in DOMAIN conn[c].outbox
      PROVE  conn[c].outbox[p].id \in Nat /\ conn[c].outbox[p].id <= begun
  <2>1. conn[c] \in Conns
    BY <1>1, Zenon DEF Typed
  <2>2. conn[c].outbox \in Seq(Requests)
    BY <2>1, ConnFields
  <2>3. conn[c].outbox[p] \in Requests
    BY <2>2
  <2>4. conn[c].outbox[p].id \in Nat
    BY <2>3, BoundAssumption DEF Requests
  <2> QED
    BY <2>4 DEF SentInv, Numbered
<1>6. Numbered'
  BY <1>1, <1>5 DEF Numbered
<1>7. Unsent'
  <2> SUFFICES ASSUME NEW k \in Jobs, call'[k].body, pc'[k] \in Early, NEW c \in Links,
                      NEW p \in DOMAIN conn[c].outbox, conn[c].outbox[p].part = "body",
                      conn[c].outbox[p].id = call'[k].id
               PROVE  FALSE
    BY <1>1, Zenon DEF Unsent, Written
  <2>1. k # j
    BY <1>1, <1>2, <1>5
  <2>2. call[k].body /\ pc[k] \in Early /\ Written(call[k].id)
    BY <1>2, <2>1 DEF Written
  <2> QED
    BY <2>2 DEF SentInv, Unsent
<1>8. HeadLast'
  <2>1. \A k \in Jobs : pc'[k] # "body"
    BY <1>1, <1>2, JobAssumption DEF SentInv, HeadLast, Runs
  <2> QED
    BY <2>1, Zenon DEF HeadLast
<1>9. BodyOnce'
  BY <1>1 DEF SentInv, BodyOnce
<1>10. Flags'
  <2>1. \A k \in Jobs : pc'[k] \in Reading => pc[k] \in Reading
    BY <1>2 DEF Reading
  <2> QED
    BY <1>1, <2>1 DEF SentInv, Flags, Flagged
<1> QED
  BY <1>4, <1>6, <1>7, <1>8, <1>9, <1>10 DEF SentInv

LEMMA SentInit == Init => SentInv
<1> SUFFICES ASSUME Init PROVE SentInv
  OBVIOUS
<1>1. /\ begun = 0 /\ \A c \in Links : conn[c].outbox = <<>>
      /\ \A j \in Jobs : pc[j] = "idle" /\ call[j] = NoCall
  BY DEF Init, NewConn
<1>2. NoCall.id = 0 /\ NoCall.body = FALSE
  BY DEF NoCall
<1>3. Numbered /\ Distinct /\ Unsent /\ HeadLast /\ BodyOnce
  BY <1>1, <1>2 DEF Numbered, Distinct, Unsent, HeadLast, BodyOnce
<1>4. Flags
  BY <1>1 DEF Flags, Reading
<1> QED
  BY <1>3, <1>4 DEF SentInv

LEMMA SentNext == ClientInv /\ SentInv /\ [Next]_vars => SentInv'
<1> SUFFICES ASSUME ClientInv, SentInv, [Next]_vars PROVE SentInv'
  OBVIOUS
<1>1. CASE Servers
  BY <1>1, ServersKeep
<1>2. ASSUME NEW j \in Jobs, Begin(j) \/ Work(j) \/ ReceiveEnds(j) \/ Wait(j)
      PROVE  SentInv'
  <2>1. CASE Begin(j)
    BY <2>1, BeginSent
  <2>2. CASE Write(j)
    BY <2>2, WriteKeeps
  <2>3. CASE Connect(j) \/ Answer(j) \/ Read(j) \/ ReceiveEnds(j) \/ Wait(j)
    BY <2>3, ConnectAdvances, AnswerAdvances, ReadAdvances, ReceiveEndsAdvances,
       WaitAdvances, AdvancesKeeps
  <2> QED
    BY <1>2, <2>1, <2>2, <2>3 DEF Work, EndSeen
<1>3. CASE UNCHANGED vars
  <2>1. UNCHANGED <<begun, call, pc, link, current, conn>>
    BY <1>3 DEF vars, jobs, schedule
  <2>2. Numbered' /\ Distinct' /\ HeadLast'
    BY <2>1, Zenon DEF SentInv, Numbered, Distinct, HeadLast
  <2>4. BodyOnce'
    BY <2>1 DEF SentInv, BodyOnce
  <2>3. Unsent' /\ Flags'
    BY <2>1, Zenon DEF SentInv, Unsent, Written, Flags, Flagged
  <2> QED
    BY <2>2, <2>3, <2>4 DEF SentInv
<1> QED
  BY <1>1, <1>2, <1>3 DEF Next

LEMMA SentInvariant == Spec => []SentInv
<1>1. Init => SentInv
  BY SentInit
<1>2. ClientInv /\ SentInv /\ [Next]_vars => SentInv'
  BY SentNext
<1> QED
  BY <1>1, <1>2, Invariant, PTL DEF Spec

\* A body is written to one connection, once, right behind its head, however
\* often the call is redirected and whoever else uses the connection
\* (client.c:11799-11807, 11891-11893).
THEOREM BodiesOnce == Spec => []BodyOnce
<1>1. SentInv => BodyOnce
  BY DEF SentInv
<1> QED
  BY <1>1, SentInvariant, PTL

\* A coroutine that receives finds a descriptor that does not block, or a flag
\* that says it blocks and is changed, whatever connections it shares with whom
\* (client.c:11287-11305, 11361).
THEOREM LetsOthersRun == Spec => []NeverBlocks
<1>1. ClientInv /\ SentInv => NeverBlocks
  <2> SUFFICES ASSUME ClientInv, SentInv, NEW j \in Jobs \ use.main, Receiving(j),
                      conn[link[j]].state = "ready"
               PROVE  ForRecv(j).nonblock
    BY DEF NeverBlocks
  <2> DEFINE l == conn[link[j]]
  <2>1. pc[j] \in Reading
    BY DEF Receiving, Reading
  <2>2. l \in Conns /\ Flagged(l)
    BY <2>1, HasConn DEF SentInv, Flags, Reading
  <2>3. l.blocking \in BOOLEAN /\ l.nonblock \in BOOLEAN /\ (l.blocking \/ l.nonblock)
    BY <2>2, ConnFields DEF Flagged
  <2> DEFINE b == j \in use.main
  <2>4. b = FALSE /\ ForRecv(j) = Set(l, b)
    BY DEF ForRecv
  <2> HIDE DEF b, l
  <2>5. Set(l, b).nonblock = IF b = l.blocking THEN l.nonblock ELSE ~b
    BY <2>2 DEF Set, Conns
  <2>6. CASE l.blocking = TRUE
    BY <2>4, <2>5, <2>6
  <2>7. CASE l.blocking = FALSE
    BY <2>3, <2>4, <2>5, <2>7
  <2> QED
    BY <2>3, <2>6, <2>7
<1> QED
  BY <1>1, Invariant, SentInvariant, PTL
=============================================================================
