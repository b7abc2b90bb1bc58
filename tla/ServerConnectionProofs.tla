----------------------- MODULE ServerConnectionProofs -----------------------
(***************************************************************************)
(* Proofs about ServerConnection, for every number of requests, every      *)
(* length of a body and every packet size.                                 *)
(***************************************************************************)
EXTENDS ServerConnection, SequenceTheorems, WellFoundedInduction,
        FiniteSetTheorems, TLAPS

Wires == [id : 0..N, part : {"head", "body"}]

-----------------------------------------------------------------------------
(* Sequences cut in two *)

LEMMA CutInTwo ==
  ASSUME NEW S, NEW s \in Seq(S), NEW n \in Nat
  PROVE  /\ First(s, n) \in Seq(S) /\ After(s, n) \in Seq(S)
         /\ First(s, n) \o After(s, n) = s
         /\ Len(First(s, n)) <= n
         /\ Len(First(s, n)) = Least(n, Len(s))
         /\ Len(After(s, n)) <= Len(s)
         /\ Len(s) <= n => First(s, n) = s /\ After(s, n) = <<>>
         /\ n > 0 /\ First(s, n) = <<>> => s = <<>>
<1> DEFINE k == Least(n, Len(s))
<1>1. Len(s) \in Nat /\ k \in 0..Len(s) /\ k <= n
  BY LenProperties DEF Least
<1>2. \A i \in 1..Len(s) : s[i] \in S
  BY ElementOfSeq
<1>3. /\ SubSeq(s, 1, k) \in Seq(S) /\ Len(SubSeq(s, 1, k)) = k
  BY <1>1, <1>2, SubSeqProperties
<1>4. /\ SubSeq(s, k + 1, Len(s)) \in Seq(S)
      /\ Len(SubSeq(s, k + 1, Len(s))) = Len(s) - k
  <2>1. /\ SubSeq(s, k + 1, Len(s)) \in Seq(S)
        /\ Len(SubSeq(s, k + 1, Len(s))) =
             IF k + 1 <= Len(s) THEN Len(s) - (k + 1) + 1 ELSE 0
    BY <1>1, <1>2, SubSeqProperties
  <2> QED
    BY <1>1, <2>1
<1>5. SubSeq(s, 1, k) \o SubSeq(s, k + 1, Len(s)) = s
  <2>1. 1 \in 1..Len(s) + 1 /\ k \in 1 - 1 .. Len(s) /\ Len(s) \in k .. Len(s)
    BY <1>1
  <2>2. SubSeq(s, 1, k) \o SubSeq(s, k + 1, Len(s)) = SubSeq(s, 1, Len(s))
    BY <2>1, ConcatAdjacentSubSeq
  <2> QED
    BY <2>2, SubSeqFull
<1>6. Len(s) <= n => k = Len(s)
  BY <1>1 DEF Least
<1>7. ASSUME Len(s) <= n PROVE First(s, n) = s /\ After(s, n) = <<>>
  <2>1. SubSeq(s, Len(s) + 1, Len(s)) = <<>>
    BY <1>1, SubSeqEmpty
  <2> QED
    BY <1>6, <1>7, <2>1, SubSeqFull DEF First, After
<1>8. ASSUME n > 0, First(s, n) = <<>> PROVE s = <<>>
  <2>1. k = 0
    BY <1>3, <1>8, EmptySeq DEF First
  <2>2. Len(s) = 0
    BY <1>1, <1>8, <2>1 DEF Least
  <2> QED
    BY <2>2, EmptySeq
<1>9. k <= n /\ Len(s) - k <= Len(s)
  BY <1>1
<1>10. First(s, n) = SubSeq(s, 1, k) /\ After(s, n) = SubSeq(s, k + 1, Len(s))
  BY DEF First, After
<1> HIDE DEF k
<1>11. /\ First(s, n) \in Seq(S) /\ After(s, n) \in Seq(S)
       /\ First(s, n) \o After(s, n) = s
       /\ Len(First(s, n)) = k /\ Len(First(s, n)) <= n
       /\ Len(After(s, n)) <= Len(s)
  BY <1>3, <1>4, <1>5, <1>9, <1>10
<1> QED
  BY <1>7, <1>8, <1>11 DEF k

\* A sequence cut at a position.
LEMMA CutAt ==
  ASSUME NEW S, NEW s \in Seq(S), NEW n \in 0..Len(s)
  PROVE  /\ SubSeq(s, 1, n) \in Seq(S) /\ SubSeq(s, n + 1, Len(s)) \in Seq(S)
         /\ Len(SubSeq(s, 1, n)) = n /\ Len(SubSeq(s, n + 1, Len(s))) = Len(s) - n
         /\ SubSeq(s, 1, n) \o SubSeq(s, n + 1, Len(s)) = s
<1>1. Len(s) \in Nat
  BY LenProperties
<1>2. n \in Nat /\ n <= Len(s) /\ Least(n, Len(s)) = n
  BY <1>1 DEF Least
<1>3. First(s, n) = SubSeq(s, 1, n) /\ After(s, n) = SubSeq(s, n + 1, Len(s))
  BY <1>2 DEF First, After
<1>4. /\ First(s, n) \in Seq(S) /\ After(s, n) \in Seq(S)
      /\ First(s, n) \o After(s, n) = s /\ Len(First(s, n)) = n
  BY <1>2, CutInTwo
<1>5. Len(After(s, n)) = Len(s) - n
  <2> DEFINE f == First(s, n)
             r == After(s, n)
  <2>1. f \in Seq(S) /\ r \in Seq(S) /\ f \o r = s /\ Len(f) = n
    BY <1>4
  <2> HIDE DEF f, r
  <2>2. Len(s) = Len(f) + Len(r) /\ Len(r) \in Nat
    BY <2>1, ConcatProperties, LenProperties
  <2>3. Len(r) = Len(s) - n
    BY <1>1, <1>2, <2>1, <2>2
  <2> QED
    BY <2>3 DEF r
<1> QED
  BY <1>3, <1>4, <1>5

\* Concatenation, kept from the provers, which expand it.
Cat(u, v) == u \o v

LEMMA Associates ==
  \A u, v, w \in Seq(Pieces) :
    Cat(u, v) \in Seq(Pieces) /\ Cat(Cat(u, v), w) = Cat(u, Cat(v, w))
BY DEF Cat

LEMMA EmptyAdds ==
  \A u \in Seq(Pieces) : Cat(u, <<>>) = u /\ Cat(<<>>, u) = u
BY ConcatEmptySeq DEF Cat

LEMMA FourParts ==
  \A a, d, r, j \in Seq(Pieces) :
    Cat(Cat(Cat(a, d), r), j) = Cat(a, Cat(d, Cat(r, j)))
<1> SUFFICES ASSUME NEW a \in Seq(Pieces), NEW d \in Seq(Pieces),
                    NEW r \in Seq(Pieces), NEW j \in Seq(Pieces)
             PROVE  Cat(Cat(Cat(a, d), r), j) = Cat(a, Cat(d, Cat(r, j)))
  OBVIOUS
<1>1. Cat(a, d) \in Seq(Pieces) /\ Cat(r, j) \in Seq(Pieces)
  BY Associates
<1>2. Cat(Cat(Cat(a, d), r), j) = Cat(Cat(a, d), Cat(r, j))
  BY <1>1, Associates
<1>3. Cat(Cat(a, d), Cat(r, j)) = Cat(a, Cat(d, Cat(r, j)))
  BY <1>1, Associates
<1> QED
  BY <1>2, <1>3

LEMMA LeastIn ==
  ASSUME NEW T, T \subseteq Nat, T # {}
  PROVE  \E x \in T : \A y \in T : x <= y
<1> DEFINE R == OpToRel(<, Nat)
<1>1. IsWellFoundedOn(R, Nat)
  BY NatLessThanWellFounded
<1>2. \A x, y \in Nat : y < x => <<y, x>> \in R
  BY DEF OpToRel
<1> HIDE DEF R
<1>3. \E x \in T : \A y \in T : ~(<<y, x>> \in R)
  BY <1>1, WFMin
<1>4. \A x, y \in Nat : ~(<<y, x>> \in R) => x <= y
  BY <1>2
<1> QED
  BY <1>3, <1>4

\* The first terminator of what has been read.
LEMMA FirstTerminator ==
  ASSUME NEW s \in Seq(Pieces), Complete(s)
  PROVE  /\ HeaderEnd(s) \in 2..Len(s)
         /\ EndsAt(s, HeaderEnd(s) - 1)
<1> DEFINE T == {p \in DOMAIN s : EndsAt(s, p)}
<1>1. Len(s) \in Nat /\ DOMAIN s = 1..Len(s)
  BY LenProperties
<1>2. T \subseteq Nat /\ T # {}
  BY <1>1 DEF Complete
<1>3. PICK x \in T : \A y \in T : x <= y
  BY <1>2, LeastIn
<1>4. \E p \in DOMAIN s : EndsAt(s, p) /\ \A q \in DOMAIN s : EndsAt(s, q) => p <= q
  BY <1>3
<1> DEFINE e == CHOOSE p \in DOMAIN s :
                  EndsAt(s, p) /\ \A q \in DOMAIN s : EndsAt(s, q) => p <= q
<1>5. e \in DOMAIN s /\ EndsAt(s, e)
  BY <1>4
<1>6. HeaderEnd(s) = 1 + e
  BY DEF HeaderEnd
<1> HIDE DEF e
<1>7. e + 1 \in DOMAIN s
  BY <1>5 DEF EndsAt
<1>8. HeaderEnd(s) - 1 = e
  BY <1>1, <1>5, <1>6
<1> QED
  BY <1>1, <1>5, <1>6, <1>7, <1>8

\* Where a terminator is in two parts put together.
LEMMA EndsInParts ==
  ASSUME NEW a \in Seq(Pieces), NEW b \in Seq(Pieces)
  PROVE  /\ \A p \in DOMAIN b : EndsAt(b, p) =>
              Len(a) + p \in DOMAIN (a \o b) /\ EndsAt(a \o b, Len(a) + p)
         /\ \A p \in DOMAIN (a \o b) : EndsAt(a \o b, p) =>
              \/ p \in DOMAIN a /\ EndsAt(a, p)
              \/ /\ p = Len(a) /\ a # <<>>
                 /\ a[Len(a)].part = "head" /\ b[1].part = "tail"
              \/ p - Len(a) \in DOMAIN b /\ EndsAt(b, p - Len(a))
<1>1. /\ Len(a) \in Nat /\ DOMAIN a = 1..Len(a)
      /\ Len(b) \in Nat /\ DOMAIN b = 1..Len(b)
  BY LenProperties
<1> DEFINE c == a \o b
<1>2. /\ DOMAIN c = 1 .. Len(a) + Len(b)
      /\ \A i \in 1 .. Len(a) + Len(b) : c[i] = IF i <= Len(a) THEN a[i] ELSE b[i - Len(a)]
  <2>1. /\ Len(c) = Len(a) + Len(b) /\ c \in Seq(Pieces)
        /\ \A i \in 1 .. Len(a) + Len(b) :
             c[i] = IF i <= Len(a) THEN a[i] ELSE b[i - Len(a)]
    BY ConcatProperties
  <2> QED
    BY <2>1, LenProperties
<1> HIDE DEF c
<1>3. ASSUME NEW p \in DOMAIN b, EndsAt(b, p)
      PROVE  Len(a) + p \in DOMAIN c /\ EndsAt(c, Len(a) + p)
  <2>1. p \in Nat /\ p >= 1 /\ p + 1 <= Len(b)
    BY <1>1, <1>3 DEF EndsAt
  <2>2. c[Len(a) + p] = b[p] /\ c[Len(a) + p + 1] = b[p + 1]
    BY <1>1, <1>2, <2>1
  <2>3. Len(a) + p \in DOMAIN c /\ Len(a) + p + 1 \in DOMAIN c
    BY <1>1, <1>2, <2>1
  <2> QED
    BY <1>3, <2>2, <2>3 DEF EndsAt
<1>4. ASSUME NEW p \in DOMAIN c, EndsAt(c, p)
      PROVE  \/ p \in DOMAIN a /\ EndsAt(a, p)
             \/ /\ p = Len(a) /\ a # <<>>
                /\ a[Len(a)].part = "head" /\ b[1].part = "tail"
             \/ p - Len(a) \in DOMAIN b /\ EndsAt(b, p - Len(a))
  <2>1. /\ p \in Nat /\ p >= 1 /\ p + 1 <= Len(a) + Len(b)
        /\ c[p].part = "head" /\ c[p + 1].part = "tail"
    BY <1>1, <1>2, <1>4 DEF EndsAt
  <2>2. CASE p + 1 <= Len(a)
    <3>1. c[p] = a[p] /\ c[p + 1] = a[p + 1] /\ p \in DOMAIN a /\ p + 1 \in DOMAIN a
      BY <1>1, <1>2, <2>1, <2>2
    <3> QED
      BY <2>1, <3>1 DEF EndsAt
  <2>3. CASE p = Len(a)
    <3>1. c[p] = a[p] /\ c[p + 1] = b[1]
      BY <1>1, <1>2, <2>1, <2>3
    <3>2. a # <<>>
      BY <2>1, <2>3, EmptySeq
    <3> QED
      BY <2>1, <2>3, <3>1, <3>2
  <2>4. CASE p > Len(a)
    <3>1. /\ c[p] = b[p - Len(a)] /\ c[p + 1] = b[p - Len(a) + 1]
          /\ p - Len(a) \in DOMAIN b /\ p - Len(a) + 1 \in DOMAIN b
      BY <1>1, <1>2, <2>1, <2>4
    <3> QED
      BY <2>1, <3>1 DEF EndsAt
  <2> QED
    BY <1>1, <2>1, <2>2, <2>3, <2>4
<1> QED
  BY <1>3, <1>4 DEF c

\* A terminator in the last packet is one in all of what was read.
LEMMA CompleteAfter ==
  ASSUME NEW a \in Seq(Pieces), NEW b \in Seq(Pieces), Complete(b)
  PROVE  a \o b \in Seq(Pieces) /\ Complete(a \o b)
<1>1. a \o b \in Seq(Pieces)
  BY ConcatProperties
<1>2. PICK p \in DOMAIN b : EndsAt(b, p)
  BY DEF Complete
<1>3. EndsAt(a \o b, Len(a) + p) /\ Len(a) + p \in DOMAIN (a \o b)
  BY <1>2, EndsInParts
<1> QED
  BY <1>1, <1>3 DEF Complete

-----------------------------------------------------------------------------
(* Reading *)

\* What one Client:read takes, leaves in client.buffer and leaves in the kernel.
LEMMA ReadEffect ==
  ASSUME TypeOK, NEW n \in Nat, Receive(n)
  PROVE  /\ Data(n) \in Seq(Pieces) /\ LeftOver(n) \in Seq(Pieces)
         /\ inflight' \in Seq(Pieces) /\ closed' \in BOOLEAN
         /\ buffer \o inflight = Data(n) \o (LeftOver(n) \o inflight')
         /\ Len(Data(n)) \in 0..n /\ Len(LeftOver(n)) <= Len(buffer)
         /\ Len(buffer) <= n => LeftOver(n) = <<>>
         /\ n > 0 /\ Data(n) = <<>> => closed'
         /\ closed => closed'
<1>0. \A t, u, v \in Seq(Pieces) : (t \o u) \o v = t \o (u \o v)
  OBVIOUS
<1>1. /\ buffer \in Seq(Pieces) /\ inflight \in Seq(Pieces) /\ closed \in BOOLEAN
      /\ <<>> \in Seq(Pieces) /\ Len(<<>>) = 0
  BY EmptySeq DEF TypeOK
<1>2. LeftOver(n) = After(buffer, n)
  BY DEF LeftOver
<1>3. closed => closed'
  BY DEF Receive
<1>4. CASE buffer # <<>>
  <2>1. Data(n) = First(buffer, n) /\ inflight' = inflight /\ closed' = closed
    BY <1>1, <1>4 DEF Data, Receive
  <2>2. /\ Data(n) \in Seq(Pieces) /\ LeftOver(n) \in Seq(Pieces)
        /\ Data(n) \o LeftOver(n) = buffer
        /\ Len(Data(n)) <= n /\ Len(LeftOver(n)) <= Len(buffer)
        /\ Len(buffer) <= n => LeftOver(n) = <<>>
        /\ n > 0 => Data(n) # <<>>
    BY <1>1, <1>2, <1>4, <2>1, CutInTwo
  <2>3. Len(Data(n)) \in 0..n
    BY <2>2, LenProperties
  <2>4. (Data(n) \o LeftOver(n)) \o inflight = Data(n) \o (LeftOver(n) \o inflight)
    <3> DEFINE d == Data(n)
               r == LeftOver(n)
    <3>1. d \in Seq(Pieces) /\ r \in Seq(Pieces)
      BY <2>2
    <3> HIDE DEF d, r
    <3>2. (d \o r) \o inflight = d \o (r \o inflight)
      BY <1>0, <1>1, <3>1
    <3> QED
      BY <3>2 DEF d, r
  <2> QED
    BY <1>1, <1>3, <2>1, <2>2, <2>3, <2>4
<1>5. CASE buffer = <<>>
  <2>1. LeftOver(n) = <<>>
    BY <1>1, <1>2, <1>5, CutInTwo
  <2>2. CASE closed
    <3>1. Data(n) = First(<<>>, n) /\ inflight' = inflight /\ closed' = TRUE
      BY <1>5, <2>2 DEF Data, Receive
    <3>2. Data(n) = <<>>
      BY <1>1, <3>1, CutInTwo
    <3>3. <<>> \o inflight = inflight
      BY <1>1, ConcatEmptySeq
    <3>4. buffer \o inflight = Data(n) \o (LeftOver(n) \o inflight')
      BY <1>5, <2>1, <3>1, <3>2, <3>3
    <3>5. Len(Data(n)) \in 0..n /\ Len(LeftOver(n)) <= Len(buffer)
      BY <1>1, <1>5, <2>1, <3>2
    <3> QED
      BY <1>1, <2>1, <3>1, <3>2, <3>4, <3>5
  <2>3. CASE ~closed
    <3>1. /\ Data(n) = First(inflight, n) /\ inflight' = After(inflight, n)
          /\ closed' = (inflight = <<>>)
      BY <1>5, <2>3 DEF Data, Receive
    <3> DEFINE d == First(inflight, n)
               r == After(inflight, n)
    <3>2. /\ d \in Seq(Pieces) /\ r \in Seq(Pieces)
          /\ d \o r = inflight
          /\ Len(d) <= n
          /\ n > 0 /\ d = <<>> => inflight = <<>>
      BY <1>1, CutInTwo
    <3> HIDE DEF d, r
    <3>3. Len(d) \in 0..n
      BY <3>2, LenProperties
    <3>4. <<>> \o inflight = inflight /\ <<>> \o r = r
      BY <1>1, <3>2, ConcatEmptySeq
    <3>5. Data(n) = d /\ inflight' = r
      BY <3>1 DEF d, r
    <3>6. buffer \o inflight = Data(n) \o (LeftOver(n) \o inflight')
      BY <1>5, <2>1, <3>2, <3>4, <3>5
    <3>7. Len(LeftOver(n)) <= Len(buffer)
      BY <1>1, <1>5, <2>1
    <3> QED
      BY <1>1, <2>1, <2>3, <3>1, <3>2, <3>3, <3>5, <3>6, <3>7
  <2> QED
    BY <2>2, <2>3
<1> QED
  BY <1>4, <1>5

-----------------------------------------------------------------------------
(* Types *)

\* The pieces of the stream, wherever they are.
Streamed == /\ rest \in Seq(Pieces) /\ sent \in Seq(Pieces)
            /\ inflight \in Seq(Pieces) /\ buffer \in Seq(Pieces)
            /\ partial \in Seq(Pieces) /\ taken \in Seq(Pieces)

Handled == /\ req \in [id : 0..N, kind : KindSet, left : 0..Body,
                       responded : BOOLEAN]
           /\ pc \in {"parse", "handler", "caught", "respond", "drain", "done", "killed"}
Written == /\ res \in [shape : Shapes, chunk : BOOLEAN, back : {"handler", "drain"}]
           /\ out \in Seq(Wires) /\ wire \in Seq(Wires)
Flags == /\ peer \in {"open", "gone", "lost"} /\ closed \in BOOLEAN
         /\ split \in BOOLEAN /\ strayed \in BOOLEAN /\ cut \in BOOLEAN
         /\ miscounted \in BOOLEAN

LEMMA TypeParts == TypeOK <=> Streamed /\ Handled /\ Written /\ Flags
  BY DEF TypeOK, Streamed, Handled, Written, Flags, Wires

LEMMA TypePartsNext == TypeOK' <=> Streamed' /\ Handled' /\ Written' /\ Flags'
  BY DEF TypeOK, Streamed, Handled, Written, Flags, Wires

LEMMA InitTyped == Init => TypeOK
<1> SUFFICES ASSUME Init PROVE TypeOK
  OBVIOUS
<1>1. <<>> \in Seq(Pieces) /\ <<>> \in Seq(Wires)
  BY EmptySeq
<1>2. Streamed
  BY <1>1 DEF Init, Streamed
<1>3. Handled
  <2>1. 0 \in 0..N /\ 0 \in 0..Body
    BY SizeAssumption
  <2>2. req = NoRequest /\ pc = "parse"
    BY DEF Init
  <2> QED
    BY <2>1, <2>2 DEF Handled, NoRequest, KindSet
<1>4. Written
  BY <1>1 DEF Init, Written, NoResponse, Shapes
<1>5. Flags
  BY DEF Init, Flags
<1> QED
  BY <1>2, <1>3, <1>4, <1>5, TypeParts

\* A message is made of pieces, and its first one can be sent.
LEMMA Messages ==
  ASSUME NEW i \in 0..N, NEW k \in Kinds
  PROVE  Message(i, k) \in Seq(Pieces) /\ Message(i, k) # <<>>
<1> DEFINE b == IF HasBody(k) THEN Body ELSE 0
           front == <<Piece(i, k, "head"), Piece(i, k, "tail")>>
           body == [n \in 1..b |-> Piece(i, k, "body")]
<1>1. \A part \in {"head", "tail", "body"} : Piece(i, k, part) \in Pieces
  BY KindsAssumption DEF Piece, Pieces
<1>2. front \in Seq(Pieces) /\ Len(front) = 2
  BY <1>1
<1>3. b \in Nat
  BY SizeAssumption
<1>4. body \in Seq(Pieces)
  BY <1>1, <1>3, SeqDef
<1>5. Message(i, k) = front \o body
  BY DEF Message
<1> HIDE DEF b, front, body
<1>6. front \o body \in Seq(Pieces) /\ Len(front \o body) = 2 + Len(body)
  <2>1. \A t, u \in Seq(Pieces) : t \o u \in Seq(Pieces) /\ Len(t \o u) = Len(t) + Len(u)
    BY ConcatProperties
  <2> QED
    BY <1>2, <1>4, <2>1
<1>7. Len(body) \in Nat
  BY <1>4, LenProperties
<1> QED
  BY <1>5, <1>6, <1>7, EmptySeq

LEMMA RequestsCounted ==
  ASSUME TypeOK
  PROVE  Requests \in 0..N
<1>1. CASE sent = <<>>
  BY <1>1, SizeAssumption DEF Requests
<1>2. CASE sent # <<>>
  <2>1. sent \in Seq(Pieces)
    BY TypeParts DEF Streamed
  <2>2. Len(sent) \in 1..Len(sent)
    BY <1>2, <2>1, LenProperties, EmptySeq
  <2>3. sent[Len(sent)] \in Pieces
    BY <2>1, <2>2, ElementOfSeq
  <2> QED
    BY <1>2, <2>3 DEF Requests, Pieces
<1> QED
  BY <1>1, <1>2

LEMMA TypeStep ==
  ASSUME TypeOK, [Next]_vars
  PROVE  TypeOK'
<1>0. Streamed /\ Handled /\ Written /\ Flags
  BY TypeParts
<1>1. SUFFICES Streamed' /\ Handled' /\ Written' /\ Flags'
  BY TypePartsNext
<1>2. N \in Nat /\ Body \in Nat /\ Packet \in Nat
  BY SizeAssumption
<1>3. <<>> \in Seq(Pieces) /\ <<>> \in Seq(Wires)
  BY EmptySeq
<1>4. ASSUME PeerSends PROVE Streamed' /\ Handled' /\ Written' /\ Flags'
  <2>1. ASSUME NEW m \in Seq(Pieces), m # <<>>, Deliver(m)
        PROVE  rest' \in Seq(Pieces) /\ sent' \in Seq(Pieces) /\ inflight' \in Seq(Pieces)
    <3>1. Head(m) \in Pieces /\ Tail(m) \in Seq(Pieces)
      BY <2>1, HeadTailProperties
    <3>2. Append(inflight, Head(m)) \in Seq(Pieces) /\ Append(sent, Head(m)) \in Seq(Pieces)
      BY <1>0, <3>1, AppendProperties DEF Streamed
    <3> QED
      BY <2>1, <3>1, <3>2 DEF Deliver
  <2>2. Requests \in 0..N
    BY RequestsCounted
  <2>3. rest' \in Seq(Pieces) /\ sent' \in Seq(Pieces) /\ inflight' \in Seq(Pieces)
    <3>1. CASE rest # <<>> /\ Deliver(rest)
      BY <1>0, <2>1, <3>1 DEF Streamed
    <3>2. ASSUME Requests < N, NEW k \in Kinds, Deliver(Message(Requests + 1, k))
          PROVE  rest' \in Seq(Pieces) /\ sent' \in Seq(Pieces) /\ inflight' \in Seq(Pieces)
      <4>1. Requests + 1 \in 0..N
        BY <1>2, <2>2, <3>2
      <4> QED
        BY <2>1, <3>2, <4>1, Messages
    <3> QED
      BY <1>4, <3>1, <3>2 DEF PeerSends
  <2> QED
    BY <1>0, <1>4, <2>3 DEF PeerSends, Streamed, Handled, Written, Flags, response, history
<1>5. ASSUME PeerGoes PROVE Streamed' /\ Handled' /\ Written' /\ Flags'
  BY <1>0, <1>5 DEF PeerGoes, Streamed, Handled, Written, Flags, conn, response, history
<1>6. ASSUME ReadHeader PROVE Streamed' /\ Handled' /\ Written' /\ Flags'
  <2>1. /\ Data(Packet) \in Seq(Pieces) /\ LeftOver(Packet) \in Seq(Pieces)
        /\ inflight' \in Seq(Pieces) /\ closed' \in BOOLEAN
    BY <1>2, <1>6, ReadEffect DEF ReadHeader
  <2>2. partial \o Data(Packet) \in Seq(Pieces)
    BY <1>0, <2>1, ConcatProperties DEF Streamed
  <2> QED
    BY <1>0, <1>6, <2>1, <2>2 DEF ReadHeader, Streamed, Handled, Written, Flags, peers, response
<1>7. ASSUME ParseRequest PROVE Streamed' /\ Handled' /\ Written' /\ Flags'
  <2> DEFINE all == partial \o Data(Packet)
  <2>1. /\ Data(Packet) \in Seq(Pieces) /\ LeftOver(Packet) \in Seq(Pieces)
        /\ inflight' \in Seq(Pieces) /\ closed' \in BOOLEAN
    BY <1>2, <1>7, ReadEffect DEF ParseRequest
  <2>2. all \in Seq(Pieces) /\ Complete(all)
    BY <1>0, <1>7, <2>1, CompleteAfter DEF ParseRequest, Streamed
  <2>3. /\ buffer' = Remainder(all) /\ taken' = taken \o SubSeq(all, 1, HeaderEnd(all))
        /\ req' = Parsed(all)
    BY <1>7 DEF ParseRequest
  <2> HIDE DEF all
  <2>4. /\ HeaderEnd(all) \in 2..Len(all) /\ Len(all) \in Nat
        /\ EndsAt(all, HeaderEnd(all) - 1)
    BY <2>2, FirstTerminator, LenProperties
  <2>5. /\ SubSeq(all, 1, HeaderEnd(all)) \in Seq(Pieces)
        /\ SubSeq(all, HeaderEnd(all) + 1, Len(all)) \in Seq(Pieces)
    BY <2>2, <2>4, CutAt
  <2>6. taken' \in Seq(Pieces)
    BY <1>0, <2>3, <2>5, ConcatProperties DEF Streamed
  <2>7. buffer' \in Seq(Pieces)
    BY <2>1, <2>3, <2>5 DEF Remainder
  <2>8. req' \in [id : 0..N, kind : KindSet, left : 0..Body,
                  responded : BOOLEAN]
    <3>1. all[HeaderEnd(all) - 1] \in Pieces
      <4>1. HeaderEnd(all) - 1 \in 1..Len(all)
        BY <2>4
      <4> QED
        BY <2>2, <4>1, ElementOfSeq
    <3>2. 0 \in 0..Body /\ Body \in 0..Body /\ 0 \in 0..N
      BY <1>2
    <3> QED
      BY <2>3, <3>1, <3>2 DEF Parsed, NoRequest, Pieces, KindSet
  <2> QED
    BY <1>0, <1>3, <1>7, <2>1, <2>6, <2>7, <2>8
    DEF ParseRequest, Streamed, Handled, Written, Flags, peers, response, history
<1>8. ASSUME ParseFails \/ NoMoreRequests PROVE Streamed' /\ Handled' /\ Written' /\ Flags'
  BY <1>0, <1>8
  DEF ParseFails, NoMoreRequests, Streamed, Handled, Written, Flags, peers, response, history
<1>9. ASSUME NEW fails \in {"caught", "done"}, ReadBody(fails)
      PROVE  Streamed' /\ Handled' /\ Written' /\ Flags'
  <2>1. req.left \in 0..Body
    BY <1>0 DEF Handled
  <2>2. /\ Data(req.left) \in Seq(Pieces) /\ LeftOver(req.left) \in Seq(Pieces)
        /\ inflight' \in Seq(Pieces) /\ closed' \in BOOLEAN
        /\ Len(Data(req.left)) \in 0..req.left
    BY <1>2, <1>9, <2>1, ReadEffect DEF ReadBody
  <2>3. taken \o Data(req.left) \in Seq(Pieces)
    BY <1>0, <2>2, ConcatProperties DEF Streamed
  <2>4. req.left - Len(Data(req.left)) \in 0..Body
    BY <1>2, <2>1, <2>2
  <2>5. req' \in [id : 0..N, kind : KindSet, left : 0..Body,
                  responded : BOOLEAN]
    BY <1>0, <1>9, <2>4 DEF ReadBody, Handled
  <2> QED
    BY <1>0, <1>9, <2>2, <2>3, <2>5
    DEF ReadBody, Streamed, Handled, Written, Flags, peers, response, history
<1>10. ASSUME Drained PROVE Streamed' /\ Handled' /\ Written' /\ Flags'
  BY <1>0, <1>2, <1>10
  DEF Drained, NoRequest, KindSet, Streamed, Handled, Written, Flags, peers, conn, response
<1>11. ASSUME NEW shape \in Shapes, NEW back \in {"handler", "drain"}, Respond(shape, back),
              miscounted' \in BOOLEAN
       PROVE  Streamed' /\ Handled' /\ Written' /\ Flags'
  <2>1. req.id \in 0..N
    BY <1>0 DEF Handled
  <2>2. [id |-> req.id, part |-> "head"] \in Wires /\ [id |-> req.id, part |-> "body"] \in Wires
    BY <2>1 DEF Wires
  <2>3. out' \in Seq(Wires)
    BY <1>3, <1>11, <2>2 DEF Respond
  <2>4. res' \in [shape : Shapes, chunk : BOOLEAN, back : {"handler", "drain"}]
    BY <1>11 DEF Respond, NoResponse, Shapes
  <2>5. req' \in [id : 0..N, kind : KindSet, left : 0..Body,
                  responded : BOOLEAN]
    BY <1>0, <1>11 DEF Respond, Handled
  <2>6. Handled' /\ Written'
    BY <1>0, <1>11, <2>3, <2>4, <2>5 DEF Respond, Handled, Written
  <2> QED
    BY <1>0, <1>11, <2>6
    DEF Respond, Streamed, Flags, peers, conn, history
<1>12. ASSUME RespondRaises \/ HandlerReturns \/ HandlerRaises \/ HandlerCloses
       PROVE  Streamed' /\ Handled' /\ Written' /\ Flags'
  BY <1>0, <1>12
  DEF RespondRaises, HandlerReturns, HandlerRaises, HandlerCloses,
      Streamed, Handled, Written, Flags, peers, conn, response, history
<1>13. ASSUME HandleError PROVE Streamed' /\ Handled' /\ Written' /\ Flags'
  <2>1. CASE Respond("sized", "drain") /\ UNCHANGED miscounted
    BY <1>0, <1>11, <2>1 DEF Shapes, Flags
  <2>2. CASE /\ pc' = "drain" /\ miscounted' = (miscounted \/ ~req.responded)
             /\ UNCHANGED <<peers, conn, partial, req, response, taken, split, strayed, cut>>
    <3>1. miscounted' \in BOOLEAN
      BY <1>0, <2>2 DEF Flags
    <3> QED
      BY <1>0, <2>2, <3>1 DEF Streamed, Handled, Written, Flags, peers, conn, response
  <2> QED
    BY <1>13, <2>1, <2>2 DEF HandleError
<1>14. ASSUME Send PROVE Streamed' /\ Handled' /\ Written' /\ Flags'
  <2>1. PICK n \in 1..Len(out) : wire' = wire \o First(out, n) /\ out' = Unsent(n)
    BY <1>14 DEF Send
  <2>2. out \in Seq(Wires) /\ wire \in Seq(Wires) /\ Len(out) \in Nat
    BY <1>0, LenProperties DEF Written
  <2>3. First(out, n) \in Seq(Wires) /\ Unsent(n) \in Seq(Wires)
    BY <2>1, <2>2, CutInTwo, CutAt DEF Unsent
  <2>4. wire' \in Seq(Wires) /\ out' \in Seq(Wires)
    BY <2>1, <2>2, <2>3, ConcatProperties
  <2> QED
    BY <1>0, <1>14, <2>4
    DEF Send, Streamed, Handled, Written, Flags, peers, conn, history
<1>15. ASSUME SendFails PROVE Streamed' /\ Handled' /\ Written' /\ Flags'
  BY <1>0, <1>3, <1>15
  DEF SendFails, Streamed, Handled, Written, Flags, peers, history
<1>16. ASSUME Chunk PROVE Streamed' /\ Handled' /\ Written' /\ Flags'
  <2>1. [id |-> req.id, part |-> "body"] \in Wires
    BY <1>0 DEF Handled, Wires
  <2>2. out' \in Seq(Wires)
    <3>1. out' = <<[id |-> req.id, part |-> "body"]>> \/ out' = out
      BY <1>16 DEF Chunk
    <3>2. <<[id |-> req.id, part |-> "body"]>> \in Seq(Wires)
      BY <2>1
    <3> QED
      BY <1>0, <3>1, <3>2 DEF Written
  <2>3. res' \in [shape : Shapes, chunk : BOOLEAN, back : {"handler", "drain"}]
    <3>1. res' = [res EXCEPT !.chunk = FALSE] \/ res' = NoResponse
      BY <1>16 DEF Chunk
    <3>2. NoResponse \in [shape : Shapes, chunk : BOOLEAN, back : {"handler", "drain"}]
      BY DEF NoResponse, Shapes
    <3>3. [res EXCEPT !.chunk = FALSE]
            \in [shape : Shapes, chunk : BOOLEAN, back : {"handler", "drain"}]
      BY <1>0 DEF Written
    <3> QED
      BY <3>1, <3>2, <3>3
  <2>4. cut' \in BOOLEAN /\ pc' \in {pc, "caught"}
    BY <1>0, <1>16 DEF Chunk, Flags
  <2> QED
    BY <1>0, <1>16, <2>2, <2>3, <2>4
    DEF Chunk, Streamed, Handled, Written, Flags, peers, conn
<1>17. ASSUME Finish PROVE Streamed' /\ Handled' /\ Written' /\ Flags'
  <2>1. res' \in [shape : Shapes, chunk : BOOLEAN, back : {"handler", "drain"}]
    BY <1>17 DEF Finish, NoResponse, Shapes
  <2>2. pc' \in {"handler", "drain"}
    BY <1>0, <1>17 DEF Finish, Written
  <2> QED
    BY <1>0, <1>17, <2>1, <2>2
    DEF Finish, Streamed, Handled, Written, Flags, peers, history
<1>20. ASSUME DrainFails PROVE Streamed' /\ Handled' /\ Written' /\ Flags'
  BY <1>0, <1>20
  DEF DrainFails, Streamed, Handled, Written, Flags, peers, conn, response
<1>21. ASSUME SendRaises PROVE Streamed' /\ Handled' /\ Written' /\ Flags'
  <2>1. NoResponse \in [shape : Shapes, chunk : BOOLEAN, back : {"handler", "drain"}]
    BY DEF NoResponse, Shapes
  <2> QED
    BY <1>0, <1>3, <1>21, <2>1
    DEF SendRaises, Streamed, Handled, Written, Flags, peers, conn
<1>18. CASE UNCHANGED vars
  BY <1>0, <1>18
  DEF vars, Streamed, Handled, Written, Flags, peers, conn, response, history
<1>19. CASE Next
  <2>1. CASE HandlerReads \/ DrainReads
    BY <1>9, <2>1 DEF HandlerReads, DrainReads
  <2>2. CASE HandlerResponds
    <3>1. miscounted' \in BOOLEAN
      BY <2>2 DEF HandlerResponds
    <3> QED
      BY <1>11, <2>2, <3>1 DEF HandlerResponds
  <2> QED
    BY <1>4, <1>5, <1>6, <1>7, <1>8, <1>10, <1>12, <1>13, <1>14, <1>15, <1>16, <1>17,
       <1>19, <1>20, <1>21, <2>1, <2>2
    DEF Next, Peer, Job, Parse, Handle, Write, Drain
<1> QED
  BY <1>18, <1>19

\* Nothing opens a client again, and a read that ends a job has closed it.
LEMMA EndsStep ==
  ASSUME TypeOK, EndsClosed, [Next]_vars
  PROVE  EndsClosed' /\ (closed => closed')
<1>1. ASSUME NEW fails \in {"caught", "done"}, ReadBody(fails), pc # "done"
      PROVE  (pc' = "done" => closed') /\ (closed => closed')
  <2>1. req.left \in Nat /\ req.left > 0
    BY <1>1, SizeAssumption DEF TypeOK, ReadBody
  <2>2. /\ Data(req.left) = <<>> => closed'
        /\ closed => closed'
    BY <1>1, <2>1, ReadEffect DEF ReadBody
  <2>3. pc' = IF Data(req.left) = <<>> THEN fails ELSE pc
    BY <1>1 DEF ReadBody
  <2> QED
    BY <1>1, <2>2, <2>3
<1>2. CASE HandlerReads \/ DrainReads
  BY <1>1, <1>2 DEF HandlerReads, DrainReads, EndsClosed
<1>3. CASE ReadHeader \/ ParseRequest
  BY <1>3 DEF ReadHeader, ParseRequest, Receive, EndsClosed
<1>4. CASE ParseFails \/ NoMoreRequests \/ SendFails \/ HandlerCloses
  BY <1>4 DEF ParseFails, NoMoreRequests, SendFails, HandlerCloses, EndsClosed
<1>5. CASE PeerSends
  BY <1>5 DEF PeerSends, EndsClosed
<1>6. CASE PeerGoes
  <2>1. UNCHANGED <<pc, closed, req>> /\ peer = "open"
    BY <1>6 DEF PeerGoes, conn
  <2> QED
    BY <2>1 DEF EndsClosed
<1>7. ASSUME NEW shape \in Shapes, NEW back \in {"handler", "drain"}, Respond(shape, back)
      PROVE  EndsClosed' /\ (closed => closed')
  BY <1>7 DEF Respond, EndsClosed, conn
<1>8. CASE HandlerResponds
  BY <1>7, <1>8 DEF HandlerResponds
<1>9. CASE HandleError
  <2>1. CASE Respond("sized", "drain")
    BY <1>7, <2>1 DEF Shapes
  <2> QED
    BY <1>9, <2>1 DEF HandleError, EndsClosed, conn
<1>10. CASE RespondRaises \/ HandlerReturns \/ HandlerRaises \/ Send \/ SendRaises
            \/ Chunk \/ Drained
  BY <1>10
  DEF RespondRaises, HandlerReturns, HandlerRaises, Send, SendRaises, Chunk, Drained,
      EndsClosed, conn
<1>11. CASE Finish
  <2>1. res.back \in {"handler", "drain"}
    BY DEF TypeOK
  <2> QED
    BY <1>11, <2>1 DEF Finish, EndsClosed
<1>12. CASE DrainFails
  <2>1. UNCHANGED <<peer, closed, req>>
    BY <1>12 DEF DrainFails, peers, conn
  <2>2. req.kind = "unsized" \/ (peer = "lost" /\ req.kind = "post" /\ req.left > 0)
    BY <1>12 DEF DrainFails
  <2> QED
    BY <2>1, <2>2 DEF EndsClosed
<1>13. CASE UNCHANGED vars
  BY <1>13 DEF vars, conn, peers, EndsClosed
<1> QED
  BY <1>2, <1>3, <1>4, <1>5, <1>6, <1>8, <1>9, <1>10, <1>11, <1>12, <1>13
  DEF Next, Peer, Job, Parse, Handle, Write, Drain

-----------------------------------------------------------------------------
(* The stream is read as it was sent *)

\* Only a header is read in parts.  Without a missed terminator all that was
\* sent is in one place, in its order; client.buffer never holds more than a
\* packet, so the next read of a header empties it, and what has been read of
\* a header has no end in it.
Flow ==
  /\ pc \in {"handler", "caught", "respond", "drain"} => partial = <<>>
  /\ ~split => /\ NothingLost
               /\ Len(buffer) <= Packet
               /\ ~Complete(partial)

LEMMA LostCat ==
  /\ NothingLost <=> (~split => Cat(Cat(Cat(taken, partial), buffer), inflight) = sent)
  /\ NothingLost' <=> (~split' => Cat(Cat(Cat(taken', partial'), buffer'), inflight') = sent')
BY DEF NothingLost, Cat

LEMMA FlowStep ==
  ASSUME TypeOK, TypeOK', Flow, [Next]_vars
  PROVE  Flow'
<1>0. /\ Streamed /\ Packet \in Nat /\ Packet > 0
      /\ <<>> \in Seq(Pieces) /\ Len(<<>>) = 0 /\ ~Complete(<<>>)
  BY TypeParts, SizeAssumption, EmptySeq DEF Complete
<1>3. CASE PeerSends
  <2>1. \E p \in Pieces : inflight' = Append(inflight, p) /\ sent' = Append(sent, p)
    <3>1. ASSUME NEW m \in Seq(Pieces), m # <<>>, Deliver(m)
          PROVE  \E p \in Pieces : inflight' = Append(inflight, p) /\ sent' = Append(sent, p)
      <4>1. Head(m) \in Pieces
        BY <3>1, HeadTailProperties
      <4> QED
        BY <3>1, <4>1 DEF Deliver
    <3>2. CASE rest # <<>> /\ Deliver(rest)
      BY <1>0, <3>1, <3>2 DEF Streamed
    <3>3. CASE Requests < N /\ \E k \in Kinds : Deliver(Message(Requests + 1, k))
      <4>1. Requests \in 0..N
        BY RequestsCounted
      <4>2. Requests + 1 \in 0..N
        BY <3>3, <4>1, SizeAssumption
      <4> QED
        BY <3>1, <3>3, <4>2, Messages
    <3> QED
      BY <1>3, <3>2, <3>3 DEF PeerSends
  <2>2. PICK p \in Pieces : inflight' = Append(inflight, p) /\ sent' = Append(sent, p)
    BY <2>1
  <2>3. \A t, u \in Seq(Pieces) : t \o Append(u, p) = Append(t \o u, p)
    OBVIOUS
  <2>4. (taken \o partial) \o buffer \in Seq(Pieces)
    BY <1>0, ConcatProperties DEF Streamed
  <2>5. NothingLost => NothingLost'
    BY <1>0, <1>3, <2>2, <2>3, <2>4 DEF NothingLost, PeerSends, Streamed, history
  <2> QED
    BY <1>3, <2>5 DEF Flow, PeerSends, history
<1>4. CASE ReadHeader
  <2> DEFINE d == Data(Packet)
             r == LeftOver(Packet)
  <2>1. /\ d \in Seq(Pieces) /\ r \in Seq(Pieces) /\ inflight' \in Seq(Pieces)
        /\ buffer \o inflight = d \o (r \o inflight')
        /\ Len(buffer) <= Packet => r = <<>>
    BY <1>0, <1>4, ReadEffect DEF ReadHeader
  <2>2. /\ partial' = partial \o d /\ buffer' = r
        /\ d # <<>> /\ ~Complete(d) /\ split' = (split \/ Missed(d))
        /\ taken' = taken /\ sent' = sent /\ pc' = "parse"
    BY <1>4 DEF ReadHeader, peers
  <2> HIDE DEF d, r
  <2>3. ASSUME ~split PROVE NothingLost'
    <3>1. Cat(buffer, inflight) = Cat(d, Cat(r, inflight')) /\ partial' = Cat(partial, d)
      BY <2>1, <2>2, Zenon DEF Cat
    <3>2. Cat(Cat(Cat(taken, Cat(partial, d)), r), inflight')
            = Cat(Cat(Cat(taken, partial), buffer), inflight)
      <4>1. /\ taken \in Seq(Pieces) /\ partial \in Seq(Pieces) /\ buffer \in Seq(Pieces)
            /\ inflight \in Seq(Pieces)
            /\ d \in Seq(Pieces) /\ r \in Seq(Pieces) /\ inflight' \in Seq(Pieces)
        BY <1>0, <2>1 DEF Streamed
      <4>2. /\ Cat(taken, partial) \in Seq(Pieces)
            /\ Cat(taken, Cat(partial, d)) = Cat(Cat(taken, partial), d)
        BY <4>1, Associates
      <4> DEFINE a == Cat(taken, partial)
      <4>3. a \in Seq(Pieces)
        BY <4>2
      <4> HIDE DEF a
      <4>4. Cat(Cat(Cat(a, d), r), inflight') = Cat(a, Cat(d, Cat(r, inflight')))
        BY <4>1, <4>3, FourParts
      <4>5. Cat(Cat(a, buffer), inflight) = Cat(a, Cat(buffer, inflight))
        BY <4>1, <4>3, Associates
      <4> QED
        BY <3>1, <4>2, <4>4, <4>5 DEF a
    <3> QED
      BY <2>2, <2>3, <3>1, <3>2, LostCat DEF Flow
  <2>4. ASSUME ~split' PROVE ~Complete(partial')
    <3>1. ~Complete(partial) /\ ~Missed(d)
      BY <2>2, <2>4 DEF Flow
    <3>2. ASSUME NEW p \in DOMAIN (partial \o d), EndsAt(partial \o d, p) PROVE FALSE
      BY <1>0, <2>1, <2>2, <3>1, <3>2, EndsInParts DEF Complete, Missed, Streamed
    <3> QED
      BY <2>2, <3>2 DEF Complete
  <2>5. ASSUME ~split PROVE Len(buffer') <= Packet
    BY <1>0, <2>1, <2>2, <2>5 DEF Flow
  <2> QED
    BY <2>2, <2>3, <2>4, <2>5 DEF Flow
<1>5. CASE ParseRequest
  <2> DEFINE d == Data(Packet)
             r == LeftOver(Packet)
             all == partial \o d
  <2>1. /\ d \in Seq(Pieces) /\ r \in Seq(Pieces) /\ inflight' \in Seq(Pieces)
        /\ buffer \o inflight = d \o (r \o inflight')
        /\ Len(buffer) <= Packet => r = <<>>
        /\ Len(d) \in 0..Packet
    BY <1>0, <1>5, ReadEffect DEF ParseRequest
  <2>2. all \in Seq(Pieces) /\ Complete(all) /\ Len(all) = Len(partial) + Len(d)
    BY <1>0, <1>5, <2>1, CompleteAfter, ConcatProperties DEF ParseRequest, Streamed
  <2>3. /\ buffer' = Remainder(all) /\ taken' = taken \o SubSeq(all, 1, HeaderEnd(all))
        /\ partial' = <<>> /\ split' = split /\ sent' = sent
    BY <1>5 DEF ParseRequest, peers, history
  <2>4. /\ HeaderEnd(all) \in 2..Len(all) /\ Len(all) \in Nat /\ Len(partial) \in Nat
        /\ EndsAt(all, HeaderEnd(all) - 1) /\ HeaderEnd(all) - 1 \in DOMAIN all
    <3> HIDE DEF all
    <3>1. /\ HeaderEnd(all) \in 2..Len(all) /\ EndsAt(all, HeaderEnd(all) - 1)
          /\ Len(all) \in Nat /\ DOMAIN all = 1..Len(all)
      BY <2>2, FirstTerminator, LenProperties
    <3>2. HeaderEnd(all) - 1 \in DOMAIN all
      BY <3>1
    <3>3. Len(partial) \in Nat
      BY <1>0, LenProperties DEF Streamed
    <3> QED
      BY <3>1, <3>2, <3>3
  <2> DEFINE h == SubSeq(all, 1, HeaderEnd(all))
             more == SubSeq(all, HeaderEnd(all) + 1, Len(all))
  <2>5. /\ h \in Seq(Pieces) /\ more \in Seq(Pieces) /\ h \o more = all
        /\ Len(more) = Len(all) - HeaderEnd(all)
    <3> HIDE DEF all
    <3>1. HeaderEnd(all) \in 0..Len(all)
      BY <2>4
    <3> QED
      BY <2>2, <3>1, CutAt
  <2>6. buffer' = IF more # <<>> THEN more ELSE r
    BY <2>3 DEF Remainder
  <2>7. ASSUME ~split PROVE HeaderEnd(all) - 1 >= Len(partial)
    <3>1. ~(HeaderEnd(all) - 1 \in DOMAIN partial /\ EndsAt(partial, HeaderEnd(all) - 1))
      BY <2>7 DEF Flow, Complete
    <3>2. \/ HeaderEnd(all) - 1 = Len(partial)
          \/ HeaderEnd(all) - 1 - Len(partial) \in DOMAIN d
      BY <1>0, <2>1, <2>4, <3>1, EndsInParts DEF Streamed
    <3>3. DOMAIN d = 1..Len(d)
      BY <2>1, LenProperties
    <3> QED
      BY <2>1, <2>4, <3>2, <3>3
  <2> DEFINE e == HeaderEnd(all)
  <2> HIDE DEF h, more, all, d, r, e
  <2>8. ASSUME ~split PROVE buffer' = more /\ Len(buffer') <= Packet
    <3>1. r = <<>>
      BY <2>1, <2>8 DEF Flow
    <3>2. buffer' = more
      BY <2>6, <3>1
    <3>3. e \in Nat /\ e - 1 >= Len(partial) /\ Len(more) = Len(all) - e
      BY <2>4, <2>5, <2>7, <2>8 DEF e
    <3> QED
      BY <1>0, <2>1, <2>2, <2>4, <3>2, <3>3
  <2>9. ASSUME ~split PROVE NothingLost'
    <3>1. r = <<>> /\ buffer' = more
      BY <2>1, <2>8, <2>9 DEF Flow
    <3>2. Cat(buffer, inflight) = Cat(d, inflight')
      <4>1. <<>> \o inflight' = inflight'
        BY <2>1, ConcatEmptySeq
      <4> QED
        BY <2>1, <3>1, <4>1, Zenon DEF Cat
    <3>3. Cat(h, more) = Cat(partial, d) /\ taken' = Cat(taken, h)
      BY <2>3, <2>5 DEF all, h, Cat
    <3>4. Cat(Cat(Cat(Cat(taken, h), <<>>), more), inflight')
            = Cat(Cat(Cat(taken, partial), buffer), inflight)
      <4>1. /\ taken \in Seq(Pieces) /\ partial \in Seq(Pieces) /\ buffer \in Seq(Pieces)
            /\ inflight \in Seq(Pieces) /\ d \in Seq(Pieces)
            /\ inflight' \in Seq(Pieces) /\ h \in Seq(Pieces) /\ more \in Seq(Pieces)
        BY <1>0, <2>1, <2>5 DEF Streamed
      <4> DEFINE a == Cat(taken, partial)
      <4>2. /\ a \in Seq(Pieces) /\ Cat(taken, h) \in Seq(Pieces)
            /\ Cat(Cat(taken, h), more) = Cat(taken, Cat(h, more))
            /\ Cat(taken, Cat(partial, d)) = Cat(a, d)
        BY <4>1, Associates
      <4>3. Cat(Cat(taken, h), <<>>) = Cat(taken, h)
        BY <4>2, EmptyAdds
      <4> HIDE DEF a
      <4>4. Cat(Cat(a, d), inflight') = Cat(a, Cat(d, inflight'))
            /\ Cat(Cat(a, buffer), inflight) = Cat(a, Cat(buffer, inflight))
        BY <4>1, <4>2, Associates
      <4>5. Cat(Cat(Cat(Cat(taken, h), <<>>), more), inflight') = Cat(Cat(a, buffer), inflight)
        BY <3>2, <3>3, <4>2, <4>3, <4>4
      <4> QED
        BY <4>5 DEF a
    <3> QED
      BY <2>3, <2>9, <3>1, <3>3, <3>4, LostCat DEF Flow
  <2> QED
    BY <1>0, <2>3, <2>8, <2>9 DEF Flow
<1>6. ASSUME NEW fails \in {"caught", "done"}, ReadBody(fails), pc \in {"handler", "drain"}
      PROVE  Flow'
  <2> DEFINE d == Data(req.left)
             r == LeftOver(req.left)
  <2>1. req.left \in Nat
    BY SizeAssumption DEF TypeOK
  <2>2. /\ d \in Seq(Pieces) /\ r \in Seq(Pieces) /\ inflight' \in Seq(Pieces)
        /\ buffer \o inflight = d \o (r \o inflight')
        /\ Len(r) <= Len(buffer)
    BY <1>6, <2>1, ReadEffect DEF ReadBody
  <2>3. /\ partial = <<>> /\ partial' = <<>> /\ buffer' = r /\ taken' = taken \o d
        /\ sent' = sent /\ split' = split
    BY <1>6 DEF ReadBody, Flow, peers, history
  <2> HIDE DEF d, r
  <2>4. ASSUME ~split PROVE Len(buffer') <= Packet
    <3>1. Len(buffer) <= Packet /\ Len(buffer) \in Nat /\ Len(r) \in Nat
      BY <1>0, <2>2, <2>4, LenProperties DEF Flow, Streamed
    <3> QED
      BY <1>0, <2>2, <2>3, <3>1
  <2>5. ASSUME ~split PROVE NothingLost'
    <3>1. Cat(buffer, inflight) = Cat(d, Cat(r, inflight')) /\ taken' = Cat(taken, d)
      BY <2>2, <2>3, Zenon DEF Cat
    <3>2. Cat(Cat(Cat(Cat(taken, d), <<>>), r), inflight')
            = Cat(Cat(Cat(taken, <<>>), buffer), inflight)
      <4>1. /\ taken \in Seq(Pieces) /\ buffer \in Seq(Pieces) /\ inflight \in Seq(Pieces)
            /\ d \in Seq(Pieces) /\ r \in Seq(Pieces) /\ inflight' \in Seq(Pieces)
        BY <1>0, <2>2 DEF Streamed
      <4>2. Cat(taken, d) \in Seq(Pieces) /\ Cat(taken, <<>>) = taken
        BY <4>1, Associates, EmptyAdds
      <4>3. Cat(Cat(taken, d), <<>>) = Cat(taken, d)
        BY <4>2, EmptyAdds
      <4>4. Cat(Cat(Cat(taken, d), r), inflight') = Cat(taken, Cat(d, Cat(r, inflight')))
        BY <4>1, FourParts
      <4>5. Cat(Cat(taken, buffer), inflight) = Cat(taken, Cat(buffer, inflight))
        BY <4>1, Associates
      <4> QED
        BY <3>1, <4>2, <4>3, <4>4, <4>5
    <3> QED
      BY <2>3, <2>5, <3>1, <3>2, LostCat DEF Flow
  <2> QED
    BY <1>0, <2>3, <2>4, <2>5 DEF Flow
<1>7. CASE HandlerReads \/ DrainReads
  BY <1>6, <1>7 DEF HandlerReads, DrainReads
\* The other steps leave the stream alone.
<1>8. ASSUME UNCHANGED <<taken, partial, buffer, inflight, sent, split>>,
             pc' \in {"handler", "caught", "respond", "drain"} =>
               pc \in {"handler", "caught", "respond", "drain"}
      PROVE  Flow'
  BY <1>8 DEF Flow, NothingLost
<1>9. CASE PeerGoes
  BY <1>8, <1>9 DEF PeerGoes, conn, history
<1>10. CASE ParseFails \/ NoMoreRequests
  BY <1>8, <1>10 DEF ParseFails, NoMoreRequests, peers, history
<1>11. ASSUME NEW shape, NEW back, Respond(shape, back), pc \in {"handler", "caught"}
       PROVE  Flow'
  BY <1>8, <1>11 DEF Respond, peers, conn
<1>12. CASE HandlerResponds
  BY <1>11, <1>12 DEF HandlerResponds
<1>13. CASE HandleError
  <2>1. CASE Respond("sized", "drain")
    BY <1>11, <1>13, <2>1 DEF HandleError
  <2>2. CASE UNCHANGED <<peers, conn, partial, req, response, taken, split, strayed, cut>>
    BY <1>8, <1>13, <2>2 DEF HandleError, peers, conn
  <2> QED
    BY <1>13, <2>1, <2>2 DEF HandleError
<1>14. CASE RespondRaises \/ HandlerReturns \/ HandlerRaises \/ HandlerCloses \/ Drained
  BY <1>8, <1>14
  DEF RespondRaises, HandlerReturns, HandlerRaises, HandlerCloses, Drained, peers, conn,
      history
<1>15. CASE Send \/ SendFails \/ SendRaises \/ Finish \/ DrainFails
  BY <1>8, <1>15 DEF Send, SendFails, SendRaises, Finish, DrainFails, peers, conn, history
<1>16. CASE Chunk
  BY <1>8, <1>16 DEF Chunk, peers, conn
<1>17. CASE UNCHANGED vars
  BY <1>8, <1>17 DEF vars, peers, conn, history
<1> QED
  BY <1>3, <1>4, <1>5, <1>7, <1>9, <1>10, <1>12, <1>13, <1>14, <1>15, <1>16, <1>17
  DEF Next, Peer, Job, Parse, Handle, Write, Drain

-----------------------------------------------------------------------------
(* Responses are whole *)

Alternating(s) ==
  \A p \in DOMAIN s : s[p].part = IF p % 2 = 1 THEN "head" ELSE "body"

\* What has been written and what is still to be written alternate together;
\* and a client that is open owes the peer nothing between two responses, and
\* within one either a body that is still to come, or the end of the connection.
Parity == (Len(wire) + Len(out)) % 2
Whole ==
  /\ res.chunk => res.shape # "bare"
  /\ ~cut => /\ Alternating(Cat(wire, out))
             /\ pc # "respond" => out = <<>>
             /\ ~closed => IF pc = "respond" /\ (res.chunk \/ res.shape = "bare")
                           THEN Parity = 1 ELSE Parity = 0

LEMMA Catenation ==
  /\ \A u, v \in Seq(Wires) :
       /\ Cat(u, v) \in Seq(Wires) /\ Len(u) \in Nat /\ Len(Cat(u, v)) = Len(u) + Len(v)
       /\ DOMAIN Cat(u, v) = 1 .. Len(u) + Len(v)
       /\ \A k \in 1 .. Len(u) + Len(v) :
            Cat(u, v)[k] = IF k <= Len(u) THEN u[k] ELSE v[k - Len(u)]
  /\ \A u \in Seq(Wires) : Cat(u, <<>>) = u
  /\ \A u, v, w \in Seq(Wires) : Cat(Cat(u, v), w) = Cat(u, Cat(v, w))
<1>1. \A u, v \in Seq(Wires) :
        /\ Cat(u, v) \in Seq(Wires) /\ Len(u) \in Nat /\ Len(Cat(u, v)) = Len(u) + Len(v)
        /\ \A k \in 1 .. Len(u) + Len(v) :
             Cat(u, v)[k] = IF k <= Len(u) THEN u[k] ELSE v[k - Len(u)]
  BY ConcatProperties, LenProperties DEF Cat
<1>2. \A u, v \in Seq(Wires) : DOMAIN Cat(u, v) = 1 .. Len(u) + Len(v)
  BY <1>1, LenProperties
<1>3. \A u \in Seq(Wires) : Cat(u, <<>>) = u
  BY ConcatEmptySeq DEF Cat
<1>4. \A u, v, w \in Seq(Wires) : Cat(Cat(u, v), w) = Cat(u, Cat(v, w))
  BY DEF Cat
<1> QED
  BY <1>1, <1>2, <1>3, <1>4

\* What is left out at the end leaves the rest whole.
LEMMA WholePrefix ==
  ASSUME NEW u \in Seq(Wires), NEW v \in Seq(Wires), Alternating(Cat(u, v))
  PROVE  Alternating(u)
<1>1. DOMAIN u = 1..Len(u) /\ Len(u) \in Nat /\ Len(v) \in Nat
  BY LenProperties
<1>2. /\ DOMAIN Cat(u, v) = 1 .. Len(u) + Len(v)
      /\ \A k \in 1 .. Len(u) + Len(v) :
           Cat(u, v)[k] = IF k <= Len(u) THEN u[k] ELSE v[k - Len(u)]
  BY Catenation
<1>3. ASSUME NEW k \in DOMAIN u PROVE u[k] = Cat(u, v)[k] /\ k \in DOMAIN Cat(u, v)
  BY <1>1, <1>2
<1> QED
  BY <1>3 DEF Alternating

\* A head may follow a whole response, a body may follow a head.
LEMMA WholeAfter ==
  ASSUME NEW u \in Seq(Wires), NEW x \in Wires, Alternating(u),
         x.part = IF Len(u) % 2 = 0 THEN "head" ELSE "body"
  PROVE  Alternating(Cat(u, <<x>>)) /\ Len(Cat(u, <<x>>)) = Len(u) + 1
<1>1. <<x>> \in Seq(Wires) /\ Len(<<x>>) = 1 /\ <<x>>[1] = x
  OBVIOUS
<1>2. Len(u) \in Nat /\ DOMAIN u = 1..Len(u)
  BY LenProperties
<1> DEFINE one == <<x>>
<1> HIDE DEF one
<1>3. /\ DOMAIN Cat(u, one) = 1 .. Len(u) + 1 /\ Len(Cat(u, one)) = Len(u) + 1
      /\ \A k \in 1 .. Len(u) + 1 :
           Cat(u, one)[k] = IF k <= Len(u) THEN u[k] ELSE one[k - Len(u)]
  BY <1>1, <1>2, Catenation DEF one
<1>4. ASSUME NEW k \in 1 .. Len(u) + 1
      PROVE  Cat(u, one)[k].part = IF k % 2 = 1 THEN "head" ELSE "body"
  <2>1. CASE k <= Len(u)
    BY <1>2, <1>3, <2>1 DEF Alternating
  <2>2. CASE k = Len(u) + 1
    <3>1. Cat(u, one)[k] = x
      BY <1>1, <1>2, <1>3, <2>2 DEF one
    <3>2. k % 2 = 1 <=> Len(u) % 2 = 0
      BY <1>2, <2>2
    <3> QED
      BY <3>1, <3>2
  <2> QED
    BY <1>2, <2>1, <2>2
<1>5. Alternating(Cat(u, one))
  BY <1>3, <1>4 DEF Alternating
<1> QED
  BY <1>3, <1>5 DEF one

LEMMA Paired ==
  ASSUME NEW x, NEW y
  PROVE  Cat(<<x>>, <<y>>) = <<x, y>>
<1>1. /\ <<x>> \in Seq({x, y}) /\ <<y>> \in Seq({x, y}) /\ <<x, y>> \in Seq({x, y})
      /\ Len(<<x>>) = 1 /\ Len(<<y>>) = 1 /\ Len(<<x, y>>) = 2
  OBVIOUS
<1> DEFINE s == <<x>> \o <<y>>
<1>2. s \in Seq({x, y}) /\ Len(s) = 2 /\ s[1] = x /\ s[2] = y
  BY <1>1, ConcatProperties
<1> DEFINE t == <<x, y>>
<1>3. t \in Seq({x, y}) /\ Len(t) = 2 /\ t[1] = x /\ t[2] = y
  BY <1>1
<1> HIDE DEF s, t
<1>4. s = t
  BY <1>2, <1>3, SeqEqual
<1> QED
  BY <1>4 DEF s, t, Cat

LEMMA WholeStep ==
  ASSUME TypeOK, TypeOK', Whole, [Next]_vars
  PROVE  Whole'
<1>0. /\ Written /\ Handled /\ Len(<<>>) = 0 /\ <<>> \in Seq(Wires)
      /\ Len(wire) \in Nat /\ Len(out) \in Nat
  BY TypeParts, EmptySeq, LenProperties DEF Written
\* Steps that leave the response alone.
<1>1. ASSUME UNCHANGED <<res, out, wire>>, cut' = cut \/ cut', closed => closed',
             pc # "respond", pc' # "respond"
      PROVE  Whole'
  BY <1>1 DEF Whole, Parity
<1>2. ASSUME UNCHANGED <<res, out, wire, cut, closed, pc>>
      PROVE  Whole'
  BY <1>2 DEF Whole, Parity
<1>3. CASE PeerSends \/ PeerGoes \/ UNCHANGED vars
  BY <1>2, <1>3 DEF PeerSends, PeerGoes, vars, response, history, conn
<1>4. CASE ReadHeader \/ ParseRequest
  BY <1>1, <1>4 DEF ReadHeader, ParseRequest, Receive, response, history
<1>5. CASE ParseFails \/ NoMoreRequests
  BY <1>1, <1>5 DEF ParseFails, NoMoreRequests, response, history
<1>6. CASE HandlerReads \/ DrainReads
  BY <1>1, <1>6 DEF HandlerReads, DrainReads, ReadBody, Receive, response, history
<1>7. CASE RespondRaises \/ HandlerReturns \/ HandlerRaises \/ HandlerCloses \/ Drained
           \/ DrainFails
  BY <1>1, <1>7
  DEF RespondRaises, HandlerReturns, HandlerRaises, HandlerCloses, Drained, DrainFails,
      response, history, conn
<1>8. ASSUME NEW shape \in Shapes, NEW back \in {"handler", "drain"}, Respond(shape, back),
             pc \in {"handler", "caught"}
      PROVE  Whole'
  <2> DEFINE head == [id |-> req.id, part |-> "head"]
             body == [id |-> req.id, part |-> "body"]
  <2>1. head \in Wires /\ body \in Wires
    BY <1>0 DEF Handled, Wires
  <2>2. UNCHANGED <<wire, closed, cut>>
    BY <1>8 DEF Respond, conn
  <2>3. ~(res'.chunk /\ res'.shape = "bare")
    BY <1>8 DEF Respond, NoResponse
  <2>4. CASE closed
    BY <1>8, <2>2, <2>3, <2>4 DEF Respond, Whole
  <2>5. CASE ~closed /\ cut
    BY <2>2, <2>3, <2>5 DEF Whole
  <2>6. CASE ~closed /\ ~cut
    <3>1. out = <<>> /\ Alternating(wire) /\ Len(wire) % 2 = 0
      <4>1. out = <<>> /\ Alternating(Cat(wire, out)) /\ Parity = 0
        BY <1>8, <2>6 DEF Whole
      <4>2. Cat(wire, <<>>) = wire
        BY <1>0, Catenation DEF Written
      <4>3. Len(wire) + 0 = Len(wire)
        BY <1>0
      <4> QED
        BY <1>0, <4>1, <4>2, <4>3 DEF Parity
    <3>2. /\ Alternating(Cat(wire, <<head>>)) /\ Len(Cat(wire, <<head>>)) = Len(wire) + 1
          /\ Cat(wire, <<head>>) \in Seq(Wires)
      <4>1. <<head>> \in Seq(Wires) /\ head.part = "head"
        BY <2>1
      <4> QED
        BY <1>0, <2>1, <3>1, <4>1, WholeAfter, Catenation DEF Written
    <3>3. (Len(wire) + 1) % 2 = 1 /\ (Len(wire) + 2) % 2 = 0
      BY <1>0, <3>1
    <3>4. CASE shape = "sized"
      <4>1. out' = <<head, body>> /\ res'.shape = "sized" /\ ~res'.chunk
            /\ pc' = "respond"
        <5>1. /\ out' = <<head, body>> /\ pc' = "respond"
              /\ res' = [shape |-> shape, chunk |-> shape \in {"stream", "raw"},
                         back |-> back]
          BY <1>8, <2>6, <3>4, Zenon DEF Respond
        <5>2. ~(shape \in {"stream", "raw"})
          BY <3>4
        <5>3. res'.shape = "sized" /\ ~res'.chunk
          <6>1. res'.shape = shape /\ res'.chunk = (shape \in {"stream", "raw"})
            BY <5>1
          <6> QED
            BY <3>4, <5>2, <6>1
        <5> QED
          BY <5>1, <5>3, Zenon
      <4>2. Cat(wire, <<head, body>>) = Cat(Cat(wire, <<head>>), <<body>>)
        <5>1. <<head>> \in Seq(Wires) /\ <<body>> \in Seq(Wires)
          BY <2>1
        <5> DEFINE h == <<head>>
                   b == <<body>>
        <5>2. Cat(h, b) = <<head, body>>
          BY Paired
        <5>3. h \in Seq(Wires) /\ b \in Seq(Wires) /\ wire \in Seq(Wires)
          BY <1>0, <5>1 DEF Written
        <5> HIDE DEF h, b
        <5>4. Cat(Cat(wire, h), b) = Cat(wire, Cat(h, b))
          BY <5>3, Catenation
        <5> QED
          BY <5>2, <5>4 DEF h, b
      <4>3. Alternating(Cat(Cat(wire, <<head>>), <<body>>))
        <5>1. body.part = "body" /\ Len(Cat(wire, <<head>>)) % 2 # 0
          BY <3>2, <3>3
        <5> QED
          BY <2>1, <3>2, <5>1, WholeAfter
      <4>4. Len(<<head, body>>) = 2
        OBVIOUS
      <4> QED
        BY <2>2, <3>3, <4>1, <4>2, <4>3, <4>4 DEF Whole, Parity
    <3>5. CASE shape # "sized"
      <4>1. /\ out' = <<head>> /\ res'.shape = shape /\ pc' = "respond"
            /\ res'.chunk = (shape \in {"stream", "raw"})
        BY <1>8, <2>6, <3>5 DEF Respond
      <4>2. res'.chunk \/ res'.shape = "bare"
        BY <3>5, <4>1 DEF Shapes
      <4>3. Len(<<head>>) = 1
        OBVIOUS
      <4> QED
        BY <2>2, <2>3, <3>2, <3>3, <4>1, <4>2, <4>3 DEF Whole, Parity
    <3> QED
      BY <3>4, <3>5
  <2> QED
    BY <2>4, <2>5, <2>6
<1>9. CASE HandlerResponds
  BY <1>8, <1>9 DEF HandlerResponds
<1>10. CASE HandleError
  <2>1. CASE Respond("sized", "drain")
    BY <1>8, <1>10, <2>1 DEF HandleError, Shapes
  <2>2. CASE /\ pc' = "drain"
             /\ UNCHANGED <<peers, conn, partial, req, response, taken, split, strayed, cut>>
    BY <1>1, <1>10, <2>2 DEF HandleError, response, conn
  <2> QED
    BY <1>10, <2>1, <2>2 DEF HandleError
<1>11. CASE Send
  <2>1. PICK n \in 1..Len(out) : wire' = wire \o First(out, n) /\ out' = Unsent(n)
    BY <1>11 DEF Send
  <2>2. /\ n \in 0..Len(out) /\ out \in Seq(Wires) /\ wire \in Seq(Wires)
        /\ Least(n, Len(out)) = n
    BY <1>0, <2>1 DEF Written, Least
  <2> DEFINE f == SubSeq(out, 1, n)
             r == SubSeq(out, n + 1, Len(out))
  <2>3. f \in Seq(Wires) /\ r \in Seq(Wires) /\ Cat(f, r) = out
    BY <2>2, CutAt DEF Cat
  <2>4. wire' = Cat(wire, f) /\ out' = r
    BY <2>1, <2>2 DEF First, Unsent, Cat
  <2> HIDE DEF f, r
  <2>5. /\ Cat(wire', out') = Cat(wire, out)
        /\ Len(wire') + Len(out') = Len(wire) + Len(out)
    <3>1. Cat(Cat(wire, f), r) = Cat(wire, Cat(f, r))
      BY <2>2, <2>3, Catenation
    <3>2. Len(Cat(wire, f)) = Len(wire) + Len(f) /\ Len(out) = Len(f) + Len(r)
          /\ Len(f) \in Nat /\ Len(r) \in Nat
      BY <2>2, <2>3, Catenation
    <3> QED
      BY <1>0, <2>3, <2>4, <3>1, <3>2
  <2>6. UNCHANGED <<res, cut, closed, pc>> /\ pc = "respond"
    BY <1>11 DEF Send, conn, history
  <2> QED
    BY <2>5, <2>6 DEF Whole, Parity
<1>12. CASE SendFails
  <2>1. UNCHANGED <<res, cut, wire>> /\ out' = <<>> /\ closed'
    BY <1>12 DEF SendFails, history
  <2>2. ASSUME ~cut PROVE Alternating(Cat(wire, <<>>))
    BY <1>0, <2>2, WholePrefix, Catenation DEF Whole, Written
  <2> QED
    BY <2>1, <2>2 DEF Whole
<1>13. CASE Chunk
  <2>1. ~(res'.chunk /\ res'.shape = "bare")
    BY <1>0, <1>13 DEF Chunk, NoResponse, Whole, Written
  <2>2. CASE cut'
    BY <2>1, <2>2 DEF Whole
  <2>3. CASE ~cut'
    <3> DEFINE body == [id |-> req.id, part |-> "body"]
    <3>1. /\ out' = <<body>> /\ res' = [res EXCEPT !.chunk = FALSE]
          /\ UNCHANGED <<pc, cut, wire, closed>> /\ ~closed
          /\ pc = "respond" /\ out = <<>> /\ res.chunk
      BY <1>13, <2>3 DEF Chunk, conn
    <3>2. body \in Wires /\ body.part = "body" /\ Len(<<body>>) = 1
      BY <1>0 DEF Handled, Wires
    <3>3. Alternating(wire) /\ Len(wire) % 2 = 1
      BY <1>0, <2>3, <3>1, Catenation DEF Whole, Parity, Written
    <3>4. Alternating(Cat(wire, <<body>>))
      BY <1>0, <3>2, <3>3, WholeAfter DEF Written
    <3>5. ~res'.chunk /\ res'.shape # "bare"
      BY <1>0, <3>1 DEF Whole, Written
    <3>6. (Len(wire) + 1) % 2 = 0
      BY <1>0, <3>3
    <3> QED
      BY <3>1, <3>2, <3>4, <3>5, <3>6 DEF Whole, Parity
  <2> QED
    BY <2>2, <2>3
<1>14. CASE Finish
  <2>1. /\ pc = "respond" /\ out = <<>> /\ ~res.chunk /\ UNCHANGED <<out, wire, cut>>
        /\ closed' = (closed \/ res.shape \in {"raw", "bare"})
        /\ res'.chunk = FALSE /\ pc' # "respond"
    <3>1. res.back \in {"handler", "drain"}
      BY <1>0 DEF Written
    <3> QED
      BY <1>14, <3>1 DEF Finish, NoResponse, history
  <2> QED
    BY <1>0, <2>1 DEF Whole, Parity
<1>15. CASE SendRaises
  <2>1. cut' /\ res' = NoResponse
    BY <1>15 DEF SendRaises
  <2> QED
    BY <2>1 DEF Whole, NoResponse
<1> QED
  BY <1>3, <1>4, <1>5, <1>6, <1>7, <1>9, <1>10, <1>11, <1>12, <1>13, <1>14, <1>15
  DEF Next, Peer, Job, Parse, Handle, Write, Drain

LEMMA WholeIsWhole == TypeOK /\ Whole => ResponsesWhole
<1>1. ASSUME TypeOK, Whole, ~cut PROVE Alternating(wire)
  BY <1>1, TypeParts, WholePrefix DEF Whole, Written
<1> QED
  BY <1>1 DEF ResponsesWhole, Alternating

-----------------------------------------------------------------------------
(* Bodies are read by the requests they were sent with *)

\* All that the peer has begun to send; it is one message after the other.
Stream == Cat(sent, rest)
Size(k) == IF HasBody(k) THEN 2 + Body ELSE 2

\* A message of the stream s starts at h, and all of it is there.
MessageAt(s, h) ==
  /\ h + Size(s[h].kind) <= Len(s) + 1 /\ s[h].id # 0
  /\ \A p \in h + 1 .. h + Size(s[h].kind) - 1 :
       /\ s[p].id = s[h].id /\ s[p].kind = s[h].kind
       /\ s[p].part = IF p = h + 1 THEN "tail" ELSE "body"

\* A message starts at h; a message ends at e.
HeadAt(s, h) == h \in DOMAIN s /\ s[h].part = "head"
Boundary(s, e) == e = 0 \/ \E h \in DOMAIN s : HeadAt(s, h) /\ e = h + Size(s[h].kind) - 1

\* The stream is one whole message after the other.
Ordered(s) ==
  /\ \A h \in DOMAIN s : HeadAt(s, h) => MessageAt(s, h)
  /\ \A e \in 0 .. Len(s) - 1 : Boundary(s, e) => s[e + 1].part = "head"

\* Between two requests the job is between two messages; while it handles one, what
\* is left of the body is what it has yet to take of that request's message.
Handling == pc \in {"handler", "caught", "respond", "drain"}
InStep ==
  /\ Ordered(Stream)
  /\ ~split /\ ~strayed =>
    /\ pc = "parse" => Boundary(Stream, Len(taken))
    /\ Handling => \E h \in DOMAIN Stream :
         /\ HeadAt(Stream, h) /\ Stream[h].id = req.id /\ Stream[h].kind = req.kind
         /\ Len(taken) + req.left = h + Size(req.kind) - 1
         /\ req.left <= Size(req.kind) - 2

\* Where an element of two sequences put together comes from.
LEMMA CatParts ==
  \A u, v \in Seq(Pieces) :
    /\ Cat(u, v) \in Seq(Pieces) /\ Len(u) \in Nat /\ Len(v) \in Nat
    /\ Len(Cat(u, v)) = Len(u) + Len(v)
    /\ DOMAIN u = 1 .. Len(u) /\ DOMAIN v = 1 .. Len(v)
    /\ DOMAIN Cat(u, v) = 1 .. Len(u) + Len(v)
    /\ \A p \in 1 .. Len(u) : Cat(u, v)[p] = u[p]
    /\ \A p \in 1 .. Len(v) : Cat(u, v)[Len(u) + p] = v[p]
<1> SUFFICES ASSUME NEW u \in Seq(Pieces), NEW v \in Seq(Pieces)
             PROVE  /\ Cat(u, v) \in Seq(Pieces) /\ Len(u) \in Nat /\ Len(v) \in Nat
                    /\ Len(Cat(u, v)) = Len(u) + Len(v)
                    /\ DOMAIN u = 1 .. Len(u) /\ DOMAIN v = 1 .. Len(v)
                    /\ DOMAIN Cat(u, v) = 1 .. Len(u) + Len(v)
                    /\ \A p \in 1 .. Len(u) : Cat(u, v)[p] = u[p]
                    /\ \A p \in 1 .. Len(v) : Cat(u, v)[Len(u) + p] = v[p]
  OBVIOUS
<1>1. /\ Len(u) \in Nat /\ Len(v) \in Nat /\ DOMAIN u = 1 .. Len(u) /\ DOMAIN v = 1 .. Len(v)
  BY LenProperties
<1>2. /\ Cat(u, v) \in Seq(Pieces) /\ Len(Cat(u, v)) = Len(u) + Len(v)
      /\ \A p \in 1 .. Len(u) + Len(v) :
           Cat(u, v)[p] = IF p <= Len(u) THEN u[p] ELSE v[p - Len(u)]
  BY ConcatProperties DEF Cat
<1>3. DOMAIN Cat(u, v) = 1 .. Len(Cat(u, v))
  BY <1>2, LenProperties
<1>4. ASSUME NEW p \in 1 .. Len(v) PROVE Cat(u, v)[Len(u) + p] = v[p]
  <2>1. Len(u) + p \in 1 .. Len(u) + Len(v) /\ ~(Len(u) + p <= Len(u)) /\ Len(u) + p - Len(u) = p
    BY <1>1
  <2> QED
    BY <1>2, <2>1
<1>5. ASSUME NEW p \in 1 .. Len(u) PROVE Cat(u, v)[p] = u[p]
  BY <1>1, <1>2
<1> QED
  BY <1>1, <1>2, <1>3, <1>4, <1>5

\* A request as it is sent: a head, a tail and a body.
LEMMA MessageParts ==
  ASSUME NEW i \in 0..N, NEW k \in Kinds
  PROVE  /\ Message(i, k) \in Seq(Pieces) /\ Len(Message(i, k)) = Size(k)
         /\ Size(k) \in Nat /\ Size(k) >= 2
         /\ \A p \in 1 .. Size(k) :
              /\ Message(i, k)[p].id = i /\ Message(i, k)[p].kind = k
              /\ Message(i, k)[p].part = IF p = 1 THEN "head"
                                         ELSE IF p = 2 THEN "tail" ELSE "body"
<1> DEFINE b == IF HasBody(k) THEN Body ELSE 0
           front == <<Piece(i, k, "head"), Piece(i, k, "tail")>>
           body == [n \in 1..b |-> Piece(i, k, "body")]
<1>1. \A part \in {"head", "tail", "body"} : Piece(i, k, part) \in Pieces
  BY KindsAssumption DEF Piece, Pieces
<1>2. /\ front \in Seq(Pieces) /\ Len(front) = 2
      /\ front[1] = Piece(i, k, "head") /\ front[2] = Piece(i, k, "tail")
  BY <1>1
<1>3. b \in Nat /\ Size(k) = 2 + b
  BY SizeAssumption DEF Size
<1>4. body \in Seq(Pieces) /\ Len(body) = b /\ \A n \in 1..b : body[n] = Piece(i, k, "body")
  <2>1. body \in Seq(Pieces)
    BY <1>1, <1>3, SeqDef
  <2>2. DOMAIN body = 1..b
    OBVIOUS
  <2>3. Len(body) = b
    BY <1>3, <2>1, <2>2, LenProperties
  <2> QED
    BY <2>1, <2>3
<1>5. Message(i, k) = Cat(front, body)
  BY DEF Message, Cat
<1> HIDE DEF b, front, body
<1>6. /\ Cat(front, body) \in Seq(Pieces) /\ Len(Cat(front, body)) = 2 + b
      /\ \A p \in 1 .. 2 : Cat(front, body)[p] = front[p]
      /\ \A p \in 1 .. b : Cat(front, body)[2 + p] = body[p]
  <2>1. front \in Seq(Pieces) /\ body \in Seq(Pieces)
    BY <1>2, <1>4
  <2>2. /\ Cat(front, body) \in Seq(Pieces) /\ Len(Cat(front, body)) = Len(front) + Len(body)
        /\ \A p \in 1 .. Len(front) : Cat(front, body)[p] = front[p]
        /\ \A p \in 1 .. Len(body) : Cat(front, body)[Len(front) + p] = body[p]
    BY <2>1, CatParts
  <2>3. Len(front) = 2 /\ Len(body) = b
    BY <1>2, <1>4
  <2> QED
    BY <2>2, <2>3
<1>7. ASSUME NEW p \in 1 .. Size(k)
      PROVE  Message(i, k)[p] = Piece(i, k, IF p = 1 THEN "head"
                                            ELSE IF p = 2 THEN "tail" ELSE "body")
  <2>1. CASE p \in 1 .. 2
    <3>1. p = 1 \/ p = 2
      BY <2>1
    <3> QED
      BY <1>2, <1>5, <1>6, <2>1, <3>1
  <2>2. CASE p > 2
    <3>1. p - 2 \in 1 .. b /\ 2 + (p - 2) = p
      BY <1>3, <2>2
    <3> QED
      BY <1>4, <1>5, <1>6, <2>2, <3>1
  <2> QED
    BY <1>3, <2>1, <2>2
<1> QED
  BY <1>3, <1>5, <1>6, <1>7 DEF Piece

LEMMA Sizes == \A k : Size(k) \in Nat /\ Size(k) >= 2
BY SizeAssumption DEF Size

\* What is sent after it disturbs no message.
LEMMA StaysAt ==
  ASSUME NEW s \in Seq(Pieces), NEW m \in Seq(Pieces), NEW h \in DOMAIN s
  PROVE  /\ h \in DOMAIN Cat(s, m) /\ Cat(s, m)[h] = s[h]
         /\ HeadAt(s, h) => HeadAt(Cat(s, m), h)
         /\ MessageAt(s, h) => MessageAt(Cat(s, m), h)
<1>1. /\ Len(s) \in Nat /\ Len(m) \in Nat /\ Len(Cat(s, m)) = Len(s) + Len(m)
      /\ DOMAIN s = 1 .. Len(s) /\ DOMAIN Cat(s, m) = 1 .. Len(s) + Len(m)
      /\ \A p \in 1 .. Len(s) : Cat(s, m)[p] = s[p]
  BY CatParts
<1> DEFINE c == Cat(s, m)
           z == Size(s[h].kind)
<1>2. h \in Nat /\ h >= 1 /\ z \in Nat /\ h \in DOMAIN c /\ c[h] = s[h]
  BY <1>1, Sizes
<1>3. ASSUME MessageAt(s, h) PROVE MessageAt(c, h)
  <2>1. h + z <= Len(s) + 1 /\ s[h].id # 0
    BY <1>3 DEF MessageAt
  <2>2. \A p \in h + 1 .. h + z - 1 : p \in 1 .. Len(s)
    BY <1>1, <1>2, <2>1
  <2>3. \A p \in h + 1 .. h + z - 1 : c[p] = s[p]
    BY <1>1, <2>2
  <2> HIDE DEF c
  <2>4. h + z <= Len(c) + 1
    BY <1>1, <1>2, <2>1 DEF c
  <2> QED
    BY <1>2, <1>3, <2>1, <2>3, <2>4 DEF MessageAt
<1> QED
  BY <1>2, <1>3 DEF HeadAt

LEMMA BoundaryStays ==
  ASSUME NEW s \in Seq(Pieces), NEW m \in Seq(Pieces), NEW e, Boundary(s, e)
  PROVE  Boundary(Cat(s, m), e)
BY StaysAt DEF Boundary

\* A message put after whole messages.
LEMMA OrderedGrows ==
  ASSUME NEW s \in Seq(Pieces), Ordered(s), NEW i \in 1..N, NEW k \in Kinds
  PROVE  Ordered(Cat(s, Message(i, k)))
<1> DEFINE m == Message(i, k)
           c == Cat(s, m)
           l == Len(s)
           z == Size(k)
<1>1. /\ m \in Seq(Pieces) /\ Len(m) = z /\ z \in Nat /\ z >= 2 /\ i \in Nat /\ i # 0
      /\ \A p \in 1 .. z :
           /\ m[p].id = i /\ m[p].kind = k
           /\ m[p].part = IF p = 1 THEN "head" ELSE IF p = 2 THEN "tail" ELSE "body"
  <2>1. i \in 0..N /\ i \in Nat /\ i # 0
    BY SizeAssumption
  <2> QED
    BY <2>1, MessageParts
<1> HIDE DEF m, z
<1>2. /\ c \in Seq(Pieces) /\ l \in Nat /\ DOMAIN s = 1 .. l /\ DOMAIN c = 1 .. l + z
      /\ Len(c) = l + z
      /\ \A p \in 1 .. l : c[p] = s[p]
      /\ \A p \in 1 .. z : c[l + p] = m[p]
  BY <1>1, CatParts
<1> HIDE DEF c, l
<1>3. ASSUME NEW p \in l + 1 .. l + z
      PROVE  /\ c[p].id = i /\ c[p].kind = k
             /\ c[p].part = IF p = l + 1 THEN "head" ELSE IF p = l + 2 THEN "tail" ELSE "body"
  <2>1. p - l \in 1 .. z /\ l + (p - l) = p
    BY <1>1, <1>2
  <2>2. c[p] = m[p - l] /\ (p - l = 1 <=> p = l + 1) /\ (p - l = 2 <=> p = l + 2)
    BY <1>1, <1>2, <2>1
  <2> QED
    BY <1>1, <2>1, <2>2
<1>4. /\ l + 1 \in DOMAIN c /\ HeadAt(c, l + 1) /\ MessageAt(c, l + 1)
      /\ c[l + 1].kind = k
  <2>1. l + 1 \in l + 1 .. l + z /\ l + 1 \in DOMAIN c
    BY <1>1, <1>2
  <2>2. c[l + 1].id = i /\ c[l + 1].kind = k /\ c[l + 1].part = "head"
    BY <1>3, <2>1
  <2>3. l + 1 + z <= Len(c) + 1
    BY <1>1, <1>2
  <2>4. ASSUME NEW p \in l + 1 + 1 .. l + 1 + z - 1
        PROVE  /\ c[p].id = i /\ c[p].kind = k
               /\ c[p].part = IF p = l + 1 + 1 THEN "tail" ELSE "body"
    <3>1. p \in l + 1 .. l + z /\ p # l + 1 /\ (p = l + 2 <=> p = l + 1 + 1)
      BY <1>1, <1>2
    <3> QED
      BY <1>3, <3>1
  <2> QED
    BY <1>1, <2>1, <2>2, <2>3, <2>4 DEF MessageAt, HeadAt, z
<1>5. ASSUME NEW h \in DOMAIN c, HeadAt(c, h)
      PROVE  /\ MessageAt(c, h)
             /\ h \in DOMAIN s => /\ s[h] = c[h] /\ HeadAt(s, h) /\ MessageAt(s, h)
             /\ h \notin DOMAIN s => h = l + 1
  <2>1. CASE h \in DOMAIN s
    <3>1. s[h] = c[h] /\ HeadAt(s, h) /\ MessageAt(s, h)
      BY <1>2, <1>5, <2>1 DEF HeadAt, Ordered
    <3> QED
      BY <1>1, <2>1, <3>1, StaysAt DEF c
  <2>2. CASE h \notin DOMAIN s
    <3>1. h \in l + 1 .. l + z
      BY <1>1, <1>2, <2>2
    <3>2. h = l + 1
      BY <1>3, <1>5, <3>1 DEF HeadAt
    <3> QED
      BY <1>4, <2>2, <3>2
  <2> QED
    BY <2>1, <2>2
<1>6. ASSUME NEW e \in 0 .. Len(c) - 1, Boundary(c, e)
      PROVE  c[e + 1].part = "head"
  <2>1. e \in Nat /\ e < l + z
    BY <1>1, <1>2
  <2>2. CASE e = l
    BY <1>4, <2>2 DEF HeadAt
  <2>3. CASE e < l /\ Boundary(s, e)
    <3>1. e \in 0 .. Len(s) - 1 /\ e + 1 \in 1 .. l
      BY <1>2, <2>1, <2>3 DEF l
    <3> QED
      BY <1>2, <2>3, <3>1 DEF Ordered
  <2>4. CASE e # 0
    <3>1. PICK h \in DOMAIN c : HeadAt(c, h) /\ e = h + Size(c[h].kind) - 1
      BY <1>6, <2>4 DEF Boundary
    <3>2. CASE h \in DOMAIN s
      <4>1. s[h] = c[h] /\ HeadAt(s, h) /\ MessageAt(s, h)
        BY <1>5, <3>1, <3>2
      <4>2. Boundary(s, e)
        BY <3>1, <3>2, <4>1 DEF Boundary
      <4>3. e <= l
        <5>1. h + Size(s[h].kind) <= l + 1
          BY <4>1 DEF MessageAt, l
        <5>2. Size(s[h].kind) \in Nat /\ h \in Nat
          BY <1>2, <3>2, Sizes
        <5> QED
          BY <1>2, <3>1, <4>1, <5>1, <5>2
      <4> QED
        BY <1>2, <2>1, <2>2, <2>3, <4>2, <4>3
    <3>3. CASE h \notin DOMAIN s
      <4>1. h = l + 1 /\ c[h].kind = k
        BY <1>4, <1>5, <3>1, <3>3
      <4>2. e = l + z
        BY <1>1, <1>2, <3>1, <4>1 DEF z
      <4> QED
        BY <1>1, <1>2, <2>1, <4>2
    <3> QED
      BY <3>2, <3>3
  <2>5. CASE e = 0 /\ e # l
    BY <1>2, <2>1, <2>3, <2>5 DEF Boundary
  <2> QED
    BY <2>2, <2>4, <2>5
<1> QED
  BY <1>5, <1>6 DEF Ordered, c, m

\* What the peer sends next belongs to the message it has begun, or begins another.
LEMMA StreamGrows ==
  ASSUME TypeOK, PeerSends
  PROVE  \/ Stream' = Stream
         \/ /\ rest = <<>> /\ Stream = sent /\ Requests + 1 \in 1..N
            /\ \E k \in Kinds : Stream' = Cat(sent, Message(Requests + 1, k))
<1>1. sent \in Seq(Pieces) /\ rest \in Seq(Pieces) /\ <<>> \in Seq(Pieces)
  BY TypeParts, EmptySeq DEF Streamed
<1>2. ASSUME NEW m \in Seq(Pieces), m # <<>>, Deliver(m)
      PROVE  Stream' = Cat(sent, m)
  <2> DEFINE x == <<Head(m)>>
             t == Tail(m)
  <2>1. Head(m) \in Pieces /\ t \in Seq(Pieces) /\ Len(t) = Len(m) - 1 /\ Len(m) \in Nat
        /\ \A p \in 1 .. Len(t) : t[p] = m[p + 1]
    BY <1>2, HeadTailProperties, LenProperties
  <2>2. x \in Seq(Pieces) /\ Len(x) = 1 /\ x[1] = m[1]
    BY <2>1
  <2>3. rest' = t /\ sent' = Cat(sent, x)
    <3>1. Append(sent, Head(m)) = sent \o <<Head(m)>>
      BY <1>1, <2>1, AppendIsConcat
    <3> QED
      BY <1>2, <3>1 DEF Deliver, Cat
  <2> HIDE DEF x, t
  <2>4. /\ Cat(x, t) \in Seq(Pieces) /\ Len(t) \in Nat /\ Len(Cat(x, t)) = Len(x) + Len(t)
        /\ \A p \in 1 .. Len(x) : Cat(x, t)[p] = x[p]
        /\ \A p \in 1 .. Len(t) : Cat(x, t)[Len(x) + p] = t[p]
    <3>1. x \in Seq(Pieces) /\ t \in Seq(Pieces)
      BY <2>1, <2>2
    <3> QED
      BY <3>1, CatParts
  <2>5. Len(Cat(x, t)) = Len(m)
    BY <2>1, <2>2, <2>4
  <2>6. ASSUME NEW p \in 1 .. Len(m) PROVE Cat(x, t)[p] = m[p]
    <3>1. CASE p = 1
      BY <2>2, <2>4, <3>1
    <3>2. CASE p # 1
      <4>1. p - 1 \in 1 .. Len(t) /\ 1 + (p - 1) = p
        BY <2>1, <2>6, <3>2
      <4>2. Cat(x, t)[1 + (p - 1)] = t[p - 1] /\ t[p - 1] = m[(p - 1) + 1]
        BY <2>1, <2>2, <2>4, <4>1
      <4> QED
        BY <4>1, <4>2
    <3> QED
      BY <3>1, <3>2
  <2>7. Cat(x, t) = m
    BY <2>4, <2>5, <2>6, SeqEqual
  <2>8. Cat(Cat(sent, x), t) = Cat(sent, Cat(x, t))
    <3>1. x \in Seq(Pieces) /\ t \in Seq(Pieces) /\ sent \in Seq(Pieces)
      BY <1>1, <2>1, <2>2
    <3> QED
      BY <3>1, Associates
  <2> QED
    BY <2>3, <2>7, <2>8 DEF Stream
<1>3. CASE rest # <<>> /\ Deliver(rest)
  BY <1>1, <1>2, <1>3 DEF Stream
<1>4. ASSUME rest = <<>>, Requests < N, NEW k \in Kinds, Deliver(Message(Requests + 1, k))
      PROVE  /\ Requests + 1 \in 1..N /\ Stream = sent
             /\ Stream' = Cat(sent, Message(Requests + 1, k))
  <2>1. Requests + 1 \in 1..N /\ Requests + 1 \in 0..N
    BY <1>4, RequestsCounted, SizeAssumption
  <2>2. Stream' = Cat(sent, Message(Requests + 1, k))
    BY <1>2, <1>4, <2>1, Messages
  <2>3. Stream = sent
    BY <1>1, <1>4, EmptyAdds DEF Stream
  <2> QED
    BY <2>1, <2>2, <2>3
<1> QED
  BY <1>3, <1>4 DEF PeerSends

\* Where the job is in the stream, and what it is about to read there.
LEMMA Ahead ==
  ASSUME TypeOK, Flow, ~split
  PROVE  /\ Stream \in Seq(Pieces)
         /\ Stream = Cat(taken, Cat(Cat(partial, Cat(buffer, inflight)), rest))
<1>1. /\ taken \in Seq(Pieces) /\ partial \in Seq(Pieces) /\ buffer \in Seq(Pieces)
      /\ inflight \in Seq(Pieces) /\ rest \in Seq(Pieces) /\ sent \in Seq(Pieces)
  BY TypeParts DEF Streamed
<1>2. Cat(Cat(Cat(taken, partial), buffer), inflight) = sent
  BY LostCat DEF Flow
<1>3. Cat(Cat(Cat(taken, partial), buffer), inflight)
        = Cat(taken, Cat(partial, Cat(buffer, inflight)))
  BY <1>1, FourParts
<1> DEFINE w == Cat(partial, Cat(buffer, inflight))
<1>4. w \in Seq(Pieces)
  <2>1. Cat(buffer, inflight) \in Seq(Pieces)
    BY <1>1, Associates
  <2> QED
    BY <1>1, <2>1, Associates
<1> HIDE DEF w
<1>5. Cat(Cat(taken, w), rest) = Cat(taken, Cat(w, rest))
  BY <1>1, <1>4, Associates
<1>6. Stream \in Seq(Pieces)
  BY <1>1, Associates DEF Stream
<1> QED
  BY <1>2, <1>3, <1>5, <1>6 DEF w, Stream

\* What has been taken is the beginning of the stream.
LEMMA TakenFirst ==
  ASSUME TypeOK, Flow, ~split
  PROVE  /\ Stream \in Seq(Pieces) /\ DOMAIN Stream = 1 .. Len(Stream)
         /\ Len(Stream) \in Nat /\ Len(taken) \in Nat
         /\ Len(taken) <= Len(Stream)
         /\ \A p \in 1 .. Len(taken) : Stream[p] = taken[p]
<1>1. /\ taken \in Seq(Pieces) /\ partial \in Seq(Pieces) /\ buffer \in Seq(Pieces)
      /\ inflight \in Seq(Pieces) /\ rest \in Seq(Pieces)
  BY TypeParts DEF Streamed
<1> DEFINE w == Cat(Cat(partial, Cat(buffer, inflight)), rest)
<1>2. w \in Seq(Pieces)
  <2>1. Cat(buffer, inflight) \in Seq(Pieces)
    BY <1>1, Associates
  <2>2. Cat(partial, Cat(buffer, inflight)) \in Seq(Pieces)
    BY <1>1, <2>1, Associates
  <2> QED
    BY <1>1, <2>2, Associates
<1>3. Stream = Cat(taken, w) /\ Stream \in Seq(Pieces)
  BY Ahead
<1> HIDE DEF w
<1>4. /\ Len(taken) \in Nat /\ Len(w) \in Nat /\ Len(Cat(taken, w)) = Len(taken) + Len(w)
      /\ DOMAIN Cat(taken, w) = 1 .. Len(taken) + Len(w)
      /\ \A p \in 1 .. Len(taken) : Cat(taken, w)[p] = taken[p]
  BY <1>1, <1>2, CatParts
<1> QED
  BY <1>3, <1>4

\* The header of a request is read where its message begins.
LEMMA RequestParsed ==
  ASSUME TypeOK, Flow, ~split, Ordered(Stream), Boundary(Stream, Len(taken)), ParseRequest
  PROVE  LET h == Len(taken) + 1 IN
         /\ h \in DOMAIN Stream /\ HeadAt(Stream, h)
         /\ req'.id = Stream[h].id /\ req'.kind = Stream[h].kind
         /\ Len(taken') = Len(taken) + 2
         /\ req'.left = Size(Stream[h].kind) - 2
<1> DEFINE d == Data(Packet)
           r == LeftOver(Packet)
           all == partial \o d
           l == Len(taken)
<1>1. /\ taken \in Seq(Pieces) /\ partial \in Seq(Pieces) /\ rest \in Seq(Pieces)
      /\ buffer \in Seq(Pieces) /\ inflight \in Seq(Pieces)
  BY TypeParts DEF Streamed
<1>2. /\ d \in Seq(Pieces) /\ r \in Seq(Pieces) /\ inflight' \in Seq(Pieces)
      /\ buffer \o inflight = d \o (r \o inflight')
  BY SizeAssumption, ReadEffect DEF ParseRequest
<1>3. all \in Seq(Pieces) /\ Complete(all)
  BY <1>1, <1>2, CompleteAfter DEF ParseRequest
<1>4. taken' = taken \o SubSeq(all, 1, HeaderEnd(all)) /\ req' = Parsed(all)
  BY DEF ParseRequest
<1> DEFINE w == Cat(Cat(r, inflight'), rest)
<1>5. w \in Seq(Pieces) /\ Stream = Cat(taken, Cat(all, w)) /\ Stream \in Seq(Pieces)
  <2> HIDE DEF d, r
  <2> DEFINE x == Cat(r, inflight')
  <2>1. x \in Seq(Pieces)
    BY <1>2, Associates
  <2>2. Cat(buffer, inflight) = Cat(d, x)
    BY <1>2, Zenon DEF Cat
  <2>3. /\ Stream = Cat(taken, Cat(Cat(partial, Cat(buffer, inflight)), rest))
        /\ Stream \in Seq(Pieces)
    BY Ahead
  <2> HIDE DEF x
  <2>4. d \in Seq(Pieces)
    BY <1>2
  <2>5. Cat(partial, Cat(d, x)) = Cat(Cat(partial, d), x) /\ Cat(partial, d) \in Seq(Pieces)
    BY <1>1, <2>1, <2>4, Associates
  <2>6. Cat(Cat(Cat(partial, d), x), rest) = Cat(Cat(partial, d), Cat(x, rest))
    BY <1>1, <2>1, <2>5, Associates
  <2>7. Cat(x, rest) \in Seq(Pieces)
    BY <1>1, <2>1, Associates
  <2>8. Cat(partial, d) = all
    BY DEF Cat
  <2> QED
    BY <2>2, <2>3, <2>5, <2>6, <2>7, <2>8 DEF x
<1> HIDE DEF all, w, d
<1>6. /\ HeaderEnd(all) \in 2..Len(all) /\ Len(all) \in Nat /\ Len(all) >= 2
      /\ DOMAIN all = 1 .. Len(all)
  BY <1>3, FirstTerminator, LenProperties
<1>7. /\ l \in Nat /\ Len(Stream) \in Nat /\ Len(Stream) = l + Len(Cat(all, w))
      /\ Len(Cat(all, w)) = Len(all) + Len(w) /\ Len(w) \in Nat
      /\ DOMAIN Stream = 1 .. l + Len(Cat(all, w))
      /\ \A p \in 1 .. Len(Cat(all, w)) : Stream[l + p] = Cat(all, w)[p]
      /\ \A p \in 1 .. Len(all) : Cat(all, w)[p] = all[p]
  <2>1. /\ Cat(all, w) \in Seq(Pieces) /\ Len(Cat(all, w)) = Len(all) + Len(w) /\ Len(w) \in Nat
        /\ \A p \in 1 .. Len(all) : Cat(all, w)[p] = all[p]
    BY <1>3, <1>5, CatParts
  <2> DEFINE c == Cat(all, w)
  <2> HIDE DEF c
  <2>2. c \in Seq(Pieces)
    BY <2>1 DEF c
  <2>3. /\ Len(Cat(taken, c)) = l + Len(c) /\ l \in Nat /\ Len(c) \in Nat
        /\ DOMAIN Cat(taken, c) = 1 .. l + Len(c)
        /\ \A p \in 1 .. Len(c) : Cat(taken, c)[l + p] = c[p]
    BY <1>1, <2>2, CatParts
  <2>4. l + Len(c) \in Nat
    BY <2>3
  <2> QED
    BY <1>5, <2>1, <2>3, <2>4 DEF c
<1>8. /\ l + 1 \in DOMAIN Stream /\ l + 2 \in DOMAIN Stream
      /\ Stream[l + 1] = all[1] /\ Stream[l + 2] = all[2]
  <2>1. 1 \in 1 .. Len(all) /\ 2 \in 1 .. Len(all)
    BY <1>6
  <2>2. 1 \in 1 .. Len(Cat(all, w)) /\ 2 \in 1 .. Len(Cat(all, w))
    BY <1>6, <1>7
  <2>3. l + 1 \in 1 .. l + Len(Cat(all, w)) /\ l + 2 \in 1 .. l + Len(Cat(all, w))
    BY <1>7, <2>2
  <2> QED
    BY <1>7, <2>1, <2>2, <2>3
<1>9. HeadAt(Stream, l + 1) /\ MessageAt(Stream, l + 1)
  <2>1. l \in 0 .. Len(Stream) - 1
    BY <1>6, <1>7
  <2>2. Stream[l + 1].part = "head"
    BY <2>1 DEF Ordered
  <2> QED
    BY <1>8, <2>2 DEF HeadAt, Ordered
<1>10. EndsAt(all, 1)
  <2>1. Stream[l + 2].part = "tail"
    <3>1. l + 2 \in (l + 1) + 1 .. (l + 1) + Size(Stream[l + 1].kind) - 1 /\ l + 2 = (l + 1) + 1
      BY <1>7, Sizes
    <3> QED
      BY <1>9, <3>1 DEF MessageAt
  <2> QED
    BY <1>6, <1>8, <1>9, <2>1 DEF EndsAt, HeadAt
<1>11. HeaderEnd(all) = 2
  <2>1. \A q \in DOMAIN all : EndsAt(all, q) => 1 <= q
    BY <1>6
  <2>2. 1 \in DOMAIN all
    BY <1>6
  <2> DEFINE Q(p) == EndsAt(all, p) /\ \A q \in DOMAIN all : EndsAt(all, q) => p <= q
             e == CHOOSE p \in DOMAIN all : Q(p)
  <2>3. e \in DOMAIN all /\ Q(e)
    <3>1. Q(1)
      BY <1>10, <2>1
    <3> HIDE DEF Q
    <3> QED
      BY <2>2, <3>1
  <2>4. HeaderEnd(all) = 1 + e
    BY DEF HeaderEnd
  <2>5. e <= 1
    BY <1>10, <2>2, <2>3
  <2> HIDE DEF e
  <2>6. e = 1
    BY <1>6, <2>3, <2>5
  <2> QED
    BY <2>4, <2>6
<1>12. /\ req'.id = all[1].id /\ req'.kind = all[1].kind
       /\ req'.left = IF HasBody(all[1].kind) THEN Body ELSE 0
  <2>1. HeaderEnd(all) - 1 = 1
    BY <1>11
  <2>2. req' = [id |-> all[1].id, kind |-> all[1].kind,
                left |-> IF HasBody(all[1].kind) THEN Body ELSE 0, responded |-> FALSE]
    BY <1>4, <1>11, <2>1 DEF Parsed
  <2> QED
    BY <2>2
<1>13. Len(taken') = l + 2
  <2>1. SubSeq(all, 1, 2) \in Seq(Pieces) /\ Len(SubSeq(all, 1, 2)) = 2
    <3>1. 2 \in 0 .. Len(all)
      BY <1>6
    <3> QED
      BY <1>3, <3>1, CutAt
  <2>2. taken' = taken \o SubSeq(all, 1, 2)
    BY <1>4, <1>11
  <2> QED
    BY <1>1, <2>1, <2>2, ConcatProperties
<1>14. req'.left = Size(all[1].kind) - 2
  BY <1>12, SizeAssumption DEF Size, HasBody
<1> QED
  BY <1>8, <1>9, <1>12, <1>13, <1>14

LEMMA InStepStep ==
  ASSUME TypeOK, Flow, InStep, [Next]_vars
  PROVE  InStep'
<1>0. /\ Streamed /\ Handled /\ Written /\ Flags /\ Len(taken) \in Nat
      /\ req.left \in Nat /\ Stream \in Seq(Pieces)
  <2>1. Streamed /\ Handled /\ Written /\ Flags
    BY TypeParts
  <2> QED
    BY <2>1, SizeAssumption, LenProperties, Associates DEF Streamed, Handled, Stream
<1>1. CASE PeerSends
  <2>1. /\ UNCHANGED <<taken, req, pc, split, strayed>>
    BY <1>1 DEF PeerSends, history
  <2>2. CASE Stream' = Stream
    BY <2>1, <2>2 DEF InStep, Handling
  <2>3. ASSUME NEW i \in 1..N, NEW k \in Kinds, Stream' = Cat(Stream, Message(i, k))
        PROVE  InStep'
    <3>1. PICK m \in Seq(Pieces) : m = Message(i, k)
      <4>1. i \in 0..N
        BY SizeAssumption
      <4> QED
        BY <4>1, Messages
    <3>2. Ordered(Stream')
      BY <1>0, <2>3, OrderedGrows DEF InStep
    <3>3. \A e : Boundary(Stream, e) => Boundary(Stream', e)
      BY <1>0, <2>3, <3>1, BoundaryStays
    <3>4. \A h \in DOMAIN Stream : /\ h \in DOMAIN Stream' /\ Stream'[h] = Stream[h]
                                   /\ HeadAt(Stream, h) => HeadAt(Stream', h)
      BY <1>0, <2>3, <3>1, StaysAt
    <3> QED
      BY <2>1, <3>2, <3>3, <3>4 DEF InStep, Handling
  <2> QED
    BY <1>1, <2>2, <2>3, StreamGrows
\* The other steps send nothing; most of them read nothing either.
<1>2. ASSUME UNCHANGED <<peers, taken>>, split => split', strayed => strayed',
             req'.id = req.id, req'.kind = req.kind, req'.left = req.left,
             Handling' => Handling, pc' = "parse" => pc = "parse"
      PROVE  InStep'
  <2>1. Stream' = Stream
    BY <1>2 DEF Stream, peers
  <2> QED
    BY <1>2, <2>1 DEF InStep
<1>3. CASE PeerGoes
  <2>1. Stream' = Stream
    BY <1>3 DEF PeerGoes, Stream
  <2> QED
    BY <1>3, <2>1 DEF PeerGoes, InStep, Handling, history
<1>4. CASE ReadHeader \/ ParseFails \/ NoMoreRequests
  BY <1>2, <1>4 DEF ReadHeader, ParseFails, NoMoreRequests, Handling, history
<1>5. CASE ParseRequest
  <2>1. /\ pc = "parse" /\ pc' = "handler" /\ UNCHANGED <<peers, split, strayed>>
    BY <1>5 DEF ParseRequest, history
  <2>2. Stream' = Stream
    BY <2>1 DEF Stream, peers
  <2>3. ASSUME ~split, ~strayed
        PROVE  \E h \in DOMAIN Stream :
                 /\ HeadAt(Stream, h) /\ Stream[h].id = req'.id /\ Stream[h].kind = req'.kind
                 /\ Len(taken') + req'.left = h + Size(req'.kind) - 1
                 /\ req'.left <= Size(req'.kind) - 2
    <3> DEFINE h == Len(taken) + 1
    <3>1. Boundary(Stream, Len(taken)) /\ Ordered(Stream)
      BY <2>1, <2>3 DEF InStep
    <3>2. /\ h \in DOMAIN Stream /\ HeadAt(Stream, h)
          /\ req'.id = Stream[h].id /\ req'.kind = Stream[h].kind
          /\ Len(taken') = Len(taken) + 2
          /\ req'.left = Size(Stream[h].kind) - 2
      BY <1>5, <2>3, <3>1, RequestParsed
    <3>3. Size(Stream[h].kind) \in Nat
      BY Sizes
    <3>4. Len(taken') + req'.left = h + Size(req'.kind) - 1
          /\ req'.left <= Size(req'.kind) - 2
      BY <1>0, <3>2, <3>3
    <3> QED
      BY <3>2, <3>4
  <2> QED
    BY <2>1, <2>2, <2>3 DEF InStep, Handling
<1>6. ASSUME NEW fails \in {"caught", "done"}, ReadBody(fails), pc \in {"handler", "drain"}
      PROVE  InStep'
  <2> DEFINE d == Data(req.left)
  <2>1. d \in Seq(Pieces) /\ Len(d) \in 0 .. req.left
    BY <1>0, <1>6, ReadEffect DEF ReadBody
  <2>2. /\ UNCHANGED <<peers, split, strayed>> /\ taken' = taken \o d
        /\ pc' \in {"caught", "done", "handler", "drain"}
        /\ req' = [req EXCEPT !.left = @ - Len(d)]
    BY <1>6 DEF ReadBody, history
  <2> HIDE DEF d
  <2>3. Stream' = Stream
    BY <2>2 DEF Stream, peers
  <2>4. req'.id = req.id /\ req'.kind = req.kind /\ req'.left = req.left - Len(d)
    BY <1>0, <2>2 DEF Handled
  <2>5. Len(taken') = Len(taken) + Len(d)
    <3>1. taken \in Seq(Pieces)
      BY <1>0 DEF Streamed
    <3> QED
      BY <2>1, <2>2, <3>1, ConcatProperties
  <2>6. ASSUME ~split, ~strayed
        PROVE  \E h \in DOMAIN Stream :
                 /\ HeadAt(Stream, h) /\ Stream[h].id = req'.id /\ Stream[h].kind = req'.kind
                 /\ Len(taken') + req'.left = h + Size(req'.kind) - 1
                 /\ req'.left <= Size(req'.kind) - 2
    <3>1. PICK h \in DOMAIN Stream :
            /\ HeadAt(Stream, h) /\ Stream[h].id = req.id /\ Stream[h].kind = req.kind
            /\ Len(taken) + req.left = h + Size(req.kind) - 1
            /\ req.left <= Size(req.kind) - 2
      BY <1>6, <2>6 DEF InStep, Handling
    <3>2. Len(taken') + req'.left = Len(taken) + req.left /\ req'.left <= req.left
      BY <1>0, <2>1, <2>4, <2>5
    <3>3. Size(req.kind) \in Nat /\ req'.left \in Nat
      BY <1>0, <2>1, <2>4, Sizes
    <3>4. req'.left <= Size(req.kind) - 2
      BY <1>0, <3>1, <3>2, <3>3
    <3> QED
      BY <2>4, <3>1, <3>2, <3>4
  <2> QED
    BY <2>2, <2>3, <2>6 DEF InStep
<1>7. CASE HandlerReads \/ DrainReads
  BY <1>6, <1>7 DEF HandlerReads, DrainReads
<1>8. CASE Drained
  <2>1. /\ pc = "drain" /\ pc' = "parse" /\ UNCHANGED <<peers, taken, split>>
        /\ strayed' = (strayed \/ req.left > 0)
    BY <1>8 DEF Drained
  <2>2. Stream' = Stream
    BY <2>1 DEF Stream, peers
  <2>3. ASSUME ~split', ~strayed' PROVE Boundary(Stream, Len(taken))
    <3>0. ~split /\ ~strayed /\ ~(req.left > 0)
      BY <2>1, <2>3, Zenon
    <3>a. req.left = 0
      BY <1>0, <3>0
    <3>1. ~split /\ ~strayed /\ req.left = 0
      BY <3>0, <3>a, Zenon
    <3>2. PICK h \in DOMAIN Stream :
            /\ HeadAt(Stream, h) /\ Stream[h].kind = req.kind
            /\ Len(taken) + req.left = h + Size(req.kind) - 1
      BY <2>1, <3>1 DEF InStep, Handling
    <3>3. Len(taken) = h + Size(Stream[h].kind) - 1
      BY <1>0, <3>1, <3>2
    <3> QED
      BY <3>2, <3>3 DEF Boundary
  <2> QED
    BY <2>1, <2>2, <2>3 DEF InStep, Handling
<1>9. ASSUME NEW shape, NEW back \in {"handler", "drain"}, Respond(shape, back),
             pc \in {"handler", "caught"}
      PROVE  InStep'
  <2>1. req' = [req EXCEPT !.responded = TRUE]
    BY <1>9 DEF Respond
  <2>2. req'.id = req.id /\ req'.kind = req.kind /\ req'.left = req.left
    BY <1>0, <2>1 DEF Handled
  <2>3. /\ UNCHANGED <<peers, taken, split, strayed>> /\ pc' # "parse"
    BY <1>9 DEF Respond
  <2> QED
    BY <1>2, <1>9, <2>2, <2>3 DEF Handling
<1>10. CASE HandlerResponds
  BY <1>9, <1>10 DEF HandlerResponds
<1>11. CASE HandleError
  <2>1. CASE Respond("sized", "drain")
    BY <1>9, <1>11, <2>1 DEF HandleError
  <2>2. CASE /\ pc' = "drain"
             /\ UNCHANGED <<peers, conn, partial, req, response, taken, split, strayed, cut>>
    BY <1>2, <1>11, <2>2 DEF HandleError, Handling
  <2> QED
    BY <1>11, <2>1, <2>2 DEF HandleError
<1>12. CASE RespondRaises
  <2>1. req' = [req EXCEPT !.responded = TRUE]
    BY <1>12 DEF RespondRaises
  <2>2. req'.id = req.id /\ req'.kind = req.kind /\ req'.left = req.left
    BY <1>0, <2>1 DEF Handled
  <2> QED
    BY <1>2, <1>12, <2>2 DEF RespondRaises, Handling
<1>13. CASE HandlerReturns \/ HandlerRaises \/ HandlerCloses
  BY <1>2, <1>13 DEF HandlerReturns, HandlerRaises, HandlerCloses, Handling, history
<1>14. CASE Send \/ SendFails \/ SendRaises \/ DrainFails
  BY <1>2, <1>14 DEF Send, SendFails, SendRaises, DrainFails, Handling, history
<1>15. CASE Chunk
  BY <1>2, <1>15 DEF Chunk, Handling
<1>16. CASE Finish
  <2>1. res.back \in {"handler", "drain"}
    BY <1>0 DEF Written
  <2> QED
    BY <1>2, <1>16, <2>1 DEF Finish, Handling, history
<1>17. CASE UNCHANGED vars
  BY <1>2, <1>17 DEF vars, history, Handling
<1> QED
  BY <1>1, <1>3, <1>4, <1>5, <1>7, <1>8, <1>10, <1>11, <1>12, <1>13, <1>14, <1>15, <1>16,
     <1>17
  DEF Next, Peer, Job, Parse, Handle, Write, Drain

\* In step, a body is read by the request it was sent with.
LEMMA InStepOwn ==
  ASSUME TypeOK, Flow, InStep
  PROVE  BodiesTheirOwn
<1>1. SUFFICES ASSUME ~split, ~strayed
               PROVE  /\ Handling => /\ taken # <<>> /\ req.id # 0
                                     /\ taken[Len(taken)].id = req.id
                      /\ pc = "parse" /\ taken # <<>> =>
                           \/ taken[Len(taken)].part = "body"
                           \/ ~HasBody(taken[Len(taken)].kind)
  BY DEF BodiesTheirOwn, Handling
<1> DEFINE l == Len(taken)
<1>2. /\ DOMAIN Stream = 1 .. Len(Stream) /\ l \in Nat
      /\ \A p \in 1 .. l : Stream[p] = taken[p]
      /\ taken \in Seq(Pieces) /\ req.left \in Nat
  BY <1>1, TakenFirst, TypeParts, SizeAssumption DEF Streamed, Handled
<1>3. CASE Handling
  <2>1. PICK h \in DOMAIN Stream :
          /\ HeadAt(Stream, h) /\ Stream[h].id = req.id /\ Stream[h].kind = req.kind
          /\ l + req.left = h + Size(req.kind) - 1
          /\ req.left <= Size(req.kind) - 2
    BY <1>1, <1>3 DEF InStep
  <2>2. MessageAt(Stream, h) /\ h \in Nat /\ h >= 1 /\ Size(req.kind) \in Nat
    BY <1>2, <2>1, Sizes DEF InStep, Ordered
  <2>3. l \in h + 1 .. h + Size(Stream[h].kind) - 1 /\ l >= 2
    BY <1>2, <2>1, <2>2
  <2>4. Stream[l].id = req.id /\ req.id # 0
    BY <2>1, <2>2, <2>3 DEF MessageAt
  <2>5. taken[l] = Stream[l] /\ taken # <<>>
    BY <1>2, <2>3, EmptySeq
  <2> QED
    BY <1>3, <2>4, <2>5 DEF Handling
<1>4. CASE pc = "parse" /\ taken # <<>>
  <2>1. l >= 1
    BY <1>2, <1>4, EmptySeq
  <2>2. PICK h \in DOMAIN Stream : HeadAt(Stream, h) /\ l = h + Size(Stream[h].kind) - 1
    BY <1>1, <1>4, <2>1 DEF InStep, Boundary
  <2>3. MessageAt(Stream, h) /\ h \in Nat /\ h >= 1
    BY <1>2, <2>2 DEF InStep, Ordered
  <2>4. /\ Size(Stream[h].kind) \in Nat /\ Size(Stream[h].kind) >= 2
        /\ HasBody(Stream[h].kind) => Size(Stream[h].kind) > 2
    BY SizeAssumption DEF Size
  <2>5. l \in h + 1 .. h + Size(Stream[h].kind) - 1
    BY <1>2, <2>2, <2>3, <2>4
  <2>6. /\ Stream[l].kind = Stream[h].kind
        /\ Stream[l].part = IF l = h + 1 THEN "tail" ELSE "body"
    BY <2>3, <2>5 DEF MessageAt
  <2>7. HasBody(Stream[h].kind) => l # h + 1
    BY <2>2, <2>3, <2>4
  <2>8. taken[l] = Stream[l]
    BY <1>2, <2>1
  <2> QED
    BY <1>4, <2>6, <2>7, <2>8 DEF Handling
<1> QED
  BY <1>3, <1>4

-----------------------------------------------------------------------------
(* Every request is answered once, in the order of arrival *)

\* The k-th of a set of positions, when a later one is added.
LEMMA KthGrows ==
  ASSUME NEW S \in SUBSET Nat, IsFiniteSet(S), NEW P \in Nat, \A q \in S : q < P
  PROVE  /\ Cardinality(S) \in Nat /\ Cardinality(S \cup {P}) = Cardinality(S) + 1
         /\ \A k \in 1 .. Cardinality(S) : Kth(S \cup {P}, k) = Kth(S, k)
         /\ Kth(S \cup {P}, Cardinality(S) + 1) = P
<1> DEFINE c == Cardinality(S)
           T == S \cup {P}
<1>1. c \in Nat /\ Cardinality(T) = c + 1
  <2>1. P \notin S
    OBVIOUS
  <2> QED
    BY <2>1, FS_AddElement, FS_CardinalityType
<1>2. ASSUME NEW p \in S
      PROVE  /\ {q \in T : q <= p} = {q \in S : q <= p}
             /\ Cardinality({q \in S : q <= p}) <= c
  <2>1. {q \in T : q <= p} = {q \in S : q <= p}
    OBVIOUS
  <2>2. {q \in S : q <= p} \in SUBSET S
    OBVIOUS
  <2> QED
    BY <2>1, <2>2, FS_Subset
<1>3. {q \in T : q <= P} = T
  <2>1. \A q \in T : q <= P
    OBVIOUS
  <2> QED
    BY <2>1, Zenon
<1>4. ASSUME NEW k \in 1 .. c PROVE Kth(T, k) = Kth(S, k)
  <2>1. k # c + 1
    BY <1>1
  <2>2. Ranked(T, k) = Ranked(S, k)
    BY <1>1, <1>2, <1>3, <2>1 DEF Ranked
  <2> QED
    BY <2>2, Zenon DEF Kth
<1>5. Kth(T, c + 1) = P
  <2>1. ASSUME NEW p \in S PROVE Cardinality({q \in T : q <= p}) # c + 1
    <3>1. Cardinality({q \in S : q <= p}) <= c
      BY <1>2
    <3>2. {q \in T : q <= p} = {q \in S : q <= p}
      BY <1>2
    <3> QED
      BY <1>1, <3>1, <3>2
  <2>2. Ranked(T, c + 1) = {P}
    BY <1>1, <1>3, <2>1 DEF Ranked
  <2> QED
    BY <2>2 DEF Kth
<1> QED
  BY <1>1, <1>4, <1>5

\* Where a part is in a sequence.
Where(s, part) == {p \in DOMAIN s : s[p].part = part}

LEMMA WhereFinite ==
  ASSUME NEW T, NEW s \in Seq(T), NEW part
  PROVE  /\ Where(s, part) \in SUBSET Nat /\ IsFiniteSet(Where(s, part))
         /\ Len(s) \in Nat /\ \A p \in Where(s, part) : p < Len(s) + 1
         /\ Cardinality(Where(s, part)) \in Nat
<1>1. Len(s) \in Nat /\ DOMAIN s = 1 .. Len(s)
  BY LenProperties
<1>2. Where(s, part) \in SUBSET (1 .. Len(s))
  BY <1>1 DEF Where
<1>3. IsFiniteSet(1 .. Len(s))
  BY <1>1, FS_Interval
<1>4. IsFiniteSet(Where(s, part))
  BY <1>2, <1>3, FS_Subset
<1> QED
  BY <1>1, <1>2, <1>4, FS_CardinalityType

LEMMA WhereGrows ==
  ASSUME NEW T, NEW s \in Seq(T), NEW f \in Seq(T), NEW part, Len(f) > 0,
         \A p \in DOMAIN f : p > 1 => f[p].part # part
  PROVE  Where(s \o f, part) = IF f[1].part = part THEN Where(s, part) \cup {Len(s) + 1}
                                                   ELSE Where(s, part)
<1>1. /\ Len(s) \in Nat /\ DOMAIN s = 1 .. Len(s) /\ Len(f) \in Nat /\ DOMAIN f = 1 .. Len(f)
      /\ s \o f \in Seq(T) /\ Len(s \o f) = Len(s) + Len(f)
      /\ \A k \in 1 .. Len(s) + Len(f) :
           (s \o f)[k] = IF k <= Len(s) THEN s[k] ELSE f[k - Len(s)]
  BY LenProperties, ConcatProperties
<1> DEFINE w == s \o f
<1>2. DOMAIN w = 1 .. Len(s) + Len(f)
  BY <1>1, LenProperties
<1>3. \A k \in 1 .. Len(s) + Len(f) : w[k] = IF k <= Len(s) THEN s[k] ELSE f[k - Len(s)]
  BY <1>1
<1> HIDE DEF w
<1>4. ASSUME NEW p
      PROVE  p \in Where(w, part) <=> p \in Where(s, part)
                                      \/ (p = Len(s) + 1 /\ f[1].part = part)
  <2>1. CASE p \in 1 .. Len(s)
    BY <1>1, <1>2, <1>3, <2>1 DEF Where
  <2>2. CASE p = Len(s) + 1
    BY <1>1, <1>2, <1>3, <2>2 DEF Where
  <2>3. CASE p \in Len(s) + 2 .. Len(s) + Len(f)
    <3>1. w[p] = f[p - Len(s)] /\ p - Len(s) \in DOMAIN f /\ p - Len(s) > 1
      BY <1>1, <1>3, <2>3
    <3> QED
      BY <1>1, <2>3, <3>1 DEF Where
  <2>4. CASE p \notin 1 .. Len(s) + Len(f)
    BY <1>1, <1>2, <2>4 DEF Where
  <2> QED
    BY <1>1, <2>1, <2>2, <2>3, <2>4
<1> QED
  BY <1>4 DEF w

\* The peer has sent one half of a header.
Midway == sent # <<>> /\ sent[Len(sent)].part = "head"

\* Requests arrive in the order of their numbers; what is still to be sent is the
\* rest of the last one.
Counted ==
  /\ Cardinality(Arrivals) = IF Midway THEN Requests - 1 ELSE Requests
  /\ \A p \in Arrivals : sent[p].id <= Cardinality(Arrivals)
  /\ Midway => rest # <<>>
  /\ \A p \in DOMAIN rest :
       /\ rest[p].id = Requests
       /\ rest[p].part = IF Midway /\ p = 1 THEN "tail" ELSE "body"

\* One piece more of the stream.
LEMMA OneArrives ==
  ASSUME NEW x \in Pieces, sent \in Seq(Pieces), sent' = Append(sent, x),
         TypeOK
  PROVE  /\ IF x.part = "tail" THEN Cardinality(Arrivals') = Cardinality(Arrivals) + 1
                               ELSE Arrivals' = Arrivals
         /\ Arrivals' \subseteq Arrivals \cup {Len(sent) + 1}
         /\ Len(sent) + 1 \in Arrivals' => x.part = "tail"
         /\ \A p \in Arrivals : p \in DOMAIN sent /\ sent'[p] = sent[p]
         /\ sent'[Len(sent) + 1] = x
         /\ Requests' = x.id /\ (Midway' <=> x.part = "head")
         /\ Cardinality(Arrivals) \in Nat
<1> DEFINE n == Len(sent)
<1>1. /\ n \in Nat /\ DOMAIN sent = 1..n /\ Len(sent') = n + 1 /\ sent' \in Seq(Pieces)
      /\ sent'[n + 1] = x /\ \A p \in 1..n : sent'[p] = sent[p]
  BY AppendProperties, LenProperties
<1>2. sent' # <<>>
  BY <1>1, EmptySeq
<1>3. Arrivals = Where(sent, "tail") /\ Arrivals' = Where(sent', "tail")
  BY DEF Arrivals, Where
<1>4. /\ Arrivals \in SUBSET Nat /\ IsFiniteSet(Arrivals) /\ \A p \in Arrivals : p < n + 1
      /\ Cardinality(Arrivals) \in Nat
  BY <1>3, WhereFinite
<1>5. Arrivals' = IF x.part = "tail" THEN Arrivals \cup {n + 1} ELSE Arrivals
  <2> DEFINE one == <<x>>
  <2>1. one \in Seq(Pieces) /\ Len(one) = 1 /\ one[1] = x
    OBVIOUS
  <2>2. sent' = sent \o one
    BY AppendIsConcat
  <2> HIDE DEF one
  <2>3. \A p \in DOMAIN one : p > 1 => one[p].part # "tail"
    BY <2>1, LenProperties
  <2>4. Where(sent \o one, "tail") = IF one[1].part = "tail" THEN Where(sent, "tail") \cup {n + 1}
                                                             ELSE Where(sent, "tail")
    <3>1. Len(one) > 0
      BY <2>1
    <3>2. ASSUME NEW s \in Seq(Pieces), NEW f \in Seq(Pieces), Len(f) > 0,
                 \A p \in DOMAIN f : p > 1 => f[p].part # "tail"
          PROVE  Where(s \o f, "tail")
                   = IF f[1].part = "tail" THEN Where(s, "tail") \cup {Len(s) + 1}
                                           ELSE Where(s, "tail")
      BY <3>2, WhereGrows
    <3> QED
      BY <2>1, <2>3, <3>1, <3>2
  <2> QED
    BY <1>3, <2>1, <2>2, <2>4
<1>6. x.part = "tail" => Cardinality(Arrivals') = Cardinality(Arrivals) + 1
  <2>1. n + 1 \in Nat
    BY <1>1
  <2> QED
    BY <1>4, <1>5, <2>1, KthGrows
<1>7. \A p \in Arrivals : p \in 1..n
  BY <1>1, <1>3 DEF Where
<1>8. Requests' = x.id /\ (Midway' <=> x.part = "head")
  BY <1>1, <1>2 DEF Requests, Midway
<1>9. n + 1 \notin Arrivals
  BY <1>1, <1>7
<1> QED
  BY <1>1, <1>4, <1>5, <1>6, <1>7, <1>8, <1>9

LEMMA CountedStep ==
  ASSUME TypeOK, Counted, [Next]_vars
  PROVE  Counted'
<1>0. /\ sent \in Seq(Pieces) /\ rest \in Seq(Pieces) /\ Requests \in 0..N /\ N \in Nat
  BY TypeParts, RequestsCounted, SizeAssumption DEF Streamed
<1>1. CASE PeerSends
  <2>1. ASSUME NEW m \in Seq(Pieces), m # <<>>, NEW i \in Nat, Deliver(m),
               \A p \in DOMAIN m : m[p].id = i,
               i >= Requests, Cardinality(Arrivals) = i - 1 \/ m[1].part # "tail",
               m[1].part = "head" => Cardinality(Arrivals) = i - 1,
               m[1].part = "body" => Cardinality(Arrivals) = i,
               m[1].part = "head" => Len(m) > 1,
               \A p \in DOMAIN m : p > 1 =>
                 m[p].part = IF m[1].part = "head" /\ p = 2 THEN "tail" ELSE "body"
        PROVE  Counted'
    <3>1. /\ Head(m) = m[1] /\ m[1] \in Pieces /\ Len(m) \in Nat /\ Len(m) > 0
          /\ DOMAIN m = 1 .. Len(m) /\ Tail(m) \in Seq(Pieces)
          /\ Len(Tail(m)) = Len(m) - 1 /\ \A p \in 1 .. Len(m) - 1 : Tail(m)[p] = m[p + 1]
      BY <2>1, HeadTailProperties, LenProperties, EmptySeq, ElementOfSeq
    <3>2. sent' = Append(sent, m[1]) /\ rest' = Tail(m)
      BY <2>1, <3>1 DEF Deliver
    <3> DEFINE x == m[1]
    <3>3. /\ IF x.part = "tail" THEN Cardinality(Arrivals') = Cardinality(Arrivals) + 1
                               ELSE Arrivals' = Arrivals
          /\ Arrivals' \subseteq Arrivals \cup {Len(sent) + 1}
          /\ Len(sent) + 1 \in Arrivals' => x.part = "tail"
          /\ \A p \in Arrivals : p \in DOMAIN sent /\ sent'[p] = sent[p]
          /\ sent'[Len(sent) + 1] = x
          /\ Requests' = x.id /\ (Midway' <=> x.part = "head")
          /\ Cardinality(Arrivals) \in Nat
      BY <1>0, <3>1, <3>2, OneArrives
    <3>4. x.id = i /\ x.part \in {"head", "tail", "body"}
      BY <2>1, <3>1 DEF Pieces
    <3>5. Cardinality(Arrivals') = IF Midway' THEN Requests' - 1 ELSE Requests'
      BY <2>1, <3>3, <3>4
    <3>6. \A p \in Arrivals' : sent'[p].id <= Cardinality(Arrivals')
      <4> SUFFICES ASSUME NEW p \in Arrivals' PROVE sent'[p].id <= Cardinality(Arrivals')
        OBVIOUS
      <4>1. CASE p \in Arrivals
        <5>1. sent'[p].id <= Cardinality(Arrivals)
          BY <3>3, <4>1 DEF Counted
        <5>2. Cardinality(Arrivals) <= Cardinality(Arrivals')
          BY <3>3
        <5>3. sent'[p].id \in Nat
          <6>1. sent[p] \in Pieces /\ sent'[p] = sent[p]
            BY <1>0, <3>3, <4>1, ElementOfSeq, LenProperties
          <6> QED
            BY <6>1 DEF Pieces
        <5> QED
          BY <3>3, <5>1, <5>2, <5>3
      <4>2. CASE p = Len(sent) + 1
        <5>1. x.part = "tail" /\ sent'[p] = x
          BY <3>3, <4>2
        <5> QED
          BY <2>1, <3>3, <3>4, <5>1
      <4> QED
        BY <3>3, <4>1, <4>2
    <3>7. Midway' => rest' # <<>>
      BY <2>1, <3>1, <3>2, <3>3, EmptySeq
    <3>8. ASSUME NEW p \in DOMAIN rest'
          PROVE  /\ rest'[p].id = Requests'
                 /\ rest'[p].part = IF Midway' /\ p = 1 THEN "tail" ELSE "body"
      <4>1. p \in 1 .. Len(m) - 1 /\ rest'[p] = m[p + 1] /\ p + 1 \in DOMAIN m /\ p + 1 > 1
        BY <3>1, <3>2, <3>8, LenProperties
      <4>2. p + 1 = 2 <=> p = 1
        BY <4>1
      <4> QED
        BY <2>1, <3>3, <3>4, <4>1, <4>2
    <3> QED
      BY <3>5, <3>6, <3>7, <3>8 DEF Counted
  <2>2. CASE rest # <<>> /\ Deliver(rest)
    <3>1. 1 \in DOMAIN rest /\ Len(rest) \in Nat
      BY <1>0, <2>2, LenProperties, EmptySeq
    <3>2. rest[1].part = IF Midway THEN "tail" ELSE "body"
      BY <3>1 DEF Counted
    <3>3. Cardinality(Arrivals) = IF Midway THEN Requests - 1 ELSE Requests
      BY DEF Counted
    <3>4. \A p \in DOMAIN rest : p > 1 => rest[p].part = "body"
      BY DEF Counted
    <3>5. \A p \in DOMAIN rest : rest[p].id = Requests
      BY DEF Counted
    <3> QED
      BY <1>0, <2>1, <2>2, <3>1, <3>2, <3>3, <3>4, <3>5
  <2>3. ASSUME rest = <<>>, Requests < N, NEW k \in Kinds, Deliver(Message(Requests + 1, k))
        PROVE  Counted'
    <3> DEFINE m == Message(Requests + 1, k)
    <3>1. Requests + 1 \in 0..N /\ Requests + 1 \in Nat
      BY <1>0, <2>3
    <3>2. /\ m \in Seq(Pieces) /\ Len(m) = Size(k) /\ Size(k) \in Nat /\ Size(k) >= 2
          /\ \A p \in 1 .. Size(k) :
              /\ m[p].id = Requests + 1 /\ m[p].kind = k
              /\ m[p].part = IF p = 1 THEN "head" ELSE IF p = 2 THEN "tail" ELSE "body"
      BY <3>1, MessageParts
    <3> HIDE DEF m
    <3>3. m # <<>> /\ DOMAIN m = 1 .. Size(k)
      BY <3>2, LenProperties, EmptySeq
    <3>4. Cardinality(Arrivals) = (Requests + 1) - 1
      BY <1>0, <2>3 DEF Counted
    <3>5. m[1].part = "head"
      BY <3>2
    <3>6. \A p \in DOMAIN m : p > 1 =>
            m[p].part = IF m[1].part = "head" /\ p = 2 THEN "tail" ELSE "body"
      BY <3>2, <3>3
    <3>7. \A p \in DOMAIN m : m[p].id = Requests + 1
      BY <3>2, <3>3
    <3>8. Deliver(m)
      BY <2>3 DEF m
    <3> QED
      BY <1>0, <2>1, <3>1, <3>2, <3>3, <3>4, <3>5, <3>6, <3>7, <3>8
  <2> QED
    BY <1>1, <2>2, <2>3 DEF PeerSends
<1>2. CASE UNCHANGED <<sent, rest>>
  BY <1>2 DEF Counted, Arrivals, Midway, Requests
<1> QED
  BY <1>1, <1>2 DEF Next, Peer, Job, Parse, Handle, Write, Drain, PeerGoes, ReadHeader,
    ParseRequest, ParseFails, NoMoreRequests, HandlerReads, DrainReads, ReadBody, Drained,
    DrainFails, HandlerResponds, Respond, RespondRaises, Send, SendFails, SendRaises, Chunk,
    Finish, HandlerReturns, HandlerRaises, HandlerCloses, HandleError, peers, vars

\* The requests of a stream are numbered from 1.
Successive(s) ==
  \A h \in DOMAIN s : HeadAt(s, h) => s[h].id = IF h = 1 THEN 1 ELSE s[h - 1].id + 1

LEMMA SuccessiveStep ==
  ASSUME TypeOK, Counted, Successive(Stream), [Next]_vars
  PROVE  Successive(Stream')
<1>1. CASE PeerSends
  <2>1. CASE Stream' = Stream
    BY <2>1
  <2>2. ASSUME rest = <<>>, NEW k \in Kinds, Requests + 1 \in 1..N,
               Stream' = Cat(sent, Message(Requests + 1, k))
        PROVE  Successive(Stream')
    <3> DEFINE m == Message(Requests + 1, k)
               i == Requests + 1
    <3>1. sent \in Seq(Pieces) /\ Stream = sent
      BY <2>2, TypeParts, EmptyAdds DEF Streamed, Stream
    <3>2. /\ m \in Seq(Pieces) /\ Len(m) = Size(k) /\ Size(k) \in Nat
          /\ \A p \in 1 .. Size(k) :
              /\ m[p].id = i
              /\ m[p].part = IF p = 1 THEN "head" ELSE IF p = 2 THEN "tail" ELSE "body"
      BY <2>2, SizeAssumption, MessageParts
    <3> HIDE DEF m
    <3>3. /\ Len(sent) \in Nat /\ DOMAIN sent = 1 .. Len(sent)
          /\ DOMAIN Cat(sent, m) = 1 .. Len(sent) + Len(m)
          /\ \A p \in 1 .. Len(sent) : Cat(sent, m)[p] = sent[p]
          /\ \A p \in 1 .. Len(m) : Cat(sent, m)[Len(sent) + p] = m[p]
      BY <3>1, <3>2, CatParts
    <3> DEFINE s == Cat(sent, m)
               l == Len(sent)
    <3>4. l = 0 => Requests = 0
      BY <3>1, EmptySeq DEF Requests
    <3>5. l > 0 => Requests = sent[l].id
      BY <3>1, EmptySeq DEF Requests
    <3>6. Requests \in Nat
      BY RequestsCounted, SizeAssumption
    <3> SUFFICES ASSUME NEW h \in DOMAIN s, s[h].part = "head"
                 PROVE  s[h].id = IF h = 1 THEN 1 ELSE s[h - 1].id + 1
      BY <2>2 DEF Successive, HeadAt, m
    <3>7. CASE h \in 1 .. l
      <4>1. s[h] = sent[h] /\ h \in DOMAIN sent
        BY <3>3, <3>7
      <4>2. sent[h].id = IF h = 1 THEN 1 ELSE sent[h - 1].id + 1
        BY <3>1, <4>1 DEF Successive, HeadAt
      <4>3. h # 1 => s[h - 1] = sent[h - 1]
        BY <3>3, <3>7
      <4> QED
        BY <4>1, <4>2, <4>3
    <3>8. CASE h \in l + 1 .. l + Len(m)
      <4>1. h - l \in 1 .. Len(m) /\ l + (h - l) = h
        BY <3>2, <3>3, <3>8
      <4>2. s[h] = m[h - l]
        BY <3>3, <4>1
      <4>3. h - l = 1 /\ s[h].id = i
        BY <3>2, <4>1, <4>2
      <4>4. h = l + 1
        BY <3>3, <4>3
      <4>5. CASE l = 0
        BY <3>4, <4>3, <4>4, <4>5
      <4>6. CASE l > 0
        <5>1. h # 1 /\ h - 1 = l /\ l \in 1 .. l
          BY <3>3, <4>4, <4>6
        <5>2. s[h - 1] = sent[l]
          BY <3>3, <5>1
        <5> QED
          BY <3>5, <4>3, <4>6, <5>1, <5>2
      <4> QED
        BY <3>3, <4>5, <4>6
    <3> QED
      BY <3>2, <3>3, <3>7, <3>8
  <2> QED
    BY <1>1, <2>1, <2>2, StreamGrows
<1>2. CASE UNCHANGED <<sent, rest>>
  BY <1>2 DEF Stream
<1> QED
  BY <1>1, <1>2 DEF Next, Peer, Job, Parse, Handle, Write, Drain, PeerGoes, ReadHeader,
    ParseRequest, ParseFails, NoMoreRequests, HandlerReads, DrainReads, ReadBody, Drained,
    DrainFails, HandlerResponds, Respond, RespondRaises, Send, SendFails, SendRaises, Chunk,
    Finish, HandlerReturns, HandlerRaises, HandlerCloses, HandleError, peers, vars

\* How many requests have been answered.
Replies == Cardinality(Answers)

\* What a write adds to the answers.
LEMMA AnswersGrow ==
  ASSUME wire \in Seq(Wires), NEW f \in Seq(Wires), Len(f) > 0,
         \A p \in DOMAIN f : p > 1 => f[p].part # "head",
         \A k \in 1 .. Replies : Kth(Answers, k) \in Answers,
         wire' = wire \o f
  PROVE  /\ Replies \in Nat
         /\ Replies' = IF f[1].part = "head" THEN Replies + 1 ELSE Replies
         /\ \A k \in 1 .. Replies :
              /\ Kth(Answers', k) \in Answers'
              /\ wire'[Kth(Answers', k)].id = wire[Kth(Answers, k)].id
         /\ f[1].part = "head" => /\ Kth(Answers', Replies + 1) \in Answers'
                                  /\ wire'[Kth(Answers', Replies + 1)].id = f[1].id
<1> DEFINE n == Len(wire)
<1>1. /\ n \in Nat /\ DOMAIN wire = 1..n /\ Len(f) \in Nat
      /\ wire' \in Seq(Wires) /\ wire'[n + 1] = f[1] /\ \A p \in 1..n : wire'[p] = wire[p]
  <2>1. /\ n \in Nat /\ DOMAIN wire = 1..n /\ Len(f) \in Nat
    BY LenProperties
  <2>2. /\ wire' \in Seq(Wires)
        /\ \A k \in 1 .. n + Len(f) : wire'[k] = IF k <= n THEN wire[k] ELSE f[k - n]
    BY ConcatProperties
  <2>3. n + 1 \in 1 .. n + Len(f) /\ ~(n + 1 <= n) /\ n + 1 - n = 1
    BY <2>1
  <2> QED
    BY <2>1, <2>2, <2>3
<1>2. Answers = Where(wire, "head") /\ Answers' = Where(wire', "head")
  BY DEF Answers, Where
<1>3. /\ Answers \in SUBSET Nat /\ IsFiniteSet(Answers) /\ \A p \in Answers : p < n + 1
      /\ Replies \in Nat
  BY <1>2, WhereFinite DEF Replies
<1>4. Answers' = IF f[1].part = "head" THEN Answers \cup {n + 1} ELSE Answers
  <2>1. Where(wire \o f, "head") = IF f[1].part = "head"
                                   THEN Where(wire, "head") \cup {Len(wire) + 1}
                                   ELSE Where(wire, "head")
    BY WhereGrows
  <2> QED
    BY <1>2, <2>1
<1>5. \A p \in Answers : p \in 1..n
  BY <1>1, <1>2 DEF Where
<1>6. CASE f[1].part = "head"
  <2>1. n + 1 \in Nat /\ Answers' = Answers \cup {n + 1}
    BY <1>1, <1>4, <1>6
  <2>2. /\ Cardinality(Answers \cup {n + 1}) = Replies + 1
        /\ \A k \in 1 .. Replies : Kth(Answers \cup {n + 1}, k) = Kth(Answers, k)
        /\ Kth(Answers \cup {n + 1}, Replies + 1) = n + 1
    BY <1>3, <2>1, KthGrows DEF Replies
  <2>3. Replies' = Replies + 1
    BY <2>1, <2>2 DEF Replies
  <2>4. ASSUME NEW k \in 1 .. Replies
        PROVE  /\ Kth(Answers', k) \in Answers'
               /\ wire'[Kth(Answers', k)].id = wire[Kth(Answers, k)].id
    BY <1>1, <1>5, <2>1, <2>2
  <2>5. /\ Kth(Answers', Replies + 1) \in Answers'
        /\ wire'[Kth(Answers', Replies + 1)].id = f[1].id
    BY <1>1, <2>1, <2>2
  <2> QED
    BY <1>3, <1>6, <2>3, <2>4, <2>5
<1>7. CASE f[1].part # "head"
  <2>1. Answers' = Answers
    BY <1>4, <1>7
  <2>2. ASSUME NEW k \in 1 .. Replies
        PROVE  /\ Kth(Answers', k) \in Answers'
               /\ wire'[Kth(Answers', k)].id = wire[Kth(Answers, k)].id
    BY <1>1, <1>5, <2>1
  <2>3. Replies' = Replies
    BY <2>1 DEF Replies
  <2> QED
    BY <1>3, <1>7, <2>2, <2>3
<1> QED
  BY <1>6, <1>7

\* What is to be written is part of the response to the request at hand, and its
\* head comes first; nothing is to be written to a client that is closed.
Ready ==
  /\ out # <<>> => pc = "respond" /\ ~closed
  /\ \A p \in DOMAIN out : out[p].id = req.id /\ (p > 1 => out[p].part = "body")
  /\ pc = "respond" => req.responded
  /\ pc = "drain" => req.responded \/ miscounted
  /\ \A k \in 1 .. Replies : Kth(Answers, k) \in Answers

\* A write takes the beginning of what is to be written.
LEMMA SendEffect ==
  ASSUME TypeOK, Ready, Send
  PROVE  /\ out # <<>> /\ pc = "respond" /\ ~closed /\ req.responded
         /\ \A p \in DOMAIN out' : out'[p].id = req.id /\ out'[p].part = "body"
         /\ \E f \in Seq(Wires) :
              /\ wire' = wire \o f /\ Len(f) > 0 /\ f[1] = out[1] /\ out[1].id = req.id
              /\ \A p \in DOMAIN f : p > 1 => f[p].part # "head"
<1>1. PICK n \in 1..Len(out) : wire' = wire \o First(out, n) /\ out' = Unsent(n)
  BY DEF Send
<1>2. /\ out \in Seq(Wires) /\ Len(out) \in Nat /\ n \in 1 .. Len(out)
      /\ DOMAIN out = 1 .. Len(out) /\ Least(n, Len(out)) = n /\ n \in 0 .. Len(out)
  BY <1>1, TypeParts, LenProperties DEF Written, Least
<1> DEFINE f == SubSeq(out, 1, n)
           r == SubSeq(out, n + 1, Len(out))
<1>3. /\ f \in Seq(Wires) /\ Len(f) = n /\ \A p \in 1..n : f[p] = out[p]
      /\ r \in Seq(Wires) /\ Len(r) = Len(out) - n /\ \A p \in 1 .. Len(out) - n : r[p] = out[n + p]
  <2>1. /\ f \in Seq(Wires) /\ r \in Seq(Wires) /\ f \o r = out /\ Len(f) = n
        /\ Len(r) = Len(out) - n
    BY <1>2, CutAt
  <2> HIDE DEF f, r
  <2>2. \A p \in 1 .. Len(f) + Len(r) : (f \o r)[p] = IF p <= Len(f) THEN f[p] ELSE r[p - Len(f)]
    BY <2>1, ConcatProperties
  <2>3. ASSUME NEW p \in 1 .. n PROVE f[p] = out[p]
    BY <1>2, <2>1, <2>2
  <2>4. ASSUME NEW p \in 1 .. Len(out) - n PROVE r[p] = out[n + p]
    <3>1. n + p \in 1 .. Len(f) + Len(r) /\ ~(n + p <= Len(f)) /\ n + p - Len(f) = p
      BY <1>2, <2>1
    <3> QED
      BY <2>1, <2>2, <3>1
  <2> QED
    BY <2>1, <2>3, <2>4
<1>4. wire' = wire \o f /\ out' = r
  BY <1>1, <1>2 DEF First, Unsent
<1> HIDE DEF f, r
<1>5. DOMAIN f = 1..n /\ DOMAIN r = 1 .. Len(out) - n
  BY <1>3, LenProperties
<1>6. \A p \in 1 .. Len(out) : out[p].id = req.id /\ (p > 1 => out[p].part = "body")
  BY <1>2 DEF Ready
<1>7. ASSUME NEW p \in DOMAIN r PROVE r[p].id = req.id /\ r[p].part = "body"
  <2>1. n + p \in 1 .. Len(out) /\ n + p > 1 /\ r[p] = out[n + p]
    BY <1>2, <1>3, <1>5
  <2> QED
    BY <1>6, <2>1
<1>8. Len(f) > 0 /\ f[1] = out[1] /\ out[1].id = req.id
  BY <1>2, <1>3, <1>6
<1>9. ASSUME NEW p \in DOMAIN f, p > 1 PROVE f[p].part # "head"
  <2>1. f[p] = out[p] /\ p \in 1 .. Len(out)
    BY <1>2, <1>3, <1>5
  <2> QED
    BY <1>6, <1>9, <2>1
<1>10. out # <<>>
  BY <1>2, EmptySeq
<1>11. pc = "respond" /\ ~closed /\ req.responded
  BY <1>10 DEF Ready, Send
<1> QED
  BY <1>3, <1>4, <1>7, <1>8, <1>9, <1>10, <1>11

LEMMA ReadyStep ==
  ASSUME TypeOK, Ready, [Next]_vars
  PROVE  Ready'
<1>0. /\ Handled /\ Written /\ Flags /\ DOMAIN <<>> = {}
  BY TypeParts DEF Handled
<1>1. wire' = wire => \A k \in 1 .. Replies' : Kth(Answers', k) \in Answers'
  BY DEF Ready, Replies, Answers
<1>2. ASSUME out = <<>>, UNCHANGED <<out, wire>>,
             pc' = "respond" => req'.responded,
             pc' = "drain" => req'.responded \/ miscounted'
      PROVE  Ready'
  <2>1. DOMAIN out' = {}
    BY <1>0, <1>2
  <2> QED
    BY <1>1, <1>2, <2>1, Zenon DEF Ready
<1>3. CASE PeerSends \/ PeerGoes \/ UNCHANGED vars
  BY <1>1, <1>3 DEF PeerSends, PeerGoes, vars, response, history, conn, Ready
<1>4. CASE ReadHeader \/ ParseFails \/ NoMoreRequests
  <2>1. out = <<>>
    BY <1>4 DEF ReadHeader, ParseFails, NoMoreRequests, Ready
  <2>2. UNCHANGED <<out, wire>> /\ pc' \in {"parse", "done"}
    BY <1>4 DEF ReadHeader, ParseFails, NoMoreRequests, response
  <2> QED
    BY <1>2, <2>1, <2>2
<1>5. CASE ParseRequest
  BY <1>2, <1>5 DEF ParseRequest, response, Ready
<1>6. ASSUME NEW fails \in {"caught", "done"}, ReadBody(fails), pc \in {"handler", "drain"}
      PROVE  Ready'
  <2>1. /\ out = <<>> /\ UNCHANGED <<out, wire, miscounted>>
        /\ pc' \in {"caught", "done"} \/ pc' = pc
        /\ req' = [req EXCEPT !.left = @ - Len(Data(req.left))]
    BY <1>6 DEF ReadBody, response, history, Ready
  <2>2. req'.responded = req.responded
    BY <1>0, <2>1 DEF Handled
  <2>3. pc' # "respond" /\ (pc' = "drain" => pc = "drain")
    BY <1>6, <2>1
  <2> QED
    BY <1>2, <2>1, <2>2, <2>3 DEF Ready
<1>7. CASE HandlerReads \/ DrainReads
  BY <1>6, <1>7 DEF HandlerReads, DrainReads
<1>8. CASE Drained
  BY <1>2, <1>8 DEF Drained, response, Ready
<1>9. ASSUME NEW shape \in Shapes, NEW back \in {"handler", "drain"}, Respond(shape, back),
             pc \in {"handler", "caught"}
      PROVE  Ready'
  <2> DEFINE head == [id |-> req.id, part |-> "head"]
             body == [id |-> req.id, part |-> "body"]
  <2>1. req' = [req EXCEPT !.responded = TRUE]
    BY <1>9 DEF Respond
  <2>2. req'.responded /\ req'.id = req.id
    BY <1>0, <2>1 DEF Handled
  <2>3. UNCHANGED <<wire, closed>> /\ out = <<>>
    BY <1>9 DEF Respond, conn, Ready
  <2>4. CASE closed
    <3>1. out' = <<>>
      BY <1>9, <2>4 DEF Respond
    <3> QED
      BY <1>2, <2>2, <2>3, <3>1
  <2>5. CASE ~closed
    <3>1. pc' = "respond" /\ (out' = <<head, body>> \/ out' = <<head>>)
      BY <1>9, <2>5 DEF Respond
    <3>2. \A p \in DOMAIN out' : out'[p].id = req.id /\ (p > 1 => out'[p].part = "body")
      <4>1. CASE out' = <<head, body>>
        <5>1. DOMAIN out' = 1..2 /\ out'[1] = head /\ out'[2] = body
          BY <4>1
        <5> QED
          BY <5>1
      <4>2. CASE out' = <<head>>
        <5>1. DOMAIN out' = 1..1 /\ out'[1] = head
          BY <4>2
        <5> QED
          BY <5>1
      <4> QED
        BY <3>1, <4>1, <4>2
    <3> QED
      BY <1>1, <2>2, <2>3, <2>5, <3>1, <3>2 DEF Ready
  <2> QED
    BY <2>4, <2>5
<1>10. CASE HandlerResponds
  BY <1>9, <1>10 DEF HandlerResponds
<1>11. CASE HandleError
  <2>1. CASE Respond("sized", "drain")
    BY <1>9, <1>11, <2>1 DEF HandleError, Shapes
  <2>2. CASE /\ pc' = "drain" /\ miscounted' = (miscounted \/ ~req.responded)
             /\ UNCHANGED <<peers, conn, partial, req, response, taken, split, strayed, cut>>
    <3>1. out = <<>> /\ UNCHANGED <<out, wire, req>>
      BY <1>11, <2>2 DEF HandleError, response, Ready
    <3>2. req'.responded \/ miscounted'
      BY <2>2, <3>1
    <3> QED
      BY <1>2, <2>2, <3>1, <3>2
  <2> QED
    BY <1>11, <2>1, <2>2 DEF HandleError
<1>12. CASE RespondRaises \/ HandlerRaises \/ HandlerCloses
  <2>1. out = <<>> /\ UNCHANGED <<out, wire>> /\ pc' \in {"caught", "handler"}
    BY <1>12 DEF RespondRaises, HandlerRaises, HandlerCloses, response, Ready
  <2> QED
    BY <1>2, <2>1
<1>13. CASE HandlerReturns
  BY <1>2, <1>13 DEF HandlerReturns, response, Ready
<1>14. CASE Send
  <2>1. PICK f \in Seq(Wires) :
          /\ wire' = wire \o f /\ Len(f) > 0 /\ f[1] = out[1] /\ out[1].id = req.id
          /\ \A p \in DOMAIN f : p > 1 => f[p].part # "head"
    BY <1>14, SendEffect
  <2>2. /\ pc = "respond" /\ ~closed /\ req.responded
        /\ \A p \in DOMAIN out' : out'[p].id = req.id /\ out'[p].part = "body"
    BY <1>14, SendEffect
  <2>3. UNCHANGED <<pc, closed, req>>
    BY <1>14 DEF Send, conn
  <2>4. \A k \in 1 .. Replies' : Kth(Answers', k) \in Answers'
    <3>1. \A k \in 1 .. Replies : Kth(Answers, k) \in Answers
      BY DEF Ready
    <3>2. wire \in Seq(Wires)
      BY <1>0 DEF Written
    <3>3. /\ Replies \in Nat
          /\ Replies' = IF f[1].part = "head" THEN Replies + 1 ELSE Replies
          /\ \A k \in 1 .. Replies : Kth(Answers', k) \in Answers'
          /\ f[1].part = "head" => Kth(Answers', Replies + 1) \in Answers'
      BY <2>1, <3>1, <3>2, AnswersGrow
    <3> QED
      BY <3>3
  <2> QED
    BY <2>2, <2>3, <2>4 DEF Ready
<1>15. CASE SendFails
  <2>1. out' = <<>> /\ wire' = wire /\ req' = req /\ pc' \in {"respond", "killed"} /\ req.responded
    BY <1>15 DEF SendFails, Ready
  <2>2. DOMAIN out' = {}
    BY <1>0, <2>1
  <2> QED
    BY <1>1, <2>1, <2>2 DEF Ready
<1>16. CASE Chunk
  <2>1. UNCHANGED <<req, wire, closed>> /\ req.responded /\ pc = "respond" /\ out = <<>>
    BY <1>16 DEF Chunk, conn, Ready
  <2>2. CASE out' = out
    BY <1>2, <2>1, <2>2
  <2>3. CASE ~closed /\ out' = <<[id |-> req.id, part |-> "body"]>> /\ pc' = pc
    <3>1. DOMAIN out' = 1..1 /\ out'[1] = [id |-> req.id, part |-> "body"]
      BY <2>3
    <3>2. \A p \in DOMAIN out' : out'[p].id = req.id /\ out'[p].part = "body"
      BY <3>1
    <3> QED
      BY <1>1, <2>1, <2>3, <3>2 DEF Ready
  <2> QED
    BY <1>16, <2>2, <2>3 DEF Chunk
<1>17. CASE Finish
  BY <1>2, <1>17 DEF Finish, Ready
<1>18. CASE SendRaises
  <2>1. /\ out' = <<>> /\ wire' = wire /\ req' = req /\ pc' \in {"drain", "caught"}
        /\ req.responded
    BY <1>18 DEF SendRaises, Ready
  <2>2. DOMAIN out' = {}
    BY <1>0, <2>1
  <2> QED
    BY <1>1, <2>1, <2>2 DEF Ready
<1>19. CASE DrainFails
  <2>1. out = <<>> /\ UNCHANGED <<out, wire>> /\ pc' = "done"
    BY <1>19 DEF DrainFails, response, Ready
  <2> QED
    BY <1>2, <2>1
<1> QED
  BY <1>3, <1>4, <1>5, <1>7, <1>8, <1>10, <1>11, <1>12, <1>13, <1>14, <1>15, <1>16, <1>17,
     <1>18, <1>19
  DEF Next, Peer, Job, Parse, Handle, Write, Drain

\* Between two requests all that were taken are answered; within one, all but that
\* one, until the head of its response is sent.
Numbered == \A k \in 1 .. Replies : wire[Kth(Answers, k)].id = k
Before == Replies = IF taken = <<>> THEN 0 ELSE taken[Len(taken)].id
Owing == ~req.responded \/ (out # <<>> /\ out[1].part = "head")
During == req.id = IF Owing THEN Replies + 1 ELSE Replies
Agreed == ~split /\ ~strayed /\ ~cut /\ ~miscounted
Paid ==
  Agreed => /\ Numbered
            /\ ~closed => (pc = "parse" => Before) /\ (Handling => During)

LEMMA PaidStep ==
  ASSUME TypeOK, Flow, InStep, Successive(Stream), Ready, Paid, [Next]_vars
  PROVE  Paid'
<1>0. /\ Handled /\ Written /\ Flags /\ Streamed
  BY TypeParts
<1>1. wire' = wire => Replies' = Replies /\ (Numbered' <=> Numbered)
  BY DEF Replies, Numbered, Answers
\* Steps of the job within a request.
<1>2. ASSUME wire' = wire, Agreed' => Agreed, closed => closed', pc' # "parse",
             Handling' => Handling /\ req'.id = req.id /\ (Owing' <=> Owing)
      PROVE  Paid'
  <2>1. Replies' = Replies /\ (Numbered' <=> Numbered)
    BY <1>1, <1>2
  <2>2. Handling' => (During' <=> During)
    BY <1>2, <2>1 DEF During
  <2> QED
    BY <1>2, <2>1, <2>2, Zenon DEF Paid
<1>3. ASSUME UNCHANGED <<wire, pc, taken, req, out, closed, split, strayed, cut,
                       miscounted>>
      PROVE  Paid'
  <2>1. Replies' = Replies /\ (Numbered' <=> Numbered)
    BY <1>1, <1>3
  <2>2. (Before' <=> Before) /\ (During' <=> During) /\ (Handling' <=> Handling)
    BY <1>3, <2>1 DEF Before, During, Owing, Handling
  <2>3. (Agreed' <=> Agreed) /\ (closed' <=> closed) /\ (pc' = "parse" <=> pc = "parse")
    BY <1>3, Zenon DEF Agreed
  <2> QED
    BY <2>1, <2>2, <2>3, Zenon DEF Paid
<1>4. CASE PeerSends \/ PeerGoes \/ UNCHANGED vars
  BY <1>3, <1>4 DEF PeerSends, PeerGoes, vars, response, history, conn
<1>5. CASE ReadHeader
  <2>1. /\ UNCHANGED <<wire, pc, taken>> /\ pc = "parse"
        /\ closed' = (closed \/ (buffer = <<>> /\ inflight = <<>>))
        /\ split' = (split \/ Missed(Data(Packet))) /\ UNCHANGED <<strayed, cut, miscounted>>
    BY <1>5 DEF ReadHeader, Receive, response
  <2>2. Replies' = Replies /\ (Numbered' <=> Numbered)
    BY <1>1, <2>1
  <2>3. (Before' <=> Before) /\ ~Handling'
    BY <2>1, <2>2 DEF Before, Handling
  <2>4. (Agreed' => Agreed) /\ (closed => closed') /\ pc = "parse" /\ pc' = "parse"
    BY <2>1, Zenon DEF Agreed
  <2> QED
    BY <2>2, <2>3, <2>4, Zenon DEF Paid
<1>6. CASE ParseRequest
  <2>1. /\ UNCHANGED <<wire, split, strayed, cut, miscounted>>
        /\ pc = "parse" /\ pc' = "handler" /\ ~closed
        /\ req' = Parsed(partial \o Data(Packet))
    BY <1>6 DEF ParseRequest, response, history
  <2>2. Replies' = Replies /\ (Numbered' <=> Numbered)
    BY <1>1, <2>1
  <2>3. Owing'
    <3>1. req'.responded = FALSE
      BY <2>1 DEF Parsed, NoRequest
    <3> QED
      BY <3>1 DEF Owing
  <2>4. ASSUME Agreed, Before PROVE req'.id = Replies + 1
    <3>1. ~split /\ ~strayed
      BY <2>4 DEF Agreed
    <3>2. Ordered(Stream) /\ Boundary(Stream, Len(taken))
      BY <2>1, <3>1 DEF InStep
    <3> DEFINE h == Len(taken) + 1
    <3>3. h \in DOMAIN Stream /\ HeadAt(Stream, h) /\ req'.id = Stream[h].id
      BY <1>6, <3>1, <3>2, RequestParsed
    <3>4. /\ Len(taken) \in Nat /\ \A p \in 1 .. Len(taken) : Stream[p] = taken[p]
      BY <3>1, TakenFirst
    <3>5. Stream[h].id = IF h = 1 THEN 1 ELSE Stream[h - 1].id + 1
      BY <3>3 DEF Successive
    <3>6. taken \in Seq(Pieces)
      BY <1>0 DEF Streamed
    <3>7. CASE taken = <<>>
      <4>1. h = 1
        BY <3>7, EmptySeq
      <4> QED
        BY <2>4, <3>3, <3>5, <3>7, <4>1 DEF Before
    <3>8. CASE taken # <<>>
      <4>1. h # 1 /\ h - 1 = Len(taken) /\ Len(taken) \in 1 .. Len(taken)
        BY <3>4, <3>6, <3>8, EmptySeq
      <4> QED
        BY <2>4, <3>3, <3>4, <3>5, <3>8, <4>1 DEF Before
    <3> QED
      BY <3>7, <3>8
  <2>5. Agreed /\ Before => During'
    BY <2>2, <2>3, <2>4 DEF During
  <2>6. (Agreed' <=> Agreed) /\ pc = "parse" /\ pc' # "parse" /\ ~closed
    BY <2>1 DEF Agreed
  <2> QED
    BY <2>2, <2>5, <2>6, Zenon DEF Paid
<1>7. CASE ParseFails \/ NoMoreRequests
  <2>1. wire' = wire /\ closed' /\ pc' = "done"
        /\ UNCHANGED <<split, strayed, cut, miscounted>>
    BY <1>7 DEF ParseFails, NoMoreRequests, response, history
  <2>2. (Agreed' => Agreed) /\ pc' # "parse" /\ ~Handling' /\ closed'
    BY <2>1 DEF Agreed, Handling
  <2> QED
    BY <1>2, <2>1, <2>2
<1>8. ASSUME NEW fails \in {"caught", "done"}, ReadBody(fails), pc \in {"handler", "drain"}
      PROVE  Paid'
  <2>1. /\ UNCHANGED <<out, wire, split, strayed, cut, miscounted>>
        /\ pc' \in {"caught", "done"} \/ pc' = pc
        /\ req' = [req EXCEPT !.left = @ - Len(Data(req.left))]
        /\ closed' = (closed \/ (buffer = <<>> /\ inflight = <<>>))
    BY <1>8 DEF ReadBody, response, history, Receive
  <2>2. req'.responded = req.responded /\ req'.id = req.id
    BY <1>0, <2>1 DEF Handled
  <2>3. (Agreed' => Agreed) /\ (closed => closed')
    BY <2>1, Zenon DEF Agreed
  <2>4. pc' # "parse" /\ Handling
    BY <1>8, <2>1 DEF Handling
  <2>5. Owing' <=> Owing
    BY <2>1, <2>2 DEF Owing
  <2> QED
    BY <1>2, <2>1, <2>2, <2>3, <2>4, <2>5
<1>9. CASE HandlerReads \/ DrainReads
  BY <1>8, <1>9 DEF HandlerReads, DrainReads
<1>10. CASE Drained
  <2>1. /\ UNCHANGED <<wire, taken, split, cut, miscounted, closed>>
        /\ pc = "drain" /\ pc' = "parse"
        /\ strayed' = (strayed \/ req.left > 0)
    BY <1>10 DEF Drained, response, conn
  <2>2. Replies' = Replies /\ (Numbered' <=> Numbered)
    BY <1>1, <2>1
  <2>3. ~miscounted => ~Owing
    BY <2>1 DEF Owing, Ready
  <2>4. Agreed' => Agreed
    BY <2>1, Zenon DEF Agreed
  <2>5. ASSUME Agreed, During PROVE Before'
    <3>1. BodiesTheirOwn /\ ~split /\ ~strayed
      BY <2>5, InStepOwn DEF Agreed
    <3>2. taken # <<>> /\ taken[Len(taken)].id = req.id
      BY <2>1, <3>1 DEF BodiesTheirOwn
    <3>3. req.id = Replies
      BY <2>3, <2>5 DEF During, Agreed
    <3> QED
      BY <2>1, <2>2, <3>2, <3>3 DEF Before
  <2>6. Handling /\ ~Handling' /\ (closed' <=> closed)
    BY <2>1 DEF Handling
  <2> QED
    BY <2>2, <2>4, <2>5, <2>6, Zenon DEF Paid
<1>11. ASSUME NEW shape \in Shapes, NEW back \in {"handler", "drain"}, Respond(shape, back),
              pc \in {"handler", "caught"}, ~req.responded, UNCHANGED miscounted
       PROVE  Paid'
  <2> DEFINE head == [id |-> req.id, part |-> "head"]
             body == [id |-> req.id, part |-> "body"]
  <2>1. req' = [req EXCEPT !.responded = TRUE] /\ UNCHANGED <<wire, closed, split, strayed, cut>>
    BY <1>11 DEF Respond, conn
  <2>2. req'.responded /\ req'.id = req.id
    BY <1>0, <2>1 DEF Handled
  <2>3. Agreed' => Agreed
    BY <1>11, <2>1 DEF Agreed
  <2>4. Owing /\ Handling
    BY <1>11 DEF Owing, Handling
  <2>5. CASE closed
    <3>1. closed' /\ pc' # "parse"
      BY <1>11, <2>1, <2>5 DEF Respond
    <3>2. Numbered' <=> Numbered
      BY <1>1, <2>1
    <3> QED
      BY <2>3, <3>1, <3>2, Zenon DEF Paid
  <2>6. CASE ~closed
    <3>1. pc' = "respond" /\ (out' = <<head, body>> \/ out' = <<head>>)
      BY <1>11, <2>6 DEF Respond
    <3>2. out' # <<>> /\ out'[1].part = "head"
      BY <3>1
    <3>3. Owing'
      BY <3>2 DEF Owing
    <3>4. pc' # "parse"
      BY <3>1
    <3> QED
      BY <1>2, <2>1, <2>2, <2>3, <2>4, <3>3, <3>4
  <2> QED
    BY <2>5, <2>6
<1>12. CASE HandlerResponds
  <2>1. CASE req.responded
    <3>1. miscounted'
      BY <1>12, <2>1 DEF HandlerResponds
    <3> QED
      BY <3>1 DEF Paid, Agreed
  <2>2. CASE ~req.responded
    <3>1. miscounted' = miscounted
      BY <1>0, <1>12, <2>2 DEF HandlerResponds, Flags
    <3> QED
      BY <1>11, <1>12, <2>2, <3>1 DEF HandlerResponds
  <2> QED
    BY <2>1, <2>2
<1>13. CASE HandleError
  <2>1. CASE ~req.responded /\ Respond("sized", "drain") /\ UNCHANGED miscounted
    BY <1>11, <1>13, <2>1 DEF HandleError, Shapes
  <2>2. CASE /\ pc' = "drain" /\ miscounted' = (miscounted \/ ~req.responded)
             /\ UNCHANGED <<peers, conn, partial, req, response, taken, split, strayed, cut>>
    <3>1. UNCHANGED <<wire, closed, req, out, split, strayed, cut>> /\ pc = "caught"
      BY <1>13, <2>2 DEF HandleError, response, conn
    <3>2. miscounted => miscounted'
      BY <2>2
    <3>3. Agreed' => Agreed
      BY <3>1, <3>2, Zenon DEF Agreed
    <3>4. (Owing' <=> Owing) /\ Handling
      BY <3>1 DEF Owing, Handling
    <3> QED
      BY <1>2, <2>2, <3>1, <3>3, <3>4
  <2> QED
    BY <1>13, <2>1, <2>2 DEF HandleError
\* A request that is not answered, and a response that is not whole.
<1>14. CASE RespondRaises \/ DrainFails \/ SendRaises
  <2>1. miscounted' \/ cut'
    BY <1>14 DEF RespondRaises, DrainFails, SendRaises
  <2> QED
    BY <2>1 DEF Paid, Agreed
<1>15. CASE HandlerRaises \/ HandlerReturns
  <2>1. /\ pc = "handler" /\ pc' \in {"caught", "drain"}
        /\ UNCHANGED <<conn, req, response, history>>
    BY <1>15 DEF HandlerRaises, HandlerReturns
  <2> QED
    BY <1>2, <2>1 DEF response, conn, history, Agreed, Handling, Owing
<1>16. CASE HandlerCloses
  <2>1. closed' /\ wire' = wire /\ UNCHANGED history /\ pc' # "parse"
    BY <1>16 DEF HandlerCloses, response
  <2>2. Numbered' <=> Numbered
    BY <1>1, <2>1
  <2>3. Agreed' => Agreed
    BY <2>1 DEF Agreed, history
  <2> QED
    BY <2>1, <2>2, <2>3, Zenon DEF Paid
<1>17. CASE Send
  <2>1. PICK f \in Seq(Wires) :
          /\ wire' = wire \o f /\ Len(f) > 0 /\ f[1] = out[1] /\ out[1].id = req.id
          /\ \A p \in DOMAIN f : p > 1 => f[p].part # "head"
    BY <1>17, SendEffect
  <2>2. /\ out # <<>> /\ pc = "respond" /\ ~closed /\ req.responded
        /\ \A p \in DOMAIN out' : out'[p].id = req.id /\ out'[p].part = "body"
    BY <1>17, SendEffect
  <2>3. UNCHANGED <<pc, closed, req, split, strayed, cut, miscounted>> /\ out' \in Seq(Wires)
    BY <1>0, <1>17, TypeStep, TypePartsNext DEF Send, conn, history, Written
  <2>4. /\ Replies \in Nat
        /\ Replies' = IF f[1].part = "head" THEN Replies + 1 ELSE Replies
        /\ \A k \in 1 .. Replies : wire'[Kth(Answers', k)].id = wire[Kth(Answers, k)].id
        /\ f[1].part = "head" => wire'[Kth(Answers', Replies + 1)].id = f[1].id
    <3>1. \A k \in 1 .. Replies : Kth(Answers, k) \in Answers
      BY DEF Ready
    <3>2. wire \in Seq(Wires)
      BY <1>0 DEF Written
    <3> QED
      BY <2>1, <3>1, <3>2, AnswersGrow
  <2>5. ~Owing'
    <3>1. out' # <<>> => out'[1].part = "body"
      <4>1. out' # <<>> => 1 \in DOMAIN out'
        BY <2>3, LenProperties, EmptySeq
      <4> QED
        BY <2>2, <4>1
    <3> QED
      BY <2>2, <2>3, <3>1 DEF Owing
  <2>6. Owing <=> f[1].part = "head"
    BY <2>1, <2>2 DEF Owing
  <2>7. During => During'
    BY <2>3, <2>4, <2>5, <2>6 DEF During
  <2>8. Numbered /\ During => Numbered'
    <3> SUFFICES ASSUME Numbered, During, NEW k \in 1 .. Replies'
                 PROVE  wire'[Kth(Answers', k)].id = k
      BY DEF Numbered
    <3>1. CASE k \in 1 .. Replies
      BY <2>4, <3>1 DEF Numbered
    <3>2. CASE k \notin 1 .. Replies
      <4>1. f[1].part = "head" /\ k = Replies + 1
        BY <2>4, <3>2
      <4> QED
        BY <2>1, <2>4, <2>6, <4>1 DEF During
    <3> QED
      BY <3>1, <3>2
  <2>9. (Agreed' <=> Agreed) /\ (closed' <=> closed) /\ ~closed /\ Handling /\ pc' # "parse"
    BY <2>2, <2>3 DEF Agreed, Handling
  <2> QED
    BY <2>7, <2>8, <2>9, Zenon DEF Paid
<1>18. CASE SendFails
  <2>1. closed' /\ wire' = wire /\ UNCHANGED history
    BY <1>18 DEF SendFails
  <2>2. Numbered' <=> Numbered
    BY <1>1, <2>1
  <2>3. Agreed' => Agreed
    BY <2>1 DEF Agreed, history
  <2> QED
    BY <2>1, <2>2, <2>3, Zenon DEF Paid
<1>19. CASE Chunk
  <2>1. CASE cut'
    BY <2>1 DEF Paid, Agreed
  <2>2. CASE ~cut'
    <3>1. /\ out' = <<[id |-> req.id, part |-> "body"]>> /\ out = <<>> /\ pc = "respond"
          /\ UNCHANGED <<pc, cut, req, wire, closed, split, strayed, miscounted>>
      BY <1>19, <2>2 DEF Chunk, conn
    <3>2. req.responded
      BY <3>1 DEF Ready
    <3>3. out'[1].part = "body"
      BY <3>1
    <3>4. ~Owing /\ ~Owing'
      BY <3>1, <3>2, <3>3 DEF Owing
    <3>5. (Agreed' => Agreed) /\ Handling /\ pc' # "parse"
      BY <3>1 DEF Agreed, Handling
    <3> QED
      BY <1>2, <3>1, <3>4, <3>5
  <2> QED
    BY <2>1, <2>2
<1>20. CASE Finish
  <2>1. /\ pc = "respond" /\ pc' = res.back
        /\ UNCHANGED <<req, out, wire, split, strayed, cut, miscounted>>
        /\ closed' = (closed \/ res.shape \in {"raw", "bare"})
    BY <1>20 DEF Finish, history
  <2>2. pc' # "parse" /\ Handling
    BY <1>0, <2>1 DEF Written, Handling
  <2>3. (Agreed' => Agreed) /\ (closed => closed') /\ (Owing' <=> Owing)
    BY <2>1 DEF Agreed, Owing
  <2> QED
    BY <1>2, <2>1, <2>2, <2>3
<1> QED
  BY <1>4, <1>5, <1>6, <1>7, <1>9, <1>10, <1>12, <1>13, <1>14, <1>15, <1>16, <1>17, <1>18,
     <1>19, <1>20
  DEF Next, Peer, Job, Parse, Handle, Write, Drain

\* The requests answered, as HttpExchange sees them.
RepliesIn(w) ==
  [k \in 1 .. Cardinality(Where(w, "head")) |-> w[Kth(Where(w, "head"), k)].id]
Replied == [k \in 1 .. Cardinality(Answers) |-> wire[Kth(Answers, k)].id]

LEMMA RepliesTyped ==
  ASSUME NEW w \in Seq(Wires),
         \A k \in 1 .. Cardinality(Where(w, "head")) :
           Kth(Where(w, "head"), k) \in Where(w, "head")
  PROVE  /\ RepliesIn(w) \in Seq(Nat) /\ Len(RepliesIn(w)) = Cardinality(Where(w, "head"))
         /\ Cardinality(Where(w, "head")) \in Nat
<1> DEFINE n == Cardinality(Where(w, "head"))
           r == RepliesIn(w)
<1>1. n \in Nat
  BY WhereFinite
<1>2. ASSUME NEW k \in 1 .. n PROVE w[Kth(Where(w, "head"), k)].id \in Nat
  <2>1. Kth(Where(w, "head"), k) \in DOMAIN w
    BY DEF Where
  <2>2. w[Kth(Where(w, "head"), k)] \in Wires
    BY <2>1, ElementOfSeq, LenProperties
  <2> QED
    BY <2>2, SizeAssumption DEF Wires
<1>3. r = [k \in 1 .. n |-> w[Kth(Where(w, "head"), k)].id]
  BY DEF RepliesIn
<1> HIDE DEF n, r
<1>4. r \in [1 .. n -> Nat] /\ DOMAIN r = 1 .. n
  BY <1>2, <1>3 DEF n
<1>5. r \in Seq(Nat)
  BY <1>1, <1>4, SeqDef
<1>6. Len(r) = n
  BY <1>1, <1>4, <1>5, LenProperties
<1> QED
  BY <1>1, <1>5, <1>6 DEF n, r

LEMMA RepliedTyped ==
  ASSUME TypeOK, TypeOK', Ready, Ready'
  PROVE  /\ Replied \in Seq(Nat) /\ Len(Replied) = Replies /\ Replies \in Nat
         /\ Replied' \in Seq(Nat) /\ Len(Replied') = Replies'
<1>1. wire \in Seq(Wires) /\ wire' \in Seq(Wires)
  BY TypeParts, TypePartsNext DEF Written
<1>2. Answers = Where(wire, "head") /\ Answers' = Where(wire', "head")
  BY DEF Answers, Where
<1>3. /\ Replies = Cardinality(Where(wire, "head"))
      /\ Replies' = Cardinality(Where(wire', "head"))
      /\ Replied = RepliesIn(wire) /\ Replied' = RepliesIn(wire')
  BY <1>2 DEF Replies, Replied, RepliesIn
<1>4. /\ \A k \in 1 .. Cardinality(Where(wire, "head")) :
           Kth(Where(wire, "head"), k) \in Where(wire, "head")
      /\ \A k \in 1 .. Cardinality(Where(wire', "head")) :
           Kth(Where(wire', "head"), k) \in Where(wire', "head")
  BY <1>2, <1>3 DEF Ready
<1> QED
  BY <1>1, <1>3, <1>4, RepliesTyped

\* What is sent of a response answers its request once.
LEMMA SendMapped ==
  ASSUME TypeOK, TypeOK', Ready, Ready', Send
  PROVE  \/ Replied' = Replied
         \/ Owing /\ Replied' = Append(Replied, req.id)
<1>1. PICK f \in Seq(Wires) :
        /\ wire' = wire \o f /\ Len(f) > 0 /\ f[1] = out[1] /\ out[1].id = req.id
        /\ \A p \in DOMAIN f : p > 1 => f[p].part # "head"
  BY SendEffect
<1>2. out # <<>>
  BY SendEffect
<1>3. /\ Replies' = IF f[1].part = "head" THEN Replies + 1 ELSE Replies
      /\ \A k \in 1 .. Replies : wire'[Kth(Answers', k)].id = wire[Kth(Answers, k)].id
      /\ f[1].part = "head" => wire'[Kth(Answers', Replies + 1)].id = f[1].id
  <2>1. \A k \in 1 .. Replies : Kth(Answers, k) \in Answers
    BY DEF Ready
  <2>2. wire \in Seq(Wires)
    BY TypeParts DEF Written
  <2> QED
    BY <1>1, <2>1, <2>2, AnswersGrow
<1>4. Replied \in Seq(Nat) /\ Len(Replied) = Replies /\ Replies \in Nat
  BY RepliedTyped
<1>5. Replied' \in Seq(Nat) /\ Len(Replied') = Replies'
  BY RepliedTyped
<1>6. \A k \in 1 .. Replies : Replied[k] = wire[Kth(Answers, k)].id
  BY DEF Replied, Replies
<1>7. \A k \in 1 .. Replies' : Replied'[k] = wire'[Kth(Answers', k)].id
  BY DEF Replied, Replies
<1>8. CASE f[1].part = "head"
  <2>1. req.id \in Nat
    BY TypeParts, SizeAssumption DEF Handled
  <2> DEFINE a == Append(Replied, req.id)
  <2>2. /\ a \in Seq(Nat) /\ Len(a) = Replies + 1 /\ a[Replies + 1] = req.id
        /\ \A k \in 1 .. Replies : a[k] = Replied[k]
    BY <1>4, <2>1, AppendProperties
  <2> HIDE DEF a
  <2>3. ASSUME NEW k \in 1 .. Replies + 1 PROVE Replied'[k] = a[k]
    <3>1. CASE k \in 1 .. Replies
      BY <1>3, <1>4, <1>6, <1>7, <1>8, <2>2, <3>1
    <3>2. CASE k = Replies + 1
      BY <1>1, <1>3, <1>4, <1>7, <1>8, <2>2, <3>2
    <3> QED
      BY <1>4, <3>1, <3>2
  <2>4. Replied' = a
    BY <1>3, <1>5, <1>8, <2>2, <2>3, SeqEqual
  <2> QED
    BY <1>1, <1>2, <1>8, <2>4 DEF a, Owing
<1>9. CASE f[1].part # "head"
  <2>1. \A k \in 1 .. Replies : Replied'[k] = Replied[k]
    BY <1>3, <1>6, <1>7, <1>9
  <2>2. Replied' = Replied
    BY <1>3, <1>4, <1>5, <1>9, <2>1, SeqEqual
  <2> QED
    BY <2>2
<1> QED
  BY <1>8, <1>9

LEMMA InitMapped == Init => Exchange!Init
<1> SUFFICES ASSUME Init PROVE Exchange!Init
  OBVIOUS
<1>1. DOMAIN <<>> = {} /\ <<>> \in Seq(Wires)
  BY EmptySeq
<1>2. Arrivals = {} /\ Answers = {}
  BY <1>1 DEF Init, Arrivals, Answers
<1>3. Cardinality(Arrivals) = 0 /\ Cardinality(Answers) = 0
  BY <1>2, FS_EmptySet
<1>4. Replied = <<>>
  <2>1. Replied = [k \in {} |-> wire[Kth(Answers, k)].id]
    <3>1. 1 .. Cardinality(Answers) = {}
      BY <1>3
    <3> QED
      BY <3>1, Zenon DEF Replied
  <2>2. DOMAIN Replied = 1 .. 0 /\ Replied \in [1 .. 0 -> Nat]
    BY <2>1
  <2>3. Replied \in Seq(Nat)
    BY <2>2, SeqDef
  <2>4. Len(Replied) = 0
    BY <2>2, <2>3, LenProperties
  <2> QED
    BY <2>3, <2>4, EmptySeq
<1>5. ~closed /\ (~split /\ ~strayed /\ ~cut /\ ~miscounted)
  BY DEF Init
<1> QED
  BY <1>3, <1>4, <1>5 DEF Exchange!Init, Replied

\* Every request that is answered has arrived.
LEMMA RepliedArrived ==
  ASSUME TypeOK, Flow, InStep, Counted, ~split, ~strayed, Handling
  PROVE  req.id <= Cardinality(Arrivals)
<1>1. PICK h \in DOMAIN Stream :
        /\ HeadAt(Stream, h) /\ Stream[h].id = req.id /\ Stream[h].kind = req.kind
        /\ Len(taken) + req.left = h + Size(req.kind) - 1
        /\ req.left <= Size(req.kind) - 2
  BY DEF InStep
<1>2. /\ Len(taken) \in Nat /\ DOMAIN Stream = 1 .. Len(Stream) /\ Len(Stream) \in Nat
      /\ \A p \in 1 .. Len(taken) : Stream[p] = taken[p]
  BY TakenFirst
<1>3. req.left \in Nat /\ Size(req.kind) \in Nat /\ Size(req.kind) >= 2
  BY TypeParts, SizeAssumption, Sizes DEF Handled
<1>4. h + 1 \in 1 .. Len(taken) /\ h + 1 \in h + 1 .. h + Size(req.kind) - 1
  BY <1>1, <1>2, <1>3
<1>5. Stream[h + 1].id = req.id /\ Stream[h + 1].part = "tail"
  <2>1. MessageAt(Stream, h)
    BY <1>1 DEF InStep, Ordered
  <2> QED
    BY <1>1, <1>4, <2>1 DEF MessageAt
<1>6. /\ sent \in Seq(Pieces) /\ Len(sent) \in Nat /\ Len(sent) >= Len(taken)
      /\ DOMAIN sent = 1 .. Len(sent) /\ \A p \in 1 .. Len(taken) : sent[p] = taken[p]
  <2>1. /\ taken \in Seq(Pieces) /\ partial \in Seq(Pieces) /\ buffer \in Seq(Pieces)
        /\ inflight \in Seq(Pieces) /\ sent \in Seq(Pieces)
    BY TypeParts DEF Streamed
  <2>2. Cat(Cat(Cat(taken, partial), buffer), inflight) = sent
    BY LostCat DEF Flow
  <2> DEFINE w == Cat(partial, Cat(buffer, inflight))
  <2>3. Cat(taken, w) = sent
    BY <2>1, <2>2, FourParts
  <2>4. w \in Seq(Pieces)
    <3>1. Cat(buffer, inflight) \in Seq(Pieces)
      BY <2>1, Associates
    <3> QED
      BY <2>1, <3>1, Associates
  <2> HIDE DEF w
  <2>5. /\ Len(taken) \in Nat /\ Len(w) \in Nat /\ Len(Cat(taken, w)) = Len(taken) + Len(w)
        /\ DOMAIN Cat(taken, w) = 1 .. Len(taken) + Len(w)
        /\ \A p \in 1 .. Len(taken) : Cat(taken, w)[p] = taken[p]
    BY <2>1, <2>4, CatParts
  <2> QED
    BY <2>1, <2>3, <2>5
<1>7. h + 1 \in Arrivals /\ sent[h + 1].id = req.id
  <2>1. sent[h + 1] = Stream[h + 1] /\ h + 1 \in DOMAIN sent
    BY <1>2, <1>4, <1>6
  <2> QED
    BY <1>5, <2>1 DEF Arrivals
<1> QED
  BY <1>7 DEF Counted

\* Every step of the connection is one of HttpExchange, or none.
LEMMA NextMapped ==
  ASSUME TypeOK, TypeOK', Flow, InStep, Counted, Ready, Ready', Paid, [Next]_vars
  PROVE  [Exchange!Next]_(Exchange!evars)
<1> DEFINE arrived == Cardinality(Arrivals)
<1>0. /\ Handled /\ Written /\ Flags /\ closed' \in BOOLEAN
  BY TypeParts, TypePartsNext DEF Flags
<1>1. /\ sent' = sent => arrived' = arrived
      /\ wire' = wire => Replied' = Replied
  BY DEF Arrivals, Replied, Answers
\* Steps that change none of it, that close the connection, that put the sides out
\* of step.
<1>2. ASSUME UNCHANGED <<arrived, Replied, closed>>, Agreed' <=> Agreed
      PROVE  UNCHANGED Exchange!evars
  <2>1. (~split' /\ ~strayed' /\ ~cut' /\ ~miscounted')
           = (~split /\ ~strayed /\ ~cut /\ ~miscounted)
    BY <1>2, Zenon DEF Agreed
  <2>2. (~closed') = (~closed)
    BY <1>2
  <2> QED
    BY <1>2, <2>1, <2>2, Zenon DEF Exchange!evars, Replied
<1>3. ASSUME UNCHANGED <<sent, wire>>, Agreed' <=> Agreed, closed => closed'
      PROVE  [Exchange!Next]_(Exchange!evars)
  <2>1. UNCHANGED <<arrived, Replied>>
    BY <1>1, <1>3
  <2>2. CASE closed' = closed
    BY <1>2, <1>3, <2>1, <2>2
  <2>3. CASE ~closed /\ closed'
    <3>1. (~split' /\ ~strayed' /\ ~cut' /\ ~miscounted')
             = (~split /\ ~strayed /\ ~cut /\ ~miscounted)
      BY <1>3, Zenon DEF Agreed
    <3>2. (~closed) /\ (~closed') = FALSE
      BY <2>3
    <3> QED
      BY <2>1, <3>1, <3>2, Zenon DEF Exchange!Next, Exchange!Close, Replied
  <2> QED
    BY <1>0, <1>3, <2>2, <2>3 DEF Flags
<1>4. ASSUME UNCHANGED <<sent, wire, closed>>, Agreed' => Agreed
      PROVE  [Exchange!Next]_(Exchange!evars)
  <2>1. UNCHANGED <<arrived, Replied>>
    BY <1>1, <1>4
  <2>2. CASE Agreed' <=> Agreed
    BY <1>2, <1>4, <2>1, <2>2
  <2>3. CASE Agreed /\ ~Agreed'
    <3>1. /\ (~split /\ ~strayed /\ ~cut /\ ~miscounted)
          /\ (~split' /\ ~strayed' /\ ~cut' /\ ~miscounted') = FALSE
      BY <2>3, Zenon DEF Agreed
    <3>2. (~closed') = (~closed)
      BY <1>4
    <3> QED
      BY <2>1, <3>1, <3>2, Zenon DEF Exchange!Next, Exchange!FallOut, Replied
  <2> QED
    BY <1>4, <2>2, <2>3
<1>5. CASE PeerSends
  <2>1. UNCHANGED <<wire, closed, split, strayed, cut, miscounted>>
    BY <1>5 DEF PeerSends, response, history
  <2>2. \/ Arrivals' = Arrivals
        \/ arrived' = arrived + 1
    <3>1. ASSUME NEW m \in Seq(Pieces), m # <<>>, Deliver(m)
          PROVE  Arrivals' = Arrivals \/ arrived' = arrived + 1
      <4>1. Head(m) \in Pieces /\ sent' = Append(sent, Head(m)) /\ sent \in Seq(Pieces)
        BY <3>1, HeadTailProperties, TypeParts DEF Deliver, Streamed
      <4> QED
        BY <4>1, OneArrives
    <3>2. ASSUME Requests < N, NEW k \in Kinds, Deliver(Message(Requests + 1, k))
          PROVE  Arrivals' = Arrivals \/ arrived' = arrived + 1
      <4>1. Requests + 1 \in 0 .. N
        BY <3>2, RequestsCounted, SizeAssumption
      <4> QED
        BY <3>1, <3>2, <4>1, Messages
    <3>3. rest \in Seq(Pieces)
      BY TypeParts DEF Streamed
    <3> QED
      BY <1>5, <3>1, <3>2, <3>3 DEF PeerSends
  <2>3. Replied' = Replied /\ (Agreed' <=> Agreed) /\ (~closed') = (~closed)
        /\ (~split' /\ ~strayed' /\ ~cut' /\ ~miscounted')
             = (~split /\ ~strayed /\ ~cut /\ ~miscounted)
    BY <1>1, <2>1 DEF Agreed
  <2>4. CASE Arrivals' = Arrivals
    BY <1>2, <2>1, <2>3, <2>4
  <2>5. CASE arrived' = arrived + 1
    BY <2>3, <2>5, Zenon DEF Exchange!Next, Exchange!Arrive, Replied
  <2> QED
    BY <2>2, <2>4, <2>5
<1>6. CASE PeerGoes \/ UNCHANGED vars
  <2>1. UNCHANGED <<sent, wire, closed, split, strayed, cut, miscounted>>
    BY <1>6 DEF PeerGoes, vars, peers, conn, response, history
  <2> QED
    BY <1>3, <2>1 DEF Agreed
<1>7. CASE ReadHeader
  <2>1. /\ UNCHANGED <<sent, wire, strayed, cut, miscounted>>
        /\ closed' = (closed \/ (buffer = <<>> /\ inflight = <<>>))
        /\ Data(Packet) # <<>> /\ split' = (split \/ Missed(Data(Packet))) /\ ~closed
    BY <1>7 DEF ReadHeader, Receive, peers, response
  <2>2. ~(buffer = <<>> /\ inflight = <<>>)
    <3>1. CASE buffer = <<>> /\ inflight = <<>>
      <4>1. Data(Packet) = First(<<>>, Packet)
        BY <2>1, <3>1 DEF Data
      <4>2. First(<<>>, Packet) = <<>>
        <5>1. Len(<<>>) = 0 /\ Least(Packet, 0) = 0
          BY SizeAssumption, EmptySeq DEF Least
        <5>2. SubSeq(<<>>, 1, 0) = <<>>
          BY SubSeqEmpty
        <5> QED
          BY <5>1, <5>2 DEF First
      <4> QED
        BY <2>1, <4>1, <4>2
    <3> QED
      BY <3>1
  <2>3. closed' = closed /\ (Agreed' => Agreed)
    <3>1. closed = FALSE /\ closed' = FALSE
      BY <1>0, <2>1, <2>2, Zenon DEF Flags
    <3> QED
      BY <2>1, <3>1 DEF Agreed
  <2> QED
    BY <1>4, <2>1, <2>3
<1>8. CASE ParseRequest
  <2>1. UNCHANGED <<sent, wire, split, strayed, cut, miscounted>>
        /\ closed' = (closed \/ (buffer = <<>> /\ inflight = <<>>))
    BY <1>8 DEF ParseRequest, Receive, peers, response, history
  <2> QED
    BY <1>3, <2>1 DEF Agreed
<1>9. CASE ParseFails \/ NoMoreRequests \/ HandlerCloses
  <2>1. UNCHANGED <<sent, wire, split, strayed, cut, miscounted>> /\ closed'
    BY <1>9 DEF ParseFails, NoMoreRequests, HandlerCloses, peers, response, history
  <2> QED
    BY <1>3, <2>1 DEF Agreed
<1>10. CASE HandlerReads \/ DrainReads
  <2>1. UNCHANGED <<sent, wire, split, strayed, cut, miscounted>>
        /\ closed' = (closed \/ (buffer = <<>> /\ inflight = <<>>))
    BY <1>10 DEF HandlerReads, DrainReads, ReadBody, Receive, peers, response, history
  <2> QED
    BY <1>3, <2>1 DEF Agreed
<1>11. CASE Drained
  <2>1. UNCHANGED <<peers, conn, response, split, cut, miscounted>>
        /\ strayed' = (strayed \/ req.left > 0)
    BY <1>11, Zenon DEF Drained
  <2>2. UNCHANGED <<sent, wire, closed>> /\ (Agreed' => Agreed)
    BY <2>1, Zenon DEF peers, conn, response, Agreed
  <2> QED
    BY <1>4, <2>2
<1>16. CASE RespondRaises \/ Chunk \/ SendRaises \/ DrainFails
  <2>1. UNCHANGED <<sent, wire, closed, split, strayed>>
    BY <1>16 DEF RespondRaises, Chunk, SendRaises, DrainFails, peers, conn, response
  <2>2. (cut => cut') /\ (miscounted => miscounted')
    BY <1>16 DEF RespondRaises, Chunk, SendRaises, DrainFails
  <2> QED
    BY <1>4, <2>1, <2>2 DEF Agreed
<1>12. CASE HandlerRaises \/ HandlerReturns
  <2>1. UNCHANGED <<sent, wire, closed, split, strayed, cut, miscounted>>
    BY <1>12 DEF HandlerRaises, HandlerReturns, peers, conn, response, history
  <2> QED
    BY <1>3, <2>1 DEF Agreed
<1>17. CASE HandlerResponds \/ HandleError
  <2>1. UNCHANGED <<sent, wire, closed, split, strayed, cut>>
    BY <1>17 DEF HandlerResponds, HandleError, Respond, peers, conn, response
  <2>2. miscounted => miscounted'
    BY <1>17 DEF HandlerResponds, HandleError
  <2> QED
    BY <1>4, <2>1, <2>2 DEF Agreed
<1>13. CASE Send
  <2>1. UNCHANGED <<sent, closed, split, strayed, cut, miscounted>>
    BY <1>13 DEF Send, peers, conn, history
  <2>2. ~closed /\ pc = "respond" /\ Handling
    BY <1>13, SendEffect DEF Handling
  <2>3. /\ Replied \in Seq(Nat) /\ Len(Replied) = Replies /\ Replies \in Nat
        /\ Replied' \in Seq(Nat)
    BY RepliedTyped
  <2>4. arrived' = arrived /\ (~closed') = (~closed)
        /\ (~split' /\ ~strayed' /\ ~cut' /\ ~miscounted')
             = (~split /\ ~strayed /\ ~cut /\ ~miscounted)
    BY <1>1, <2>1
  <2>5. CASE ~Agreed
    <3>1. ~(~split /\ ~strayed /\ ~cut /\ ~miscounted)
      BY <2>5 DEF Agreed
    <3> QED
      BY <2>2, <2>3, <2>4, <3>1, Zenon DEF Exchange!Next, Exchange!Guess, Replied
  <2>6. CASE Agreed /\ Replied' = Replied
    BY <1>2, <2>1, <2>4, <2>6 DEF Agreed
  <2>7. CASE Agreed /\ Owing /\ Replied' = Append(Replied, req.id)
    <3>1. During
      BY <2>2, <2>7 DEF Paid
    <3>2. req.id = Replies + 1 /\ req.id <= arrived
      BY <2>2, <2>7, <3>1, RepliedArrived DEF During, Agreed
    <3>3. Len(Replied) < arrived /\ req.id = Len(Replied) + 1
      <4>1. arrived \in Int
        <5>1. sent \in Seq(Pieces) /\ Arrivals = Where(sent, "tail")
          BY TypeParts DEF Streamed, Arrivals, Where
        <5> QED
          BY <5>1, WhereFinite
      <4> QED
        BY <2>3, <3>2, <4>1
    <3>4. (~split /\ ~strayed /\ ~cut /\ ~miscounted)
      BY <2>7 DEF Agreed
    <3> QED
      BY <2>2, <2>4, <2>7, <3>3, <3>4, Zenon DEF Exchange!Next, Exchange!Answer, Replied
  <2> QED
    BY <1>13, <2>5, <2>6, <2>7, SendMapped
<1>14. CASE SendFails
  <2>1. UNCHANGED <<sent, wire, split, strayed, cut, miscounted>> /\ closed'
    BY <1>14 DEF SendFails, peers, response, history
  <2> QED
    BY <1>3, <2>1 DEF Agreed
<1>15. CASE Finish
  <2>1. UNCHANGED <<sent, wire, split, strayed, cut, miscounted>> /\ (closed => closed')
    BY <1>15 DEF Finish, peers, response, history
  <2> QED
    BY <1>3, <2>1 DEF Agreed
<1> QED
  BY <1>5, <1>6, <1>7, <1>8, <1>9, <1>10, <1>11, <1>12, <1>13, <1>14, <1>15, <1>16,
     <1>17
  DEF Next, Peer, Job, Parse, Handle, Write, Drain

LEMMA InitAnswers == Init => Counted /\ Successive(Stream) /\ Ready /\ Paid
<1> SUFFICES ASSUME Init PROVE Counted /\ Successive(Stream) /\ Ready /\ Paid
  OBVIOUS
<1>1. DOMAIN <<>> = {} /\ <<>> \in Seq(Pieces)
  BY EmptySeq
<1>2. Arrivals = {} /\ Answers = {}
  BY <1>1 DEF Init, Arrivals, Answers
<1>3. Cardinality(Arrivals) = 0 /\ Replies = 0 /\ ~Midway /\ Requests = 0
  BY <1>2, FS_EmptySet DEF Replies, Midway, Requests, Init
<1>4. Counted
  BY <1>1, <1>2, <1>3 DEF Counted, Init
<1>5. Stream = <<>>
  <2>1. Cat(<<>>, <<>>) = <<>>
    BY <1>1, EmptyAdds
  <2> QED
    BY <2>1 DEF Init, Stream
<1>6. Successive(Stream)
  BY <1>1, <1>5 DEF Successive
<1>7. 1 .. 0 = {}
  OBVIOUS
<1>8. Ready
  BY <1>1, <1>3, <1>7 DEF Ready, Init
<1>9. Paid
  BY <1>3, <1>7 DEF Paid, Init, Numbered, Before, Handling
<1> QED
  BY <1>4, <1>6, <1>8, <1>9

-----------------------------------------------------------------------------
(* The theorems *)

ConnInv ==
  /\ TypeOK /\ EndsClosed /\ Flow /\ Whole /\ InStep
  /\ Counted /\ Successive(Stream) /\ Ready /\ Paid

LEMMA ConnInvariant == Spec => []ConnInv
<1>1. Init => ConnInv
  <2> SUFFICES ASSUME Init PROVE ConnInv
    OBVIOUS
  <2>1. TypeOK
    BY InitTyped
  <2>2. EndsClosed
    BY DEF Init, EndsClosed
  <2>3. <<>> \in Seq(Pieces) /\ <<>> \in Seq(Wires) /\ Len(<<>>) = 0 /\ Packet \in Nat
        /\ DOMAIN <<>> = {}
    BY EmptySeq, SizeAssumption
  <2>4. Flow
    <3>1. Cat(Cat(Cat(<<>>, <<>>), <<>>), <<>>) = <<>>
      BY <2>3, EmptyAdds
    <3>2. NothingLost
      BY <3>1, LostCat DEF Init
    <3>3. ~Complete(partial) /\ Len(buffer) <= Packet /\ pc = "parse"
      BY <2>3 DEF Init, Complete
    <3> QED
      BY <3>2, <3>3 DEF Flow
  <2>5. Whole
    <3>1. Cat(<<>>, <<>>) = <<>>
      BY <2>3, Catenation
    <3>2. Alternating(<<>>)
      BY <2>3 DEF Alternating
    <3>3. (0 + 0) % 2 = 0
      OBVIOUS
    <3>4. /\ wire = <<>> /\ out = <<>> /\ pc = "parse" /\ res.chunk = FALSE
      BY DEF Init, NoResponse
    <3> QED
      BY <2>3, <3>1, <3>2, <3>3, <3>4 DEF Whole, Parity
  <2>6. InStep
    <3>1. Cat(<<>>, <<>>) = <<>>
      BY <2>3, EmptyAdds
    <3>2. sent = <<>> /\ rest = <<>> /\ taken = <<>> /\ pc = "parse"
      BY DEF Init
    <3>3. Stream = <<>>
      BY <3>1, <3>2 DEF Stream
    <3>4. Ordered(<<>>) /\ Boundary(<<>>, 0)
      BY <2>3 DEF Ordered, HeadAt, Boundary
    <3> QED
      BY <2>3, <3>2, <3>3, <3>4 DEF InStep, Handling
  <2> QED
    BY <2>1, <2>2, <2>4, <2>5, <2>6, InitAnswers DEF ConnInv
<1>2. ConnInv /\ [Next]_vars => ConnInv'
  <2> SUFFICES ASSUME ConnInv, [Next]_vars PROVE ConnInv'
    OBVIOUS
  <2>1. TypeOK'
    BY TypeStep DEF ConnInv
  <2>2. EndsClosed'
    BY EndsStep DEF ConnInv
  <2>3. Flow'
    BY <2>1, FlowStep DEF ConnInv
  <2>4. Whole'
    BY <2>1, WholeStep DEF ConnInv
  <2>5. InStep'
    BY InStepStep DEF ConnInv
  <2>6. Counted' /\ Ready'
    BY CountedStep, ReadyStep DEF ConnInv
  <2>7. Successive(Stream)'
    BY SuccessiveStep DEF ConnInv
  <2>8. Paid'
    BY PaidStep DEF ConnInv
  <2> QED
    BY <2>1, <2>2, <2>3, <2>4, <2>5, <2>6, <2>7, <2>8 DEF ConnInv
<1> QED
  BY <1>1, <1>2, PTL DEF Spec

\* The state of a connection is well formed, whatever the peer sends and
\* whatever the handler does (server.lua:94-192, 285-312, 361-390).
THEOREM ConnectionTyped == Spec => []TypeOK
<1>1. ConnInv => TypeOK
  BY DEF ConnInv
<1> QED
  BY <1>1, ConnInvariant, PTL

\* For every number of requests, length of bodies and size of packets, the
\* stream is read as it was sent, until a terminator comes in two packets
\* (server.lua:145-162, 302-312).
THEOREM NothingIsLost == Spec => []NothingLost
<1>1. ConnInv => NothingLost
  BY DEF ConnInv, Flow, NothingLost
<1> QED
  BY <1>1, ConnInvariant, PTL

\* A job that ends leaves no open connection behind, unless its last request had
\* no number as content-length, or the peer was lost while the rest of a body was
\* drained (server.lua:366-385).
THEOREM EndedIsClosed == Spec => []EndsClosed
<1>1. ConnInv => EndsClosed
  BY DEF ConnInv
<1> QED
  BY <1>1, ConnInvariant, PTL

\* Responses are whole, whatever the kernel takes of a write, until a function
\* fails to deliver a body it has begun or an error response meets a full socket
\* buffer (server.lua:94-122, 285-301, 345-358).
THEOREM ResponsesAreWhole == Spec => []ResponsesWhole
<1>1. ConnInv => ResponsesWhole
  BY WholeIsWhole DEF ConnInv
<1> QED
  BY <1>1, ConnInvariant, PTL

\* A request is parsed at its first byte and its body is read by its own
\* handler, for every number of requests, length of bodies and size of packets,
\* until a body is left in the stream (server.lua:172-192, 383).
THEOREM BodiesOwned == Spec => []BodiesTheirOwn
<1>1. ConnInv => BodiesTheirOwn
  BY InStepOwn DEF ConnInv
<1> QED
  BY <1>1, ConnInvariant, PTL

\* A connection keeps the promise of HttpExchange but for its liveness: every
\* response answers the next request, one that has arrived, and none is sent
\* after the connection was closed, as long as the two sides are in step
\* (server.lua:94-122, 361-390).
THEOREM ExchangeKept == Spec => Exchange!Safety
<1>1. ConnInv /\ ConnInv' /\ [Next]_vars => [Exchange!Next]_(Exchange!evars)
  BY NextMapped DEF ConnInv
<1> QED
  BY <1>1, InitMapped, ConnInvariant, PTL DEF Spec, Exchange!Safety
=============================================================================
