---------------------------- MODULE ProcessesProofs ----------------------------
(***************************************************************************)
(* Proofs about Processes, for every number of processes, jobs and pids,   *)
(* every capacity of a pipe and whatever the processes are given and write.*)
(***************************************************************************)
EXTENDS Processes, SequenceTheorems, WellFoundedInduction, TLAPS

-----------------------------------------------------------------------------
(* The inductive invariant *)

StreamStates == [pipe : Seq(Pieces), buffer : Seq(Pieces), chunks : Seq(Pieces)]

Inputs == [pipe : Nat, read : Nat, left : Nat]

Typed ==
  /\ task \in Tasks /\ task \in [Procs -> Task] /\ main \subseteq Jobs
  /\ host \in {"up", "killed", "raised"} /\ running \in Jobs \cup {Nobody}
  /\ pc \in [Jobs -> Places] /\ of \in [Jobs -> Procs \cup {Nobody}]
  /\ object \in [Procs -> {"none", "live", "gone"}]
  /\ state \in [Procs -> {"none", "alive", "zombie", "reaped"}]
  /\ pid \in [Procs -> Pids \cup {0}] /\ code \in [Procs -> {"0", "1", "signal"}]
  /\ signals \in [Procs -> SUBSET {"TERM", "KILL"}]
  /\ eof \subseteq Procs
  /\ stdin \in [Procs -> Inputs]
  /\ holders \in [Procs -> SUBSET (Procs \cup {Nobody})]
  /\ out \in [Procs -> StreamStates]
  /\ said \in [Procs -> Seq(Pieces)] /\ got \in [Procs -> Seq(Pieces)]
  /\ stderr \in [Procs -> {"open", "ready", "shut"}] /\ heir \in [Procs -> BOOLEAN]
  /\ stale \subseteq Procs /\ struck \subseteq Procs
  /\ status \in [Jobs -> {"none", "0", "1"}]

\* A job that is not idle is at a process; only those of proc.run are joined for a
\* result, and only those the program has kept are anything else.
ByNew == {"all", "line", "some", "term1", "term2", "term3", "kill1", "kill3", "kill", "status"}
Placed ==
  \A j \in Jobs : pc[j] # "idle" =>
    /\ of[j] \in Procs /\ task[of[j]].by \in {"run", "new"}
    /\ pc[j] \in ByNew => task[of[j]].by = "new"
    /\ pc[j] \in {"result", "message"} => task[of[j]].by = "run"

-----------------------------------------------------------------------------
(* Types *)

LEMMA TurnPlace ==
  ASSUME NEW j, NEW place, Turn(j, place)
  PROVE  pc[j] = place /\ host = "up"
BY DEF Turn

LEMMA PrintedIn ==
  ASSUME NEW p
  PROVE  Printed(p) \in Nat /\ Printed(p) <= Input
BY SizesAssumption DEF Printed

LEMMA KeptObject ==
  ASSUME NEW j, NEW p, NEW place, Turns(j, p, place)
  PROVE  object[p] = "live" /\ task[p].by = "new"
<1>1. InHand(p)
  BY Zenon DEF Turns
<1> QED
  BY <1>1, Zenon DEF InHand

LEMMA TypedFork ==
  ASSUME Typed, NEW p \in Procs, Fork(p)
  PROVE  /\ object' \in [Procs -> {"none", "live", "gone"}]
         /\ state' \in [Procs -> {"none", "alive", "zombie", "reaped"}]
         /\ pid' \in [Procs -> Pids \cup {0}]
BY DEF Typed, Fork

LEMMA TypedNew ==
  ASSUME Typed, NEW j \in Jobs, NEW p \in Procs, New(j, p)
  PROVE  Typed'
<1>1. stdin' \in [Procs -> Inputs]
  <2>1. stdin' = [stdin EXCEPT ![p].left = Printed(p)] /\ Printed(p) \in Nat
    BY PrintedIn DEF New
  <2>2. stdin \in [Procs -> Inputs]
    BY DEF Typed
  <2> QED
    BY <2>1, <2>2 DEF Inputs
<1>2. holders' \in [Procs -> SUBSET (Procs \cup {Nobody})]
  BY DEF New, Typed, Inherited
<1> QED
  BY <1>1, <1>2, TypedFork DEF New, Typed, Places, given, history

LEMMA TypedMove ==
  ASSUME Typed, NEW j \in Jobs, NEW place \in Places, Goto(j, place)
  PROVE  /\ pc' \in [Jobs -> Places] /\ of' \in [Jobs -> Procs \cup {Nobody}]
         /\ running' \in Jobs \cup {Nobody}
BY DEF Typed, Goto

LEMMA TypedFeed ==
  ASSUME Typed, Placed, NEW j \in Jobs, Feed(j) \/ EndFeed(j) \/ Started(j)
  PROVE  Typed'
<1>1. CASE Feed(j)
  <2>1. of[j] \in Procs /\ pc[j] = "feed"
    BY <1>1 DEF Placed, Feed, Turn
  <2>2. stdin' \in [Procs -> Inputs] /\ host' \in {"up", "killed", "raised"}
    <3> DEFINE p == of[j]
    <3>1. CASE Fed(j) /\ UNCHANGED <<host, holders>>
      <4>1. CASE UNCHANGED stdin
        BY <3>1, <4>1 DEF Typed
      <4>2. ASSUME NEW n \in 1..stdin[p].left,
                   stdin' = [stdin EXCEPT ![p].pipe = @ + n, ![p].left = @ - n]
            PROVE  stdin' \in [Procs -> Inputs]
        <5>1. stdin[p] \in Inputs
          BY <2>1 DEF Typed
        <5>2. stdin[p].pipe + n \in Nat /\ stdin[p].left - n \in Nat
          BY <5>1, <4>2 DEF Inputs
        <5>3. stdin \in [Procs -> Inputs]
          BY DEF Typed
        <5> QED
          BY <5>1, <5>2, <5>3, <4>2, <2>1 DEF Inputs
      <4> QED
        BY <3>1, <4>1, <4>2 DEF Fed, Typed
    <3>2. CASE FeedBreaks(j)
      <4>1. stdin \in [Procs -> Inputs] /\ host \in {"up", "killed", "raised"}
        BY DEF Typed
      <4>2. \/ stdin' = [stdin EXCEPT ![p].left = 0] /\ UNCHANGED host
            \/ host' = "killed" /\ UNCHANGED stdin
        BY <3>2 DEF FeedBreaks
      <4> QED
        BY <2>1, <4>1, <4>2 DEF Inputs
    <3> QED
      BY <1>1, <3>1, <3>2 DEF Feed
  <2>3. /\ pc' \in [Jobs -> Places] /\ of' \in [Jobs -> Procs \cup {Nobody}]
        /\ running' \in Jobs \cup {Nobody}
    BY <1>1, TypedMove DEF Feed, Fed, FeedBreaks, WouldBlock, Typed, Places
  <2>4. holders' \in [Procs -> SUBSET (Procs \cup {Nobody})]
    BY <1>1 DEF Feed, FeedBreaks, Typed
  <2> QED
    BY <1>1, <2>2, <2>3, <2>4 DEF Feed, Typed, given, table, history
<1>2. CASE EndFeed(j)
  BY <1>2, TypedMove DEF EndFeed, Typed, Places, given, table, history
<1>3. CASE Started(j)
  BY <1>3, TypedMove DEF Started, Typed, Places, given, table, history
<1> QED
  BY <1>1, <1>2, <1>3

LEMMA TypedDecided ==
  ASSUME Typed, NEW j \in Jobs, Decided(j)
  PROVE  /\ state' \in [Procs -> {"none", "alive", "zombie", "reaped"}]
         /\ struck' \subseteq Procs
         /\ UNCHANGED <<object, pid, code, signals>>
BY DEF Typed, Decided, Named

LEMMA TypedStatus ==
  ASSUME Typed, NEW j \in Jobs, NEW a \in Places, NEW b \in Places, Status(j, a, b)
  PROVE  /\ state' \in [Procs -> {"none", "alive", "zombie", "reaped"}]
         /\ struck' \subseteq Procs
         /\ UNCHANGED <<object, pid, code, signals>>
         /\ pc' \in [Jobs -> Places] /\ of' \in [Jobs -> Procs \cup {Nobody}]
         /\ running' \in Jobs \cup {Nobody}
<1>1. CASE Undecided(j) /\ Goto(j, a) /\ UNCHANGED <<table, struck>>
  BY <1>1, TypedMove DEF Typed, table
<1>2. CASE Decided(j) /\ Goto(j, b)
  BY <1>2, TypedMove, TypedDecided
<1> QED
  BY <1>1, <1>2 DEF Status

LEMMA TypedJoin ==
  ASSUME Typed, NEW j \in Jobs, Join(j)
  PROVE  Typed'
<1>1. CASE Undecided(j) /\ WaitsForStderr(j) /\ UNCHANGED <<table, struck, status>>
  BY <1>1 DEF Join, WaitsForStderr, WouldBlock, Typed, given, table, pipes
<1>2. CASE Decided(j) /\ Joined(j) /\ UNCHANGED host
  <2>1. /\ pc' \in [Jobs -> Places] /\ of' \in [Jobs -> Procs \cup {Nobody}]
        /\ running' \in Jobs \cup {Nobody}
        /\ status' \in [Jobs -> {"none", "0", "1"}]
    <3>1. {"idle", "result", "message"} \subseteq Places
      BY DEF Places, Reads
    <3>2. status \in [Jobs -> {"none", "0", "1"}]
      BY DEF Typed
    <3>3. CASE Goto(j, "idle") /\ UNCHANGED status
      BY <3>1, <3>2, <3>3, TypedMove
    <3>4. ASSUME NEW s \in {"0", "1"}, status' = [status EXCEPT ![j] = s],
                 Goto(j, IF s = "0" THEN "result" ELSE "message")
          PROVE  /\ pc' \in [Jobs -> Places] /\ of' \in [Jobs -> Procs \cup {Nobody}]
                 /\ running' \in Jobs \cup {Nobody}
                 /\ status' \in [Jobs -> {"none", "0", "1"}]
      BY <3>1, <3>2, <3>4, TypedMove
    <3> QED
      BY <1>2, <3>3, <3>4 DEF Joined
  <2> QED
    BY <1>2, <2>1, TypedDecided DEF Join, Typed, given, pipes
<1> QED
  BY <1>1, <1>2 DEF Join

LEMMA TypedTerm ==
  ASSUME Typed, NEW j \in Jobs,
         Term1(j) \/ Term2(j) \/ Term3(j) \/ StatusOnly(j) \/ Kill(j)
  PROVE  Typed'
<1>0. {"kill1", "term2", "kill3", "term3", "join", "idle"} \subseteq Places
  BY DEF Places
<1>1. CASE Term1(j)
  BY <1>0, <1>1, TypedStatus DEF Term1, Typed, given, pipes
<1>2. CASE Term2(j)
  <2>1. CASE /\ UNCHANGED <<table, struck, of>>
             /\ pc' = [pc EXCEPT ![j] = IF j \in main THEN "idle" ELSE "term3"]
             /\ running' = Nobody
    BY <1>0, <1>2, <2>1 DEF Term2, Typed, given, table, pipes
  <2>2. CASE Decided(j) /\ Goto(j, "term3")
    BY <1>0, <1>2, <2>2, TypedDecided, TypedMove DEF Term2, Typed, given, pipes
  <2> QED
    BY <1>2, <2>1, <2>2 DEF Term2
<1>3. CASE Term3(j)
  BY <1>0, <1>3, TypedStatus DEF Term3, Typed, given, pipes
<1>4. CASE StatusOnly(j)
  BY <1>0, <1>4, TypedStatus DEF StatusOnly, Typed, given, pipes
<1>5. CASE Kill(j)
  <2>1. /\ pc' \in [Jobs -> Places] /\ of' \in [Jobs -> Procs \cup {Nobody}]
        /\ running' \in Jobs \cup {Nobody}
    BY <1>0, <1>5, TypedMove DEF Kill
  <2>2. signals' \in [Procs -> SUBSET {"TERM", "KILL"}]
    BY <1>5 DEF Kill, Turn, Typed
  <2>3. struck' \subseteq Procs
    BY <1>5 DEF Kill, Named, Typed
  <2> QED
    BY <1>5, <2>1, <2>2, <2>3 DEF Kill, Typed, given, pipes
<1> QED
  BY <1>1, <1>2, <1>3, <1>4, <1>5

LEMMA TypedTurns ==
  ASSUME Typed, NEW j \in Jobs, NEW p \in Procs,
         NEW place \in {"join", "term1", "kill", "status", "all", "line", "some"},
         Turns(j, p, place)
  PROVE  Typed'
BY DEF Turns, Typed, Places, Reads, given, table, pipes, history

LEMMA TypedCollected ==
  ASSUME Typed, NEW p \in Procs, Collected(p)
  PROVE  Typed'
<1>1. /\ object' \in [Procs -> {"none", "live", "gone"}]
      /\ state' \in [Procs -> {"none", "alive", "zombie", "reaped"}]
      /\ code' \in [Procs -> {"0", "1", "signal"}]
      /\ signals' \in [Procs -> SUBSET {"TERM", "KILL"}]
  BY DEF Collected, Typed
<1>2. holders' \in [Procs -> SUBSET (Procs \cup {Nobody})] /\ struck' \subseteq Procs
  BY DEF Collected, Typed, Named
<1> QED
  BY <1>1, <1>2 DEF Collected, Typed, given, parent

-----------------------------------------------------------------------------
(* Sequences, and what the operations on a stream do with its pieces *)

LEMMA CutInTwo ==
  ASSUME NEW S, NEW s \in Seq(S), NEW n \in Nat
  PROVE  /\ First(s, n) \in Seq(S) /\ After(s, n) \in Seq(S)
         /\ First(s, n) \o After(s, n) = s
         /\ Len(After(s, n)) <= Len(s)
<1> DEFINE k == Least(n, Len(s))
<1>1. Len(s) \in Nat /\ k \in 0..Len(s)
  BY LenProperties DEF Least
<1>2. \A i \in 1..Len(s) : s[i] \in S
  BY ElementOfSeq
<1>3. SubSeq(s, 1, k) \in Seq(S) /\ SubSeq(s, k + 1, Len(s)) \in Seq(S)
  BY <1>1, <1>2, SubSeqProperties
<1>4. SubSeq(s, 1, k) \o SubSeq(s, k + 1, Len(s)) = s
  <2>1. 1 \in 1..Len(s) + 1 /\ k \in 1 - 1 .. Len(s) /\ Len(s) \in k .. Len(s)
    BY <1>1
  <2>2. SubSeq(s, 1, k) \o SubSeq(s, k + 1, Len(s)) = SubSeq(s, 1, Len(s))
    BY <2>1, ConcatAdjacentSubSeq
  <2> QED
    BY <2>2, SubSeqFull
<1>5. First(s, n) = SubSeq(s, 1, k) /\ After(s, n) = SubSeq(s, k + 1, Len(s))
  BY DEF First, After
<1>6. Len(SubSeq(s, k + 1, Len(s))) <= Len(s)
  <2>1. Len(SubSeq(s, k + 1, Len(s))) = IF k + 1 <= Len(s) THEN Len(s) - (k + 1) + 1 ELSE 0
    BY <1>1, <1>2, SubSeqProperties
  <2> QED
    BY <1>1, <2>1
<1> HIDE DEF k
<1> QED
  BY <1>3, <1>4, <1>5, <1>6

LEMMA LeastIn ==
  ASSUME NEW T, T \subseteq Nat, T # {}
  PROVE  \E x \in T : \A y \in T : x <= y
<1> DEFINE R == OpToRel(<, Nat)
<1>1. IsWellFoundedOn(R, Nat)
  BY NatLessThanWellFounded
<1>2. \A x, y \in Nat : y < x => <<y, x>> \in R
  BY DEF OpToRel
<1> HIDE DEF R
<1>3. \E x \in T : \A y \in T : ~(<<y, x>> \in R)
  BY <1>1, WFMin
<1>4. \A x, y \in Nat : ~(<<y, x>> \in R) => x <= y
  BY <1>2
<1> QED
  BY <1>3, <1>4

\* A chunk with a line feed has a first one.
LEMMA FirstLine ==
  ASSUME NEW chunk \in Seq(Pieces), HasLine(chunk)
  PROVE  LineEnd(chunk) \in Nat
<1> DEFINE T == {i \in DOMAIN chunk : chunk[i] = "nl"}
<1>1. T \subseteq Nat /\ T # {} /\ DOMAIN chunk = 1..Len(chunk) /\ Len(chunk) \in Nat
  BY LenProperties DEF HasLine
<1>2. PICK i \in T : \A k \in T : i <= k
  BY <1>1, LeastIn
<1>3. i \in DOMAIN chunk /\ chunk[i] = "nl" /\ \A k \in 1..(i - 1) : chunk[k] # "nl"
  BY <1>1, <1>2
<1>4. LineEnd(chunk) \in DOMAIN chunk
  BY <1>3 DEF LineEnd
<1> QED
  BY <1>1, <1>4

\* Concatenation, as an operator of its own.
Cat(u, v) == u \o v

LEMMA Associates ==
  \A u, v, w \in Seq(Pieces) :
    Cat(u, v) \in Seq(Pieces) /\ Cat(Cat(u, v), w) = Cat(u, Cat(v, w))
BY DEF Cat

LEMMA EmptyAdds ==
  \A u \in Seq(Pieces) : Cat(u, <<>>) = u /\ Cat(<<>>, u) = u
BY ConcatEmptySeq DEF Cat

LEMMA EmptyIsSeq == <<>> \in Seq(Pieces)
OBVIOUS

\* What the stream has taken from the pipe and not yet returned, and all that is
\* still to be returned.
Kept(s) == IF s.chunks = <<>> THEN s.buffer ELSE s.chunks
Unread(s) == Cat(Kept(s), s.pipe)

LEMMA KeptType ==
  ASSUME NEW s \in StreamStates
  PROVE  /\ s.pipe \in Seq(Pieces) /\ s.buffer \in Seq(Pieces) /\ s.chunks \in Seq(Pieces)
         /\ Kept(s) \in Seq(Pieces) /\ Unread(s) \in Seq(Pieces)
         /\ NextChunk(s) \in Seq(Pieces) /\ PipeAfter(s) \in Seq(Pieces)
         /\ Len(PipeAfter(s)) <= Len(s.pipe)
<1>1. s.pipe \in Seq(Pieces) /\ s.buffer \in Seq(Pieces) /\ s.chunks \in Seq(Pieces)
  BY DEF StreamStates
<1>2. Len(PipeAfter(s)) <= Len(s.pipe)
  <2>1. Len(s.pipe) \in Nat /\ Len(<<>>) = 0
    BY <1>1, LenProperties
  <2> QED
    BY <2>1 DEF PipeAfter
<1> QED
  BY <1>1, <1>2, Associates, EmptyIsSeq DEF Kept, Unread, NextChunk, PipeAfter

\* What a chunk is taken from, and what it leaves.
LEMMA NextTaken ==
  ASSUME NEW s \in StreamStates
  PROVE  Unread(s) = Cat(s.chunks, Cat(NextChunk(s), PipeAfter(s)))
<1>1. s.pipe \in Seq(Pieces) /\ s.buffer \in Seq(Pieces) /\ s.chunks \in Seq(Pieces)
  BY KeptType
<1>2. CASE FromBuffer(s)
  BY <1>1, <1>2, EmptyAdds, Associates DEF FromBuffer, Unread, Kept, NextChunk, PipeAfter
<1>3. CASE ~FromBuffer(s)
  <2>1. Kept(s) = s.chunks
    BY <1>3 DEF FromBuffer, Kept
  <2> QED
    BY <1>1, <1>3, <2>1, EmptyAdds DEF Unread, NextChunk, PipeAfter
<1> QED
  BY <1>2, <1>3

\* One chunk more changes nothing of what is to be returned.
LEMMA ChunkTaken ==
  ASSUME NEW s \in StreamStates, NextChunk(s) # <<>>
  PROVE  /\ Collect(s) \in StreamStates /\ Unread(Collect(s)) = Unread(s)
         /\ Collect(s).buffer = s.buffer /\ Len(Collect(s).pipe) <= Len(s.pipe)
<1> DEFINE t == Collect(s)
<1>1. /\ s.chunks \in Seq(Pieces) /\ s.buffer \in Seq(Pieces)
      /\ NextChunk(s) \in Seq(Pieces) /\ PipeAfter(s) \in Seq(Pieces)
  BY KeptType
<1>2. Cat(s.chunks, NextChunk(s)) \in Seq(Pieces)
  BY <1>1, Associates
<1>3. /\ t.pipe = PipeAfter(s) /\ t.buffer = s.buffer /\ t.chunks = Cat(s.chunks, NextChunk(s))
      /\ t \in StreamStates
  <2>1. t = [s EXCEPT !.pipe = PipeAfter(s), !.chunks = Cat(s.chunks, NextChunk(s))]
    BY DEF Collect, Cat
  <2> HIDE DEF t
  <2> QED
    BY <1>1, <1>2, <2>1 DEF StreamStates
<1>4. Cat(s.chunks, NextChunk(s)) # <<>>
  BY <1>1, ConcatEmptySeq DEF Cat
<1> HIDE DEF t
<1>6. Unread(t) = Cat(Cat(s.chunks, NextChunk(s)), PipeAfter(s))
  BY <1>3, <1>4 DEF Unread, Kept
<1>7. Unread(t) = Unread(s)
  <2> DEFINE h == s.chunks
             c == NextChunk(s)
             q == PipeAfter(s)
  <2>1. h \in Seq(Pieces) /\ c \in Seq(Pieces) /\ q \in Seq(Pieces)
    BY <1>1
  <2> HIDE DEF h, c, q
  <2>2. Cat(Cat(h, c), q) = Cat(h, Cat(c, q))
    BY <2>1, Associates
  <2> QED
    BY <1>6, <2>2, NextTaken DEF h, c, q
<1> QED
  BY <1>3, <1>7, KeptType DEF t

\* A line that is returned, and what is left then, are what there was to return.
LEMMA LineTaken ==
  ASSUME NEW s \in StreamStates, HasLine(NextChunk(s))
  PROVE  /\ LineRead(s) \in StreamStates /\ LineRead(s).chunks = <<>>
         /\ Len(LineRead(s).pipe) <= Len(s.pipe)
         /\ Cat(s.chunks, First(NextChunk(s), LineEnd(NextChunk(s)))) \in Seq(Pieces)
         /\ Cat(Cat(s.chunks, First(NextChunk(s), LineEnd(NextChunk(s)))), Unread(LineRead(s)))
              = Unread(s)
<1> DEFINE t == LineRead(s)
           h == s.chunks
           q == PipeAfter(s)
           c == NextChunk(s)
           f == First(c, LineEnd(c))
           a == After(c, LineEnd(c))
<1>1. h \in Seq(Pieces) /\ c \in Seq(Pieces) /\ q \in Seq(Pieces)
  BY KeptType
<1>2. LineEnd(c) \in Nat
  BY <1>1, FirstLine
<1>3. f \in Seq(Pieces) /\ a \in Seq(Pieces) /\ Cat(f, a) = c
  BY <1>1, <1>2, CutInTwo DEF Cat
<1>4. t \in StreamStates /\ t.pipe = q /\ t.buffer = a /\ t.chunks = <<>>
  <2>1. t = [s EXCEPT !.pipe = q, !.chunks = <<>>, !.buffer = a]
    BY DEF LineRead
  <2> HIDE DEF t, a, q, h, c
  <2> QED
    BY <1>1, <1>3, <2>1, EmptyIsSeq DEF StreamStates
<1>5. Unread(s) = Cat(h, Cat(c, q))
  BY NextTaken
<1> HIDE DEF t, h, q, c, f, a
<1>6. Unread(t) = Cat(a, q)
  BY <1>4 DEF Unread, Kept
<1>7. Cat(a, q) \in Seq(Pieces) /\ Cat(h, f) \in Seq(Pieces)
  BY <1>1, <1>3, Associates
<1>8. Cat(Cat(h, f), Cat(a, q)) = Cat(h, Cat(f, Cat(a, q)))
  BY <1>1, <1>3, <1>7, Associates
<1>9. Cat(Cat(f, a), q) = Cat(f, Cat(a, q))
  BY <1>1, <1>3, Associates
<1>10. Cat(Cat(h, f), Unread(t)) = Unread(s)
  BY <1>3, <1>5, <1>6, <1>8, <1>9
<1>11. Len(q) <= Len(s.pipe)
  BY KeptType DEF q
<1> QED
  BY <1>4, <1>7, <1>10, <1>11 DEF t, h, c, f

\* At the end of the stream everything is returned, and the buffer stays.
LEMMA EndTaken ==
  ASSUME NEW s \in StreamStates, ~FromBuffer(s), s.pipe = <<>>
  PROVE  /\ EndRead(s) \in StreamStates /\ EndRead(s).chunks = <<>>
         /\ EndRead(s).buffer = s.buffer /\ Unread(EndRead(s)) = s.buffer
         /\ Unread(s) = s.chunks /\ EndRead(s).pipe = <<>>
<1>1. s.pipe \in Seq(Pieces) /\ s.buffer \in Seq(Pieces) /\ s.chunks \in Seq(Pieces)
  BY KeptType
<1>4. /\ EndRead(s) \in StreamStates
      /\ EndRead(s).pipe = <<>> /\ EndRead(s).buffer = s.buffer /\ EndRead(s).chunks = <<>>
  BY <1>1, EmptyIsSeq DEF EndRead, StreamStates
<1>5. Unread(EndRead(s)) = s.buffer
  BY <1>1, <1>4, EmptyAdds DEF Unread, Kept
<1>6. Kept(s) = s.chunks
  BY DEF FromBuffer, Kept
<1>7. Unread(s) = s.chunks
  BY <1>1, <1>6, EmptyAdds DEF Unread
<1> QED
  BY <1>4, <1>5, <1>7

\* A read of n pieces outside of any other read.
LEMMA CountTaken ==
  ASSUME NEW s \in StreamStates, NEW n \in Nat, s.chunks = <<>>
  PROVE  /\ CountRead(s, n) \in StreamStates /\ CountRead(s, n).chunks = <<>>
         /\ First(Available(s, n), n) \in Seq(Pieces)
         /\ Cat(First(Available(s, n), n), Unread(CountRead(s, n))) = Unread(s)
         /\ Len(CountRead(s, n).pipe) <= Len(s.pipe)
<1> DEFINE t == CountRead(s, n)
           m == IF n > Len(s.buffer) THEN n - Len(s.buffer) ELSE 0
           v == Available(s, n)
           f == First(v, n)
           a == After(v, n)
           x == First(s.pipe, m)
           y == After(s.pipe, m)
<1>1. s.pipe \in Seq(Pieces) /\ s.buffer \in Seq(Pieces) /\ s.chunks \in Seq(Pieces)
  BY KeptType
<1>2. m \in Nat
  BY <1>1, LenProperties
<1>3. x \in Seq(Pieces) /\ y \in Seq(Pieces) /\ Cat(x, y) = s.pipe /\ Len(y) <= Len(s.pipe)
  BY <1>1, <1>2, CutInTwo DEF Cat
<1>4. v = Cat(s.buffer, x) /\ v \in Seq(Pieces)
  <2>1. v = Cat(s.buffer, x)
    BY DEF Available, Cat
  <2>2. Cat(s.buffer, x) \in Seq(Pieces)
    BY <1>1, <1>3, Associates
  <2> HIDE DEF v
  <2> QED
    BY <2>1, <2>2
<1>5. f \in Seq(Pieces) /\ a \in Seq(Pieces) /\ Cat(f, a) = v
  BY <1>4, CutInTwo DEF Cat
<1>8. t \in StreamStates /\ t.pipe = y /\ t.buffer = a /\ t.chunks = <<>>
  <2>1. t = [s EXCEPT !.buffer = a, !.pipe = y]
    BY DEF CountRead
  <2> HIDE DEF t, a, y, f, x, v
  <2> QED
    BY <1>1, <1>3, <1>5, <2>1, EmptyIsSeq DEF StreamStates
<1> HIDE DEF t, m, v, f, a, x, y
<1>10. Unread(t) = Cat(a, y)
  BY <1>8 DEF Unread, Kept
<1>11. Unread(s) = Cat(s.buffer, Cat(x, y))
  BY <1>3 DEF Unread, Kept
<1>12. Cat(f, Cat(a, y)) = Cat(v, y)
  BY <1>3, <1>5, Associates
<1>13. Cat(v, y) = Cat(s.buffer, Cat(x, y))
  <2>1. Cat(Cat(s.buffer, x), y) = Cat(s.buffer, Cat(x, y))
    BY <1>1, <1>3, Associates, Zenon
  <2> QED
    BY <1>4, <2>1
<1>14. Cat(f, Unread(t)) = Unread(s)
  BY <1>10, <1>11, <1>12, <1>13
<1> QED
  BY <1>3, <1>5, <1>8, <1>14 DEF t, v, f

-----------------------------------------------------------------------------
(* Reads *)

\* Only the reads that collect leave something collected.
Collecting(p) == \E j \in Jobs : of[j] = p /\ pc[j] \in {"all", "line", "result"}
Alone == \A j, k \in Jobs : pc[j] \in Reads /\ pc[k] \in Reads /\ of[j] = of[k] => j = k
Collects == \A p \in Procs : out[p].chunks # <<>> => Collecting(p)

\* What a read does: with p's stream s, it goes on and changes what is still to be
\* returned by nothing, or returns some of it.
GoesOn(j) ==
  LET p == of[j] IN
  /\ out' \in [Procs -> StreamStates] /\ \A q \in Procs \ {p} : out'[q] = out[q]
  /\ UNCHANGED <<got, stale, of>> /\ Len(out'[p].pipe) <= Len(out[p].pipe)
  /\ Unread(out'[p]) = Unread(out[p]) /\ out'[p].buffer = out[p].buffer
  /\ pc' = pc
  /\ out'[p].chunks # <<>> => out[p].chunks # <<>> \/ pc[j] \in {"all", "line", "result"}

Takes(j, pieces) ==
  LET p == of[j] IN
  /\ out' \in [Procs -> StreamStates] /\ \A q \in Procs \ {p} : out'[q] = out[q]
  /\ pieces \in Seq(Pieces) /\ got' = [got EXCEPT ![p] = IF p \in stale THEN @ ELSE Cat(@, pieces)]
  /\ stale' \in {stale, stale \cup {p}}
  /\ p \notin stale' => Cat(pieces, Unread(out'[p])) = Unread(out[p])
  /\ UNCHANGED of /\ pc' = [pc EXCEPT ![j] = "idle"]
  /\ out'[p].chunks = <<>> /\ Len(out'[p].pipe) <= Len(out[p].pipe)
  /\ pc[j] = "result" => /\ Unread(out'[p]) = out[p].buffer /\ out'[p].buffer = out[p].buffer
                         /\ out[p].buffer = <<>> => stale' = stale

LEMMA GotoMoves ==
  ASSUME NEW j, NEW place, Goto(j, place)
  PROVE  UNCHANGED of /\ pc' = [pc EXCEPT ![j] = place]
BY DEF Goto

LEMMA ReadEffect ==
  ASSUME Typed, Placed, NEW j \in Jobs, Read(j)
  PROVE  GoesOn(j) \/ \E pieces : Takes(j, pieces)
<1> DEFINE p == of[j]
           s == out[p]
<1>1. p \in Procs /\ pc[j] \in {"all", "line", "result"}
  BY DEF Placed, Read
<1>2. out \in [Procs -> StreamStates] /\ s \in StreamStates
  BY <1>1 DEF Typed
<1>0. Len(s.pipe) \in Nat
  BY <1>2, KeptType, LenProperties
<1>3. CASE ReadWaits(j)
  <2>1. UNCHANGED <<out, got, stale, pc, of>>
    BY <1>3 DEF ReadWaits, WouldBlock
  <2> QED
    BY <1>0, <1>2, <2>1 DEF GoesOn
<1>4. CASE ReadChunk(j)
  <2>1. CASE pc[j] = "line" /\ HasLine(NextChunk(s))
    <3> DEFINE f == s.chunks \o First(NextChunk(s), LineEnd(NextChunk(s)))
    <3>1. /\ out' = [out EXCEPT ![p] = LineRead(s)] /\ stale' = stale
          /\ got' = [got EXCEPT ![p] = IF p \in stale THEN @ ELSE Cat(@, f)]
          /\ UNCHANGED of /\ pc' = [pc EXCEPT ![j] = "idle"]
      BY <1>4, <2>1 DEF ReadChunk, Returns, Goto, Cat
    <3>2. /\ LineRead(s) \in StreamStates /\ LineRead(s).chunks = <<>> /\ f \in Seq(Pieces)
          /\ Cat(f, Unread(LineRead(s))) = Unread(s)
          /\ Len(LineRead(s).pipe) <= Len(s.pipe)
      BY <1>2, <2>1, LineTaken DEF Cat
    <3> HIDE DEF f, s
    <3>3. out'[p] = LineRead(s) /\ out[p] = s /\ out' \in [Procs -> StreamStates]
          /\ \A q \in Procs \ {p} : out'[q] = out[q]
      BY <1>1, <1>2, <3>1, <3>2 DEF s
    <3>4. Takes(j, f)
      BY <2>1, <3>1, <3>2, <3>3 DEF Takes
    <3> QED
      BY <3>4
  <2>2. CASE ~(pc[j] = "line" /\ HasLine(NextChunk(s)))
    <3>1. /\ out' = [out EXCEPT ![p] = Collect(s)] /\ UNCHANGED <<got, stale, of>>
          /\ pc' = pc /\ NextChunk(s) # <<>>
      <4>1. /\ out' = [out EXCEPT ![p] = Collect(s)] /\ UNCHANGED <<got, stale, of>>
            /\ pc' = [pc EXCEPT ![j] = pc[j]] /\ NextChunk(s) # <<>>
        BY <1>4, <2>2 DEF ReadChunk, Goto
      <4>2. pc \in [Jobs -> Places]
        BY DEF Typed
      <4> QED
        BY <4>1, <4>2
    <3>2. /\ Collect(s) \in StreamStates /\ Unread(Collect(s)) = Unread(s)
          /\ Collect(s).buffer = s.buffer /\ Len(Collect(s).pipe) <= Len(s.pipe)
      BY <1>2, <3>1, ChunkTaken
    <3> HIDE DEF s
    <3>3. out'[p] = Collect(s) /\ out[p] = s /\ out' \in [Procs -> StreamStates]
          /\ \A q \in Procs \ {p} : out'[q] = out[q]
      BY <1>1, <1>2, <3>1, <3>2 DEF s
    <3> QED
      BY <1>1, <3>1, <3>2, <3>3 DEF GoesOn
  <2> QED
    BY <2>1, <2>2
<1>5. CASE ReadEnds(j)
  <2>1. /\ out' = [out EXCEPT ![p] = EndRead(s)]
        /\ stale' = IF s.buffer # <<>> THEN stale \cup {p} ELSE stale
        /\ got' = [got EXCEPT ![p] = IF p \in stale THEN @ ELSE Cat(@, s.chunks)]
        /\ UNCHANGED of /\ pc' = [pc EXCEPT ![j] = "idle"]
    BY <1>5 DEF ReadEnds, Returns, Goto, Cat
  <2>2. ~FromBuffer(s) /\ s.pipe = <<>> /\ ~Written(p)
    BY <1>5 DEF ReadEnds, Ended
  <2>3. /\ EndRead(s) \in StreamStates /\ EndRead(s).chunks = <<>> /\ s.chunks \in Seq(Pieces)
        /\ EndRead(s).buffer = s.buffer /\ Unread(EndRead(s)) = s.buffer /\ Unread(s) = s.chunks
        /\ Len(EndRead(s).pipe) <= Len(s.pipe)
    BY <1>0, <1>2, <2>2, EndTaken, KeptType
  <2>4. s.buffer = <<>> => Cat(s.chunks, Unread(EndRead(s))) = Unread(s)
    BY <2>3, EmptyAdds
  <2>5. p \notin stale' => s.buffer = <<>>
    BY <2>1
  <2> HIDE DEF s
  <2>6. out'[p] = EndRead(s) /\ out[p] = s /\ out' \in [Procs -> StreamStates]
        /\ \A q \in Procs \ {p} : out'[q] = out[q]
    BY <1>1, <1>2, <2>1, <2>3 DEF s
  <2>7. Takes(j, s.chunks)
    BY <2>1, <2>2, <2>3, <2>4, <2>5, <2>6 DEF Takes
  <2> QED
    BY <2>7
<1> QED
  BY <1>3, <1>4, <1>5 DEF Read

LEMMA ReadSomeEffect ==
  ASSUME Typed, Placed, Alone, Collects, NEW j \in Jobs, ReadSome(j)
  PROVE  GoesOn(j) \/ \E pieces : Takes(j, pieces)
<1> DEFINE p == of[j]
           s == out[p]
           r == Available(s, 2)
           f == First(r, 2)
<1>1. p \in Procs /\ pc[j] = "some"
  BY DEF Placed, ReadSome, Turn
<1>2. out \in [Procs -> StreamStates] /\ s \in StreamStates
  BY <1>1 DEF Typed
<1>0. Len(s.pipe) \in Nat
  BY <1>2, KeptType, LenProperties
<1>3. s.chunks = <<>>
  BY <1>1, Zenon DEF Alone, Collects, Collecting, Reads
<1>4. /\ CountRead(s, 2) \in StreamStates /\ CountRead(s, 2).chunks = <<>> /\ f \in Seq(Pieces)
      /\ Cat(f, Unread(CountRead(s, 2))) = Unread(s)
      /\ Len(CountRead(s, 2).pipe) <= Len(s.pipe)
  BY <1>2, <1>3, CountTaken
<1>5. stale' = stale
  BY DEF ReadSome
<1>6. CASE WouldBlock(j) /\ UNCHANGED <<out, got>>
  <2>1. UNCHANGED <<out, got, pc, of>>
    BY <1>6 DEF WouldBlock
  <2> QED
    BY <1>0, <1>2, <1>5, <2>1 DEF GoesOn
<1>7. CASE Returns(j, CountRead(s, 2), f)
  <2>1. /\ out' = [out EXCEPT ![p] = CountRead(s, 2)]
        /\ got' = [got EXCEPT ![p] = IF p \in stale THEN @ ELSE Cat(@, f)]
        /\ UNCHANGED of /\ pc' = [pc EXCEPT ![j] = "idle"]
    BY <1>7 DEF Returns, Goto, Cat
  <2> HIDE DEF s, r, f
  <2>2. out'[p] = CountRead(s, 2) /\ out[p] = s /\ out' \in [Procs -> StreamStates]
        /\ \A q \in Procs \ {p} : out'[q] = out[q]
    BY <1>1, <1>2, <1>4, <2>1 DEF s
  <2>3. Takes(j, f)
    BY <1>1, <1>4, <1>5, <2>1, <2>2 DEF Takes
  <2> QED
    BY <2>3
<1> QED
  BY <1>6, <1>7 DEF ReadSome

LEMMA TypedRead ==
  ASSUME Typed, Placed, Alone, Collects, NEW j \in Jobs,
         Read(j) \/ ReadSome(j) \/ Message(j)
  PROVE  Typed'
<1>1. CASE Message(j)
  <2>1. {"message", "idle"} \subseteq Places
    BY DEF Places
  <2>2. /\ pc' \in [Jobs -> Places] /\ of' \in [Jobs -> Procs \cup {Nobody}]
        /\ running' \in Jobs \cup {Nobody}
    BY <1>1, <2>1, TypedMove DEF Message, WouldBlock, Typed
  <2>3. stderr' \in [Procs -> {"open", "ready", "shut"}]
    BY <1>1 DEF Message, Typed
  <2> QED
    BY <1>1, <2>2, <2>3 DEF Message, Typed, given, table, history
<1>2. CASE Read(j) \/ ReadSome(j)
  <2>1. GoesOn(j) \/ \E pieces : Takes(j, pieces)
    BY <1>2, ReadEffect, ReadSomeEffect
  <2>2. of[j] \in Procs /\ pc[j] \in Places
    BY <1>2 DEF Placed, Read, ReadSome, Turn, Typed
  <2>3. /\ out' \in [Procs -> StreamStates] /\ got' \in [Procs -> Seq(Pieces)]
        /\ stale' \subseteq Procs
    <3>1. CASE GoesOn(j)
      BY <3>1 DEF GoesOn, Typed
    <3>2. ASSUME NEW pieces, Takes(j, pieces)
          PROVE  got' \in [Procs -> Seq(Pieces)]
      <4>1. pieces \in Seq(Pieces) /\ got \in [Procs -> Seq(Pieces)]
            /\ got' = [got EXCEPT ![of[j]] = IF of[j] \in stale THEN @ ELSE Cat(@, pieces)]
        BY <3>2 DEF Takes, Typed
      <4>2. got[of[j]] \in Seq(Pieces)
        BY <2>2, <4>1
      <4>3. Cat(got[of[j]], pieces) \in Seq(Pieces)
        BY <4>1, <4>2, Associates
      <4>4. CASE of[j] \in stale
        BY <2>2, <4>1, <4>2, <4>4
      <4>5. CASE of[j] \notin stale
        BY <2>2, <4>1, <4>3, <4>5
      <4> QED
        BY <4>4, <4>5
    <3>3. ASSUME NEW pieces, Takes(j, pieces)
          PROVE  out' \in [Procs -> StreamStates] /\ stale' \subseteq Procs
      BY <2>2, <3>3 DEF Takes, Typed
    <3> QED
      BY <2>1, <3>1, <3>2, <3>3
  <2>4. /\ pc' \in [Jobs -> Places] /\ of' \in [Jobs -> Procs \cup {Nobody}]
    <3>1. "idle" \in Places
      BY DEF Places
    <3>2. of' = of /\ (pc' = pc \/ pc' = [pc EXCEPT ![j] = "idle"])
      BY <2>1 DEF GoesOn, Takes
    <3>3. pc \in [Jobs -> Places] /\ of \in [Jobs -> Procs \cup {Nobody}]
      BY DEF Typed
    <3> QED
      BY <3>1, <3>2, <3>3
  <2>5. running' \in Jobs \cup {Nobody}
    BY <1>2 DEF Read, ReadSome, ReadWaits, WouldBlock, ReadChunk, ReadEnds, Returns, Goto
  <2> QED
    BY <1>2, <2>3, <2>4, <2>5 DEF Read, ReadSome, Typed, given, table
<1> QED
  BY <1>1, <1>2

LEMMA TypedEnds ==
  ASSUME Typed, NEW p \in Procs, NEW c \in {"0", "1", "signal"}, Ends(p, c)
  PROVE  /\ object' \in [Procs -> {"none", "live", "gone"}]
         /\ state' \in [Procs -> {"none", "alive", "zombie", "reaped"}]
         /\ pid' \in [Procs -> Pids \cup {0}] /\ code' \in [Procs -> {"0", "1", "signal"}]
         /\ signals' \in [Procs -> SUBSET {"TERM", "KILL"}]
         /\ holders' \in [Procs -> SUBSET (Procs \cup {Nobody})]
BY DEF Ends, Typed

LEMMA TypedProgram ==
  ASSUME Typed, NEW p \in Procs, Program(p)
  PROVE  Typed'
<1>1. CASE ChildReads(p)
  <2>1. stdin \in [Procs -> Inputs]
    BY DEF Typed
  <2>2. \/ stdin[p].pipe > 0 /\ stdin' = [stdin EXCEPT ![p].pipe = @ - 1, ![p].read = @ + 1]
        \/ UNCHANGED stdin
    BY <1>1 DEF ChildReads
  <2>3. stdin' \in [Procs -> Inputs]
    <3>1. stdin[p].pipe \in Nat /\ stdin[p].read \in Nat
      BY <2>1 DEF Inputs
    <3>2. stdin[p].pipe > 0 => stdin[p].pipe - 1 \in Nat
      BY <3>1
    <3> QED
      BY <2>1, <2>2, <3>1, <3>2 DEF Inputs
  <2>4. eof' \subseteq Procs
    BY <1>1 DEF ChildReads, Typed
  <2> QED
    BY <1>1, <2>3, <2>4 DEF ChildReads, Typed, given, parent, table, history
<1>2. CASE ChildWrites(p)
  <2> DEFINE x == task[p].says[Len(said[p]) + 1]
  <2>1. /\ task[p].says \in Seq(Pieces) /\ said[p] \in Seq(Pieces)
        /\ out[p].pipe \in Seq(Pieces) /\ out[p] \in StreamStates
    BY DEF Typed, Task, StreamStates
  <2>2. Len(said[p]) < Len(task[p].says)
    BY <1>2 DEF ChildWrites, Wants
  <2>3. x \in Pieces
    BY <2>1, <2>2, ElementOfSeq, LenProperties
  <2>4. /\ out' = [out EXCEPT ![p].pipe = Append(@, x)] /\ said' = [said EXCEPT ![p] = Append(@, x)]
    BY <1>2 DEF ChildWrites
  <2> HIDE DEF x
  <2>5. Append(out[p].pipe, x) \in Seq(Pieces) /\ Append(said[p], x) \in Seq(Pieces)
    BY <2>1, <2>3, AppendProperties
  <2>6. out \in [Procs -> StreamStates] /\ said \in [Procs -> Seq(Pieces)]
    BY DEF Typed
  <2>7. out' \in [Procs -> StreamStates] /\ said' \in [Procs -> Seq(Pieces)]
    BY <2>4, <2>5, <2>6 DEF StreamStates
  <2> QED
    BY <1>2, <2>7 DEF ChildWrites, Typed, given, parent, table
<1>3. CASE ChildExits(p)
  <2>1. \E c \in {"0", "1"} : Ends(p, c)
    BY <1>3 DEF ChildExits
  <2>2. heir' \in [Procs -> BOOLEAN]
    <3>1. heir \in [Procs -> BOOLEAN]
      BY DEF Typed
    <3>2. heir' \in {heir, [heir EXCEPT ![p] = "leave" \in task[p].may]}
      BY <1>3 DEF ChildExits
    <3> DEFINE b == "leave" \in task[p].may
    <3>3. b \in BOOLEAN
      OBVIOUS
    <3> HIDE DEF b
    <3>4. [heir EXCEPT ![p] = b] \in [Procs -> BOOLEAN]
      BY <3>1, <3>3
    <3> QED
      BY <3>1, <3>2, <3>4 DEF b
  <2> QED
    BY <1>3, <2>1, <2>2, TypedEnds DEF ChildExits, Typed, given, parent, history
<1> QED
  BY <1>1, <1>2, <1>3 DEF Program

LEMMA TypedOther ==
  ASSUME Typed, NEW p \in Procs, Other(p)
  PROVE  Typed'
<1>1. CASE ChildComplains(p)
  <2>1. stderr' \in [Procs -> {"open", "ready", "shut"}]
    <3>1. stderr \in [Procs -> {"open", "ready", "shut"}]
      BY DEF Typed
    <3>2. stderr' = [stderr EXCEPT ![p] = "ready"] \/ stderr' = stderr
      BY <1>1 DEF ChildComplains
    <3> QED
      BY <3>1, <3>2
  <2>2. CASE Ends(p, "signal")
    BY <1>1, <2>1, <2>2, TypedEnds DEF ChildComplains, Typed, given, parent, history
  <2>3. CASE UNCHANGED <<table, holders>>
    BY <1>1, <2>1, <2>3 DEF ChildComplains, Typed, given, parent, history, table
  <2> QED
    BY <1>1, <2>2, <2>3 DEF ChildComplains
<1>2. CASE ChildCrashes(p)
  BY <1>2, TypedEnds DEF ChildCrashes, Typed, given, parent, history
<1>3. CASE HeirEnds(p)
  BY <1>3 DEF HeirEnds, Typed, given, parent, table, history
<1> QED
  BY <1>1, <1>2, <1>3, TypedCollected DEF Other

LEMMA TypedStep ==
  ASSUME Typed, Placed, Alone, Collects, [Next]_vars
  PROVE  Typed'
<1>1. CASE UNCHANGED vars
  BY <1>1 DEF vars, given, parent, table, pipes, history, Typed
<1>2. ASSUME NEW j \in Jobs, Begin(j) PROVE Typed'
  BY <1>2, TypedNew, TypedTurns DEF Begin
<1>3. ASSUME NEW j \in Jobs, Continue(j) PROVE Typed'
  BY <1>3, TypedFeed, TypedJoin, TypedTerm, TypedRead DEF Continue
<1>4. ASSUME NEW p \in Procs, Program(p) \/ Other(p) PROVE Typed'
  BY <1>4, TypedProgram, TypedOther
<1> QED
  BY <1>1, <1>2, <1>3, <1>4 DEF Next

-----------------------------------------------------------------------------
(* Where jobs go *)

\* A process of proc.run has one job, which started it; those that are not started
\* have none.
Owned == \A j, k \in Jobs :
  of[j] = of[k] /\ of[j] \in Procs /\ task[of[j]].by = "run" => j = k

Unborn ==
  \A p \in Procs : object[p] = "none" =>
    /\ state[p] = "none" /\ stdin[p] = [pipe |-> 0, read |-> 0, left |-> 0]
    /\ p \notin eof /\ \A j \in Jobs : of[j] # p

\* A job goes from place to place, or begins at a process.
Hops(j, place) ==
  /\ UNCHANGED of /\ pc' = [pc EXCEPT ![j] = place] /\ pc[j] # "idle"
  /\ place \in ByNew => pc[j] \in ByNew
  /\ place = "result" => pc[j] = "result" \/ (pc[j] = "join" /\ task[of[j]].by # "new")
  /\ place = "message" => pc[j] = "message" \/ (pc[j] = "join" /\ task[of[j]].by # "new")
  /\ place \in {"all", "line", "some"} => pc[j] = place
  /\ pc[j] = "feed" => place \in {"feed", "started"}

Starts(j, p, place) ==
  /\ pc[j] = "idle" /\ of' = [of EXCEPT ![j] = p] /\ pc' = [pc EXCEPT ![j] = place]
  /\ \/ /\ object[p] = "none" /\ task[p].by # "none" /\ place \in {"feed", "idle", "started"}
     \/ /\ task[p].by = "new" /\ object[p] # "none"
        /\ place \in {"join", "term1", "kill", "status", "all", "line", "some"}
        /\ place \in Reads => \A k \in Jobs : of[k] = p => pc[k] \notin Reads

Stays == UNCHANGED <<pc, of>>

LEMMA BeginMoves ==
  ASSUME NEW j \in Jobs, Begin(j)
  PROVE  \E p \in Procs, place \in Places : Starts(j, p, place)
<1>1. ASSUME NEW p \in Procs, New(j, p)
      PROVE  \E place \in Places : Starts(j, p, place)
  <2>1. /\ pc[j] = "idle" /\ object[p] = "none" /\ task[p].by # "none"
        /\ of' = [of EXCEPT ![j] = p]
    BY <1>1 DEF New, Turn, Fork
  <2>2. \E place \in {"feed", "idle", "started"} : pc' = [pc EXCEPT ![j] = place]
    BY <1>1 DEF New, PrintRaises
  <2> QED
    BY <2>1, <2>2 DEF Starts, Places
<1>2. ASSUME NEW p \in Procs,
             NEW place \in {"join", "term1", "kill", "status", "all", "line", "some"},
             Turns(j, p, place)
      PROVE  Starts(j, p, place) /\ place \in Places
  <2>1. /\ pc[j] = "idle" /\ object[p] # "none" /\ task[p].by = "new"
        /\ of' = [of EXCEPT ![j] = p] /\ pc' = [pc EXCEPT ![j] = place]
        /\ place \in Reads => \A k \in Jobs : of[k] = p => pc[k] \notin Reads
    BY <1>2, KeptObject DEF Turns, Turn
  <2> QED
    BY <2>1 DEF Starts, Places, Reads
<1> QED
  BY <1>1, <1>2 DEF Begin

LEMMA ContinueMoves ==
  ASSUME Typed, NEW j \in Jobs, Continue(j)
  PROVE  Stays \/ \E place \in Places : Hops(j, place)
<1>0. pc \in [Jobs -> Places]
  BY DEF Typed
<1>1. CASE Feed(j)
  <2>1. pc[j] = "feed" /\ (Stays \/ Goto(j, "feed"))
    BY <1>1 DEF Feed, Turn, Fed, FeedBreaks, WouldBlock, Stays
  <2> QED
    BY <2>1 DEF Goto, Hops, Places, ByNew
<1>2. CASE EndFeed(j)
  <2>1. pc[j] = "feed" /\ Goto(j, "started")
    BY <1>2 DEF EndFeed, Turn
  <2> QED
    BY <2>1 DEF Goto, Hops, Places, ByNew
<1>3. CASE Started(j)
  <2>1. pc[j] = "started" /\ \E place \in {"join", "idle"} : Goto(j, place)
    BY <1>3 DEF Started, Turn
  <2> QED
    BY <2>1 DEF Goto, Hops, Places, ByNew
<1>4. CASE Join(j)
  <2>1. pc[j] = "join"
    BY <1>4 DEF Join, Turn
  <2>2. \/ Stays
        \/ Goto(j, "idle")
        \/ task[of[j]].by # "new" /\ \E place \in {"result", "message"} : Goto(j, place)
    BY <1>4 DEF Join, Joined, WaitsForStderr, WouldBlock, Stays
  <2> QED
    BY <2>1, <2>2 DEF Goto, Hops, Places, ByNew, Reads
<1>5. CASE Term1(j) \/ Term2(j) \/ Term3(j) \/ StatusOnly(j) \/ Kill(j)
  <2>1. pc[j] \in {"term1", "term2", "term3", "status", "kill1", "kill3", "kill"}
    BY <1>5 DEF Term1, Term2, Term3, StatusOnly, Kill, Turn
  <2>2. of' = of /\ \E place \in {"term2", "term3", "kill1", "kill3", "join", "idle"} :
                       pc' = [pc EXCEPT ![j] = place]
    BY <1>5 DEF Term1, Term2, Term3, StatusOnly, Kill, Status, Goto
  <2> QED
    BY <2>1, <2>2 DEF Hops, Places, ByNew, Reads
<1>6. CASE Read(j)
  <2>1. pc[j] \in {"all", "line", "result"}
    BY <1>6 DEF Read
  <2>2. Stays \/ Goto(j, pc[j]) \/ Goto(j, "idle")
    BY <1>6 DEF Read, ReadWaits, ReadChunk, ReadEnds, Returns, WouldBlock, Stays
  <2> QED
    BY <1>0, <2>1, <2>2 DEF Goto, Hops, Places, ByNew, Reads
<1>7. CASE ReadSome(j)
  <2>1. pc[j] = "some" /\ (Stays \/ Goto(j, "idle"))
    BY <1>7 DEF ReadSome, Turn, Returns, WouldBlock, Stays
  <2> QED
    BY <2>1 DEF Goto, Hops, Places, ByNew
<1>8. CASE Message(j)
  <2>1. pc[j] = "message" /\ (Stays \/ Goto(j, "message") \/ Goto(j, "idle"))
    BY <1>8 DEF Message, Turn, WouldBlock, Stays
  <2> QED
    BY <2>1 DEF Goto, Hops, Places, ByNew
<1> QED
  BY <1>1, <1>2, <1>3, <1>4, <1>5, <1>6, <1>7, <1>8 DEF Continue

LEMMA ProcsStay ==
  ASSUME NEW p \in Procs, Program(p) \/ Other(p)
  PROVE  Stays
BY DEF Program, Other, ChildReads, ChildWrites, ChildExits, Collected, ChildComplains,
       ChildCrashes, HeirEnds, parent, Stays

\* Every step leaves what a process is like alone, and moves at most one job.
LEMMA Moves ==
  ASSUME Typed, [Next]_vars
  PROVE  /\ UNCHANGED given
         /\ \/ Stays
            \/ \E j \in Jobs, place \in Places : Hops(j, place)
            \/ \E j \in Jobs, p \in Procs, place \in Places : Starts(j, p, place)
<1>1. CASE UNCHANGED vars
  BY <1>1 DEF vars, parent, Stays
<1>2. ASSUME NEW j \in Jobs, Begin(j)
      PROVE  UNCHANGED given /\ \E p \in Procs, place \in Places : Starts(j, p, place)
  BY <1>2, BeginMoves DEF Begin, New, Turns
<1>3. ASSUME NEW j \in Jobs, Continue(j)
      PROVE  UNCHANGED given /\ (Stays \/ \E place \in Places : Hops(j, place))
  <2>1. UNCHANGED given
    BY <1>3 DEF Continue, Feed, EndFeed, Started, Join, Term1, Term2, Term3, StatusOnly, Kill,
                Read, ReadSome, Message
  <2> QED
    BY <1>3, <2>1, ContinueMoves
<1>4. ASSUME NEW p \in Procs, Program(p) \/ Other(p)
      PROVE  UNCHANGED given /\ Stays
  <2>1. UNCHANGED given
    BY <1>4 DEF Program, Other, ChildReads, ChildWrites, ChildExits, Collected, ChildComplains,
                ChildCrashes, HeirEnds
  <2> QED
    BY <1>4, <2>1, ProcsStay
<1> QED
  BY <1>1, <1>2, <1>3, <1>4 DEF Next

LEMMA PlacedStep ==
  ASSUME Typed, Placed, [Next]_vars
  PROVE  Placed'
<1>1. task' = task
  BY Moves DEF given
<1>2. CASE Stays
  BY <1>1, <1>2 DEF Stays, Placed
<1>3. ASSUME NEW j \in Jobs, NEW place \in Places, Hops(j, place) PROVE Placed'
  BY <1>1, <1>3 DEF Hops, Placed, Typed
<1>4. ASSUME NEW j \in Jobs, NEW p \in Procs, NEW place \in Places, Starts(j, p, place)
      PROVE  Placed'
  <2>1. task[p].by \in {"run", "new", "none"}
    BY DEF Typed, Task
  <2> QED
    BY <1>1, <1>4, <2>1 DEF Starts, Placed, Typed, ByNew
<1> QED
  BY <1>2, <1>3, <1>4, Moves

LEMMA OwnedStep ==
  ASSUME Typed, Placed, Unborn, Owned, Alone, [Next]_vars
  PROVE  Owned' /\ Alone'
<1>1. task' = task
  BY Moves DEF given
<1>2. CASE Stays
  BY <1>1, <1>2 DEF Stays, Owned, Alone
<1>3. ASSUME NEW j \in Jobs, NEW place \in Places, Hops(j, place) PROVE Owned' /\ Alone'
  <2>1. Owned'
    BY <1>1, <1>3 DEF Hops, Owned
  <2>2. CASE place \notin Reads
    BY <1>3, <2>1, <2>2 DEF Hops, Alone, Typed
  <2>3. CASE place \in Reads /\ pc[j] = place
    BY <1>3, <2>1, <2>3 DEF Hops, Alone, Typed
  <2>4. CASE place \in Reads /\ pc[j] # place
    <3>1. place = "result" /\ of[j] \in Procs /\ task[of[j]].by = "run"
      BY <1>3, <2>4 DEF Hops, Placed, Reads
    <3>2. \A k \in Jobs : of[k] = of[j] => k = j
      BY <3>1 DEF Owned
    <3> QED
      BY <1>3, <2>1, <3>2 DEF Hops, Alone, Typed
  <2> QED
    BY <2>2, <2>3, <2>4
<1>4. ASSUME NEW j \in Jobs, NEW p \in Procs, NEW place \in Places, Starts(j, p, place)
      PROVE  Owned' /\ Alone'
  <2>1. CASE object[p] = "none" /\ place \in {"feed", "idle", "started"}
    <3>1. \A k \in Jobs : of[k] # p
      BY <2>1 DEF Unborn
    <3>2. Owned'
      BY <1>1, <1>4, <3>1 DEF Starts, Owned, Typed
    <3> QED
      BY <1>4, <2>1, <3>2 DEF Starts, Alone, Typed, Reads
  <2>2. CASE /\ task[p].by = "new"
             /\ place \in Reads => \A k \in Jobs : of[k] = p => pc[k] \notin Reads
    BY <1>1, <1>4, <2>2 DEF Starts, Owned, Alone, Typed
  <2> QED
    BY <1>4, <2>1, <2>2 DEF Starts
<1> QED
  BY <1>2, <1>3, <1>4, Moves

-----------------------------------------------------------------------------
(* What has not been started *)

\* What a step does to the processes: their table and their stdin.
LEMMA UnbornKept ==
  ASSUME Unborn,
         \A p \in Procs : object'[p] = "none" =>
           /\ object[p] = "none"
           /\ state[p] = "none" => state'[p] = "none"
           /\ (\A j \in Jobs : of[j] # p) =>
                /\ \A j \in Jobs : of'[j] # p
                /\ state[p] = "none" => /\ stdin'[p] = stdin[p]
                                        /\ p \in eof' => p \in eof
  PROVE  Unborn'
BY DEF Unborn

\* A call of status reaps processes that have ended, and nothing else.
LEMMA DecidedStates ==
  ASSUME Typed, NEW j \in Jobs, Decided(j)
  PROVE  \A p \in Procs :
           /\ ~Unreaped(p) => state'[p] = state[p]
           /\ Alive(p) => p \notin Named(of[j])
           /\ state'[p] = state[p] \/ (p \in Named(of[j]) /\ state'[p] = "reaped")
<1>1. ASSUME NEW p \in Procs
      PROVE  state'[p] = IF p \in Named(of[j]) THEN "reaped" ELSE state[p]
  BY DEF Decided, Typed
<1>2. \A p \in Procs : p \in Named(of[j]) => Unreaped(p) /\ ~Alive(p)
  BY DEF Named, Decided
<1> QED
  BY <1>1, <1>2

LEMMA UnbornStep ==
  ASSUME Typed, Placed, Unborn, [Next]_vars
  PROVE  Unborn'
<1> USE DEF Typed
<1>1. CASE UNCHANGED vars
  BY <1>1 DEF vars, parent, table, pipes, Unborn
<1>2. ASSUME NEW j \in Jobs, NEW p \in Procs, New(j, p) PROVE Unborn'
  <2>1. /\ \A q \in Procs \ {p} : object'[q] = object[q] /\ state'[q] = state[q]
        /\ object'[p] = "live"
    BY <1>2 DEF New, Fork
  <2>2. \A q \in Procs \ {p} : stdin'[q] = stdin[q] /\ eof' = eof
    BY <1>2 DEF New
  <2>3. of' = [of EXCEPT ![j] = p]
    BY <1>2 DEF New
  <2> QED
    BY <2>1, <2>2, <2>3, UnbornKept
<1>3. ASSUME NEW j \in Jobs, NEW p \in Procs, NEW place, Turns(j, p, place) PROVE Unborn'
  <2>1. UNCHANGED <<object, state, stdin, eof>> /\ of' = [of EXCEPT ![j] = p] /\ object[p] = "live"
    BY <1>3, KeptObject DEF Turns, table, pipes
  <2> QED
    BY <2>1, UnbornKept
<1>4. ASSUME NEW j \in Jobs, Continue(j) PROVE Unborn'
  <2>1. of' = of
    BY <1>4, ContinueMoves DEF Stays, Hops
  <2>2. object' = object /\ eof' = eof
    BY <1>4 DEF Continue, Feed, EndFeed, Started, Join, Term1, Term2, Term3, StatusOnly, Kill,
                Read, ReadSome, Message, table, pipes, Status, Decided
  <2>3. \A p \in Procs : state[p] = "none" => state'[p] = "none"
    <3>1. state' = state \/ Decided(j)
      BY <1>4 DEF Continue, Feed, EndFeed, Started, Join, Term1, Term2, Term3, StatusOnly, Kill,
                  Read, ReadSome, Message, table, Status
    <3> QED
      BY <3>1, DecidedStates DEF Unreaped
  <2>4. \A p \in Procs : of[j] # p => stdin'[p] = stdin[p]
    BY <1>4 DEF Continue, Feed, EndFeed, Started, Join, Term1, Term2, Term3, StatusOnly, Kill,
                Read, ReadSome, Message, pipes, Fed, FeedBreaks
  <2> QED
    BY <2>1, <2>2, <2>3, <2>4, UnbornKept
<1>5. ASSUME NEW p \in Procs, Program(p) \/ ChildComplains(p) \/ ChildCrashes(p) \/ HeirEnds(p)
      PROVE  Unborn'
  <2>1. object' = object /\ of' = of
    BY <1>5 DEF Program, ChildReads, ChildWrites, ChildExits, ChildComplains, ChildCrashes,
                HeirEnds, table, parent, Ends
  <2>2. \A q \in Procs : state[q] = "none" => state'[q] = "none"
    BY <1>5 DEF Program, ChildReads, ChildWrites, ChildExits, ChildComplains, ChildCrashes,
                HeirEnds, table, parent, Ends, Alive
  <2>3. \A q \in Procs : state[q] = "none" => stdin'[q] = stdin[q] /\ (q \in eof' => q \in eof)
    BY <1>5 DEF Program, ChildReads, ChildWrites, ChildExits, ChildComplains, ChildCrashes,
                HeirEnds, Alive
  <2> QED
    BY <2>1, <2>2, <2>3, UnbornKept
<1>6. ASSUME NEW p \in Procs, Collected(p) PROVE Unborn'
  BY <1>6, UnbornKept DEF Collected, parent, Named, Unreaped
<1> QED
  BY <1>1, <1>2, <1>3, <1>4, <1>5, <1>6 DEF Next, Begin, Other

-----------------------------------------------------------------------------
(* stdin *)

\* While a process lives all that it is given is in its pipe, read, or still to be
\* written, by a job that keeps the pipe open; nothing comes after the end.
FedAll(p) ==
    /\ stdin[p].pipe <= Room
    /\ stdin[p].pipe + stdin[p].read + stdin[p].left <= Input
    /\ Alive(p) => stdin[p].pipe + stdin[p].read + stdin[p].left = Printed(p)
    /\ stdin[p].left > 0 => /\ Nobody \in holders[p] \/ host = "killed"
                            /\ \E j \in Jobs : of[j] = p /\ pc[j] = "feed"
    /\ p \in eof => /\ stdin[p].pipe = 0 /\ stdin[p].read + stdin[p].left = Printed(p)
                    /\ stdin[p].left = 0 \/ host = "killed"

FedWhole == \A p \in Procs : FedAll(p)

LEMMA FedKept ==
  ASSUME NEW p, FedAll(p), task' = task, stdin'[p] = stdin[p], p \in eof' => p \in eof,
         Alive(p)' => Alive(p),
         host = "killed" => host' = "killed",
         stdin[p].left > 0 /\ Nobody \in holders[p]
           => Nobody \in holders'[p] \/ host' = "killed",
         stdin[p].left > 0 /\ (\E j \in Jobs : of[j] = p /\ pc[j] = "feed")
           => \E j \in Jobs : of'[j] = p /\ pc'[j] = "feed"
  PROVE  FedAll(p)'
<1>1. Printed(p)' = Printed(p)
  BY DEF Printed
<1> QED
  BY <1>1 DEF FedAll

LEMMA FedStep ==
  ASSUME Typed, Placed, Unborn, FedWhole, [Next]_vars
  PROVE  FedWhole'
<1>0. /\ \A p \in Procs : FedAll(p)
      /\ task' = task /\ \A p : Printed(p)' = Printed(p)
      /\ Nobody \notin Procs /\ Input \in Nat /\ Room \in Nat
      /\ \A p \in Procs : /\ Printed(p) \in Nat /\ Printed(p) <= Input
                          /\ stdin[p] \in Inputs
                          /\ stdin[p].pipe \in Nat /\ stdin[p].read \in Nat
                          /\ stdin[p].left \in Nat
  <2>1. task' = task
    BY Moves DEF given
  <2>2. \A p : Printed(p)' = Printed(p)
    BY <2>1 DEF Printed
  <2> QED
    BY <2>1, <2>2, PrintedIn, JobsAssumption, SizesAssumption DEF FedWhole, Typed, Inputs
<1>00. SUFFICES ASSUME NEW q \in Procs PROVE FedAll(q)'
  BY DEF FedWhole, FedAll
<1>1. CASE UNCHANGED vars
  BY <1>0, <1>1, FedKept DEF vars, parent, table, pipes, Alive
<1>2. ASSUME NEW j \in Jobs, NEW p \in Procs, New(j, p) PROVE FedAll(q)'
  <2>1. /\ object[p] = "none" /\ state' = [state EXCEPT ![p] = "alive"] /\ eof' = eof
        /\ of' = [of EXCEPT ![j] = p] /\ pc[j] = "idle"
        /\ stdin' = [stdin EXCEPT ![p].left = Printed(p)]
        /\ host = "up" /\ host' = host
    BY <1>2 DEF New, Turn, Fork
  <2>2. CASE q = p
    <3>1. stdin[p] = [pipe |-> 0, read |-> 0, left |-> 0] /\ p \notin eof
      BY <2>1 DEF Unborn
    <3>2. stdin'[p].pipe = 0 /\ stdin'[p].read = 0 /\ stdin'[p].left = Printed(p)
      BY <2>1, <3>1 DEF Typed, Inputs
    <3>3. ASSUME Printed(p) > 0
          PROVE  /\ Nobody \in holders'[p] /\ of'[j] = p /\ pc'[j] = "feed"
      <4>1. task[p].stdin \in {"text", "doubled"}
        BY <3>3 DEF Printed
      <4> QED
        BY <1>2, <4>1 DEF New, Typed, Inherited, PrintRaises
    <3> QED
      BY <1>0, <2>1, <2>2, <3>1, <3>2, <3>3 DEF FedAll
  <2>3. CASE q # p
    <3>1. stdin'[q] = stdin[q] /\ state'[q] = state[q]
      BY <2>1, <2>3 DEF Typed
    <3>2. Nobody \in holders[q] => Nobody \in holders'[q]
      BY <1>2, <2>3 DEF New, Inherited, Typed
    <3>3. \A k \in Jobs : pc[k] = "feed" => of'[k] = of[k] /\ pc'[k] = pc[k]
      BY <1>2, <2>1 DEF New, Typed
    <3> QED
      BY <1>0, <2>1, <3>1, <3>2, <3>3, FedKept DEF Alive
  <2> QED
    BY <2>2, <2>3
<1>3. ASSUME NEW j \in Jobs, NEW p \in Procs, NEW place, Turns(j, p, place) PROVE FedAll(q)'
  <2>1. /\ UNCHANGED <<host, state, stdin, eof, holders>>
        /\ \A k \in Jobs : pc[k] = "feed" => of'[k] = of[k] /\ pc'[k] = pc[k]
    BY <1>3 DEF Turns, Turn, table, pipes, Typed
  <2> QED
    BY <1>0, <2>1, FedKept DEF Alive
<1>4. ASSUME NEW j \in Jobs, Feed(j) PROVE FedAll(q)'
  <2>0. PICK p : p = of[j]
    OBVIOUS
  <2>1. p \in Procs /\ pc[j] = "feed" /\ stdin[p].left > 0 /\ host = "up"
    BY <1>4, <2>0 DEF Feed, Turn, Placed
  <2>2. UNCHANGED <<of, pc, state, eof>>
    <3>1. of' = of /\ (pc' = pc \/ pc' = [pc EXCEPT ![j] = "feed"])
      BY <1>4 DEF Feed, Fed, FeedBreaks, WouldBlock, Goto
    <3> QED
      BY <1>4, <2>1, <3>1 DEF Feed, table, Typed
  <2>3. CASE stdin' = stdin \/ q # p
    <3>1. stdin'[q] = stdin[q]
      BY <1>4, <2>0, <2>3 DEF Feed, Fed, FeedBreaks, Typed
    <3>2. UNCHANGED holders \/ host' = "killed"
      BY <1>4 DEF Feed, FeedBreaks
    <3> QED
      BY <1>0, <2>1, <2>2, <3>1, <3>2, FedKept DEF Alive
  <2>4. ASSUME NEW n \in 1..stdin[p].left, stdin[p].pipe + n <= Room, q = p,
               stdin' = [stdin EXCEPT ![p].pipe = @ + n, ![p].left = @ - n],
               UNCHANGED <<host, holders>>
        PROVE  FedAll(q)'
    <3>1. /\ stdin'[p].pipe = stdin[p].pipe + n /\ stdin'[p].read = stdin[p].read
          /\ stdin'[p].left = stdin[p].left - n
      BY <1>0, <2>1, <2>4 DEF Typed, Inputs
    <3>2. stdin[p].left > 0 => p \notin eof
      BY <1>0, <2>1 DEF FedAll
    <3>3. n \in Nat /\ stdin'[p].left >= 0
          /\ stdin'[p].pipe + stdin'[p].read + stdin'[p].left
              = stdin[p].pipe + stdin[p].read + stdin[p].left
      BY <1>0, <2>1, <2>4, <3>1
    <3>4. Alive(p)' = Alive(p)
      BY <2>2 DEF Alive
    <3>5. /\ stdin'[p].pipe <= Room
          /\ stdin'[p].pipe + stdin'[p].read + stdin'[p].left <= Input
          /\ Alive(p)' => stdin'[p].pipe + stdin'[p].read + stdin'[p].left = Printed(p)'
      BY <1>0, <2>1, <2>4, <3>1, <3>3, <3>4 DEF FedAll
    <3> QED
      BY <1>0, <2>0, <2>1, <2>2, <2>4, <3>2, <3>5 DEF FedAll
  <2>5. ASSUME ~Alive(p), q = p, stdin' = [stdin EXCEPT ![p].left = 0],
               UNCHANGED <<host, holders>>
        PROVE  FedAll(q)'
    <3>1. stdin'[p].pipe = stdin[p].pipe /\ stdin'[p].read = stdin[p].read /\ stdin'[p].left = 0
      BY <1>0, <2>1, <2>5 DEF Typed, Inputs
    <3>2. stdin[p].left > 0 => p \notin eof
      BY <1>0, <2>1 DEF FedAll
    <3>3. stdin[p].pipe <= Room /\ stdin[p].pipe + stdin[p].read + stdin[p].left <= Input
      BY <1>0, <2>1 DEF FedAll
    <3>4. stdin'[p].pipe + stdin'[p].read + stdin'[p].left <= Input
      BY <1>0, <2>1, <3>1, <3>3
    <3>5. ~Alive(p)'
      BY <2>2, <2>5 DEF Alive
    <3> QED
      BY <1>0, <2>1, <2>2, <2>5, <3>1, <3>2, <3>3, <3>4, <3>5 DEF FedAll
  <2> QED
    BY <1>4, <2>0, <2>3, <2>4, <2>5 DEF Feed, Fed, FeedBreaks
<1>5. ASSUME NEW j \in Jobs, EndFeed(j) PROVE FedAll(q)'
  <2>1. /\ UNCHANGED <<of, host, state, stdin, eof>> /\ stdin[of[j]].left = 0
        /\ pc' = [pc EXCEPT ![j] = "started"] /\ holders' = [holders EXCEPT ![of[j]] = @ \ {Nobody}]
    BY <1>5 DEF EndFeed, Turn, Goto, table
  <2>2. CASE q = of[j]
    BY <1>0, <2>1, <2>2, FedKept DEF Alive
  <2>3. CASE q # of[j]
    <3>1. holders'[q] = holders[q]
      BY <2>1, <2>3 DEF Typed
    <3>2. \A k \in Jobs : of[k] = q => pc'[k] = pc[k]
      BY <2>1, <2>3 DEF Typed
    <3> QED
      BY <1>0, <2>1, <3>1, <3>2, FedKept DEF Alive
  <2> QED
    BY <2>2, <2>3
<1>6. ASSUME NEW j \in Jobs, Continue(j), ~Feed(j), ~EndFeed(j) PROVE FedAll(q)'
  <2>1. /\ UNCHANGED <<stdin, eof, holders>> /\ pc[j] # "feed" /\ host = "up"
    BY <1>6 DEF Continue, Started, Join, Term1, Term2, Term3, StatusOnly, Kill,
                Read, ReadSome, Message, pipes, Turn, Reads
  <2>2. \A k \in Jobs : of'[k] = of[k] /\ (pc[k] = "feed" => pc'[k] = "feed")
    <3>1. pc \in [Jobs -> Places]
      BY DEF Typed
    <3>2. of' = of /\ (pc' = pc \/ \E place \in Places : pc' = [pc EXCEPT ![j] = place])
      BY <1>6, ContinueMoves DEF Stays, Hops
    <3> QED
      BY <2>1, <3>1, <3>2
  <2>3. Alive(q)' => Alive(q)
    <3>1. state' = state \/ Decided(j)
      BY <1>6 DEF Continue, Started, Join, Term1, Term2, Term3, StatusOnly, Kill,
                  Read, ReadSome, Message, table, Status
    <3> QED
      BY <3>1 DEF Decided, Alive, Typed
  <2> QED
    BY <1>0, <2>1, <2>2, <2>3, FedKept
<1>7. ASSUME NEW p \in Procs, ChildReads(p) PROVE FedAll(q)'
  <2>1. UNCHANGED <<of, pc, host, state, holders>> /\ Alive(p)
    BY <1>7 DEF ChildReads, parent, table
  <2>2. CASE q # p
    <3>1. stdin'[q] = stdin[q] /\ (q \in eof' => q \in eof)
      BY <1>7, <2>2 DEF ChildReads, Typed
    <3> QED
      BY <1>0, <2>1, <3>1, FedKept DEF Alive
  <2>3. CASE /\ q = p /\ stdin[p].pipe > 0 /\ UNCHANGED eof
             /\ stdin' = [stdin EXCEPT ![p].pipe = @ - 1, ![p].read = @ + 1]
    <3>1. /\ stdin'[p].pipe = stdin[p].pipe - 1 /\ stdin'[p].read = stdin[p].read + 1
          /\ stdin'[p].left = stdin[p].left
      BY <1>0, <2>3 DEF Typed, Inputs
    <3>2. Alive(p)' = Alive(p)
      BY <2>1 DEF Alive
    <3>3. p \notin eof
      BY <1>0, <2>3 DEF FedAll
    <3>4. /\ stdin'[p].pipe <= Room
          /\ stdin'[p].pipe + stdin'[p].read + stdin'[p].left
               = stdin[p].pipe + stdin[p].read + stdin[p].left
      BY <1>0, <2>3, <3>1 DEF FedAll
    <3> QED
      BY <1>0, <2>1, <2>3, <3>1, <3>2, <3>3, <3>4 DEF FedAll
  <2>4. CASE q = p /\ stdin[p].pipe = 0 /\ holders[p] = {} /\ UNCHANGED stdin
    <3>1. Alive(p)' = Alive(p)
      BY <2>1 DEF Alive
    <3>2. /\ stdin[p].read + stdin[p].left = Printed(p)
          /\ stdin[p].left = 0 \/ host = "killed"
      BY <1>0, <2>1, <2>4 DEF FedAll
    <3> QED
      BY <1>0, <2>1, <2>4, <3>1, <3>2 DEF FedAll
  <2> QED
    BY <1>7, <2>2, <2>3, <2>4 DEF ChildReads
<1>8. ASSUME NEW p \in Procs,
             ChildWrites(p) \/ ChildExits(p) \/ ChildComplains(p) \/ ChildCrashes(p) \/ HeirEnds(p)
      PROVE  FedAll(q)'
  <2>1. UNCHANGED <<of, pc, host, stdin, eof>>
    BY <1>8 DEF ChildWrites, ChildExits, ChildComplains, ChildCrashes, HeirEnds, parent
  <2>2. UNCHANGED <<state, holders>> \/ \E c \in {"0", "1", "signal"} : Ends(p, c)
    BY <1>8 DEF ChildWrites, ChildExits, ChildComplains, ChildCrashes, HeirEnds, table
  <2>3. /\ Alive(q)' => Alive(q)
        /\ Nobody \in holders[q] => Nobody \in holders'[q]
    BY <1>0, <2>2 DEF Ends, Alive, Typed
  <2> QED
    BY <1>0, <2>1, <2>3, FedKept
<1>9. ASSUME NEW p \in Procs, Collected(p) PROVE FedAll(q)'
  <2>1. UNCHANGED <<of, pc, host, stdin, eof>>
    BY <1>9 DEF Collected, parent
  <2>2. Alive(q)' => Alive(q)
    BY <1>9 DEF Collected, Alive, Typed
  <2>3. q = p => stdin[q].left = 0
    BY <1>0, <1>9 DEF Collected, FedAll
  <2>4. q # p /\ Nobody \in holders[q] => Nobody \in holders'[q]
    BY <1>0, <1>9 DEF Collected, Named
  <2> QED
    BY <1>0, <2>1, <2>2, <2>3, <2>4, FedKept
<1> QED
  BY <1>1, <1>2, <1>3, <1>4, <1>5, <1>6, <1>7, <1>8, <1>9 DEF Next, Begin, Program, Other

-----------------------------------------------------------------------------
(* stdout *)

\* What reads have returned and what is left to be returned are what was written.
InOrder(p) == p \notin stale => Cat(got[p], Unread(out[p])) = said[p]

\* Nothing but its result is read of a process of proc.run, which leaves no buffer.
Unbuffered(p) == task[p].by = "run" => out[p].buffer = <<>> /\ p \notin stale

Flow == \A p \in Procs : InOrder(p) /\ Unbuffered(p)

LEMMA StreamsUntouched ==
  ASSUME Collects, Flow, UNCHANGED <<task, out, got, said, stale>>,
         \A p \in Procs : Collecting(p) => Collecting(p)'
  PROVE  Collects' /\ Flow'
<1>1. \A p : Unread(out[p])' = Unread(out[p])
  BY DEF Unread, Kept
<1> QED
  BY <1>1 DEF Collects, Flow, InOrder, Unbuffered

LEMMA StreamWritten ==
  ASSUME Typed, Placed, Collects, Flow, NEW p \in Procs, ChildWrites(p)
  PROVE  Collects' /\ Flow'
<1> DEFINE x == task[p].says[Len(said[p]) + 1]
<1>1. x \in Pieces
  <2>1. task[p].says \in Seq(Pieces) /\ said[p] \in Seq(Pieces)
    BY DEF Typed, Task
  <2>2. Len(said[p]) < Len(task[p].says)
    BY DEF ChildWrites, Wants
  <2> QED
    BY <2>1, <2>2, ElementOfSeq, LenProperties
<1>2. /\ out' = [out EXCEPT ![p].pipe = Append(@, x)] /\ said' = [said EXCEPT ![p] = Append(@, x)]
      /\ UNCHANGED <<pc, of, got, stale, task>>
  BY DEF ChildWrites, parent, given
<1> HIDE DEF x
<1>3. /\ out \in [Procs -> StreamStates] /\ said \in [Procs -> Seq(Pieces)]
      /\ got[p] \in Seq(Pieces) /\ out[p] \in StreamStates /\ said[p] \in Seq(Pieces)
  BY DEF Typed
<1>4. \A q \in Procs : out'[q].chunks = out[q].chunks /\ out'[q].buffer = out[q].buffer
  BY <1>2, <1>3 DEF StreamStates
<1>5. Collects'
  BY <1>2, <1>4 DEF Collects, Collecting
<1>6. ASSUME NEW q \in Procs PROVE InOrder(q)' /\ Unbuffered(q)'
  <2>1. Unbuffered(q)'
    BY <1>2, <1>4, <1>6 DEF Flow, Unbuffered
  <2>2. CASE q # p
    <3>1. out'[q] = out[q] /\ said'[q] = said[q] /\ got'[q] = got[q]
      BY <1>2, <1>3, <2>2
    <3>2. Unread(out'[q]) = Unread(out[q])
      BY <3>1
    <3> QED
      BY <1>2, <2>1, <3>1, <3>2 DEF Flow, InOrder
  <2>3. CASE q = p
    <3> DEFINE s == out[p]
               n == out'[p]
               one == <<x>>
    <3>1. /\ s.pipe \in Seq(Pieces) /\ Kept(s) \in Seq(Pieces) /\ Unread(s) \in Seq(Pieces)
          /\ one \in Seq(Pieces)
      BY <1>1, <1>3, KeptType
    <3>2. n.pipe = Cat(s.pipe, one) /\ said'[p] = Cat(said[p], one)
      <4>1. n.pipe = Append(s.pipe, x) /\ said'[p] = Append(said[p], x)
        BY <1>2, <1>3 DEF StreamStates
      <4> QED
        BY <1>1, <1>3, <3>1, <4>1, AppendIsConcat DEF Cat
    <3>3. Kept(n) = Kept(s)
      BY <1>4 DEF Kept
    <3>4. PICK k, i, g, o \in Seq(Pieces) : k = Kept(s) /\ i = s.pipe /\ g = got[p] /\ o = one
      BY <1>3, <3>1
    <3>5. Unread(n) = Cat(k, Cat(i, o)) /\ Unread(s) = Cat(k, i)
      BY <3>2, <3>3, <3>4 DEF Unread
    <3>10. k \in Seq(Pieces) /\ i \in Seq(Pieces) /\ g \in Seq(Pieces) /\ o \in Seq(Pieces)
      BY <3>4
    <3>6. Cat(k, Cat(i, o)) = Cat(Cat(k, i), o)
      BY <3>10, Associates
    <3>7. Cat(g, Cat(Cat(k, i), o)) = Cat(Cat(g, Cat(k, i)), o)
      <4>1. Cat(k, i) \in Seq(Pieces)
        BY <3>10, Associates
      <4> QED
        BY <3>10, <4>1, Associates
    <3>8. p \notin stale => Cat(g, Cat(k, i)) = said[p]
      BY <3>4, <3>5 DEF Flow, InOrder
    <3>9. p \notin stale => Cat(g, Unread(n)) = said'[p]
      BY <3>2, <3>4, <3>5, <3>6, <3>7, <3>8
    <3> QED
      BY <1>2, <2>1, <2>3, <3>4, <3>9 DEF InOrder
  <2> QED
    BY <2>2, <2>3
<1> QED
  BY <1>5, <1>6 DEF Flow

LEMMA StreamRead ==
  ASSUME Typed, Placed, Alone, Collects, Flow, NEW j \in Jobs, Read(j) \/ ReadSome(j)
  PROVE  Collects' /\ Flow'
<1>1. PICK p : p = of[j]
  OBVIOUS
<1>2. /\ p \in Procs /\ pc[j] \in Reads /\ task' = task /\ said' = said
      /\ task[p].by = "run" => pc[j] = "result"
  BY <1>1 DEF Placed, Read, ReadSome, Turn, Reads, given, ByNew
<1>3. /\ out[p] \in StreamStates /\ got \in [Procs -> Seq(Pieces)]
      /\ pc \in [Jobs -> Places] /\ Unread(out[p]) \in Seq(Pieces)
  BY <1>2, KeptType DEF Typed
<1>4. CASE GoesOn(j)
  <2>1. /\ \A q \in Procs \ {p} : out'[q] = out[q]
        /\ UNCHANGED <<got, stale, of, pc>>
        /\ Unread(out'[p]) = Unread(out[p]) /\ out'[p].buffer = out[p].buffer
        /\ out'[p].chunks # <<>> => out[p].chunks # <<>> \/ pc[j] \in {"all", "line", "result"}
    BY <1>1, <1>4 DEF GoesOn
  <2>2. \A q \in Procs : Unread(out'[q]) = Unread(out[q]) /\ out'[q].buffer = out[q].buffer
    BY <2>1
  <2>3. Flow'
    BY <1>2, <2>1, <2>2 DEF Flow, InOrder, Unbuffered
  <2>4. Collects'
    BY <1>1, <1>2, <2>1 DEF Collects, Collecting
  <2> QED
    BY <2>3, <2>4
<1>5. ASSUME NEW pieces, Takes(j, pieces) PROVE Collects' /\ Flow'
  <2>1. /\ \A q \in Procs \ {p} : out'[q] = out[q]
        /\ got' = [got EXCEPT ![p] = IF p \in stale THEN @ ELSE Cat(@, pieces)]
        /\ pieces \in Seq(Pieces) /\ stale' \in {stale, stale \cup {p}}
        /\ p \notin stale' => Cat(pieces, Unread(out'[p])) = Unread(out[p])
        /\ UNCHANGED of /\ pc' = [pc EXCEPT ![j] = "idle"] /\ out'[p].chunks = <<>>
        /\ pc[j] = "result" => /\ out'[p].buffer = out[p].buffer
                               /\ out[p].buffer = <<>> => stale' = stale
        /\ out'[p] \in StreamStates
    BY <1>1, <1>2, <1>5 DEF Takes
  <2>2. Collects'
    <3>1. SUFFICES ASSUME NEW q \in Procs, out'[q].chunks # <<>> PROVE Collecting(q)'
      BY DEF Collects
    <3>2. q # p /\ out'[q] = out[q]
      BY <2>1, <3>1
    <3>3. PICK k \in Jobs : of[k] = q /\ pc[k] \in {"all", "line", "result"}
      BY <3>1, <3>2 DEF Collects, Collecting
    <3>4. of'[k] = of[k] /\ pc'[k] = pc[k]
      BY <1>1, <1>3, <2>1, <3>2, <3>3
    <3> QED
      BY <3>3, <3>4 DEF Collecting
  <2>3. ASSUME NEW q \in Procs, q # p PROVE InOrder(q)' /\ Unbuffered(q)'
    <3>1. /\ out'[q] = out[q] /\ got'[q] = got[q] /\ (q \in stale' <=> q \in stale)
          /\ Unread(out'[q]) = Unread(out[q])
      BY <1>3, <2>1, <2>3
    <3> QED
      BY <1>2, <3>1 DEF Flow, InOrder, Unbuffered
  <2>4. Unbuffered(p)'
    BY <1>2, <2>1 DEF Flow, Unbuffered
  <2>5. InOrder(p)'
    <3>1. SUFFICES ASSUME p \notin stale' PROVE Cat(got'[p], Unread(out'[p])) = said'[p]
      BY DEF InOrder
    <3>2. p \notin stale
      BY <2>1, <3>1
    <3>3. got'[p] = Cat(got[p], pieces) /\ Cat(pieces, Unread(out'[p])) = Unread(out[p])
      BY <1>2, <1>3, <2>1, <3>1, <3>2
    <3>4. PICK g, u, w \in Seq(Pieces) : g = got[p] /\ u = pieces /\ w = Unread(out'[p])
      BY <1>2, <1>3, <2>1, KeptType
    <3>5. Cat(Cat(g, u), w) = Cat(g, Cat(u, w))
      <4>1. g \in Seq(Pieces) /\ u \in Seq(Pieces) /\ w \in Seq(Pieces)
        BY <3>4
      <4> QED
        BY <4>1, Associates
    <3>6. Cat(got[p], Unread(out[p])) = said[p]
      BY <1>2, <3>2 DEF Flow, InOrder
    <3> QED
      BY <1>2, <3>3, <3>4, <3>5, <3>6
  <2> QED
    BY <2>2, <2>3, <2>4, <2>5 DEF Flow
<1> QED
  BY <1>4, <1>5, ReadEffect, ReadSomeEffect

LEMMA StreamsStep ==
  ASSUME Typed, Placed, Alone, Collects, Flow, [Next]_vars
  PROVE  Collects' /\ Flow'
<1>0. task' = task /\ pc \in [Jobs -> Places]
  BY Moves DEF given, Typed
<1>1. CASE UNCHANGED vars
  BY <1>1, StreamsUntouched DEF vars, parent, pipes, history, given, Collecting
<1>2. ASSUME NEW j \in Jobs, Begin(j) PROVE Collects' /\ Flow'
  <2>1. UNCHANGED <<out, got, said, stale>>
    BY <1>2 DEF Begin, New, Turns, pipes, history
  <2>2. \A p \in Procs : Collecting(p) => Collecting(p)'
    <3>1. PICK p \in Procs, place \in Places : Starts(j, p, place)
      BY <1>2, BeginMoves
    <3>2. \A k \in Jobs : pc[k] # "idle" => pc'[k] = pc[k] /\ of'[k] = of[k]
      BY <1>0, <3>1 DEF Starts, Typed
    <3> QED
      BY <3>2 DEF Collecting
  <2> QED
    BY <1>0, <2>1, <2>2, StreamsUntouched
<1>3. ASSUME NEW j \in Jobs, Continue(j), ~Read(j), ~ReadSome(j) PROVE Collects' /\ Flow'
  <2>1. UNCHANGED <<out, got, said, stale>> /\ pc[j] \notin {"all", "line", "result"}
    BY <1>3 DEF Continue, Feed, EndFeed, Started, Join, Term1, Term2, Term3, StatusOnly, Kill,
                Message, pipes, history, Turn
  <2>2. \A k \in Jobs \ {j} : pc'[k] = pc[k] /\ of'[k] = of[k]
    BY <1>0, <1>3, ContinueMoves DEF Stays, Hops
  <2>3. \A p \in Procs : Collecting(p) => Collecting(p)'
    BY <2>1, <2>2 DEF Collecting
  <2> QED
    BY <1>0, <2>1, <2>3, StreamsUntouched
<1>4. ASSUME NEW p \in Procs, Program(p) \/ Other(p), ~ChildWrites(p) PROVE Collects' /\ Flow'
  <2>1. UNCHANGED <<out, got, said, stale, pc, of>>
    BY <1>4 DEF Program, Other, ChildReads, ChildExits, Collected, ChildComplains, ChildCrashes,
                HeirEnds, parent, history
  <2> QED
    BY <1>0, <2>1, StreamsUntouched DEF Collecting
<1> QED
  BY <1>1, <1>2, <1>3, <1>4, StreamRead, StreamWritten DEF Next, Continue, Program

-----------------------------------------------------------------------------
(* What proc.run answers *)

\* Until it has been joined the process of proc.run is there to be waited for; then
\* its job has what it ended with, and in the end all that it has written.
JobSafe(j) ==
  LET p == of[j] IN
  p \in Procs \ struck /\ task[p].by = "run" =>
    /\ pc[j] \in {"feed", "started", "join"} => Unreaped(p)
    /\ pc[j] = "message" => status[j] = "1" /\ state[p] = "reaped" /\ code[p] = "1"
    /\ pc[j] = "result" => status[j] = "0" /\ state[p] = "reaped" /\ code[p] \in {"0", "signal"}
    /\ pc[j] = "idle" /\ status[j] = "1" => state[p] = "reaped" /\ code[p] = "1"
    /\ pc[j] = "idle" /\ status[j] = "0" =>
         state[p] = "reaped" /\ code[p] \in {"0", "signal"} /\ got[p] = said[p]

RunSafe == \A j \in Jobs : JobSafe(j)

LEMMA SafeKept ==
  ASSUME NEW j \in Jobs, JobSafe(j), task' = task, struck \subseteq struck',
         of'[j] = of[j], pc'[j] = pc[j], status'[j] = status[j],
         of[j] \in Procs \ struck' /\ task[of[j]].by = "run" =>
           /\ state[of[j]] = "reaped" =>
                /\ state'[of[j]] = "reaped" /\ code'[of[j]] = code[of[j]]
                /\ got'[of[j]] = got[of[j]] /\ said'[of[j]] = said[of[j]]
           /\ pc[j] # "idle" /\ Unreaped(of[j]) => Unreaped(of[j])'
  PROVE  JobSafe(j)'
<1> DEFINE p == of[j]
<1>1. CASE ~(p \in Procs \ struck' /\ task[p].by = "run")
  BY <1>1 DEF JobSafe
<1>2. CASE p \in Procs \ struck' /\ task[p].by = "run"
  <2>1. p \in Procs \ struck
    BY <1>2
  <2>2. Unreaped(p)' <=> state'[p]  \in {"alive", "zombie"}
    BY DEF Unreaped
  <2> QED
    BY <1>2, <2>1, <2>2 DEF JobSafe, Unreaped
<1> QED
  BY <1>1, <1>2

\* A call of status by a job at another process, and what else leaves the job alone.
LEMMA SafeDecided ==
  ASSUME Typed, NEW j \in Jobs, NEW k \in Jobs, JobSafe(k), Decided(j), task' = task,
         of[k] # of[j], of'[k] = of[k], pc'[k] = pc[k], status'[k] = status[k],
         UNCHANGED <<got, said>>
  PROVE  JobSafe(k)'
<1>1. struck' = struck \cup (Named(of[j]) \ {of[j]}) /\ code' = code
  BY DEF Decided
<1>2. of[k] \in Procs \ struck' => state'[of[k]] = state[of[k]]
  BY <1>1, DecidedStates
<1> QED
  BY <1>1, <1>2, SafeKept DEF Unreaped

LEMMA SafeBegin ==
  ASSUME Typed, Unborn, RunSafe, UNCHANGED given, NEW j \in Jobs, Begin(j)
  PROVE  RunSafe'
<1>0. task' = task /\ \A k \in Jobs : JobSafe(k)
  BY DEF given, RunSafe
<1>1. ASSUME NEW p \in Procs, New(j, p), NEW k \in Jobs PROVE JobSafe(k)'
  <2>1. /\ object[p] = "none" /\ \A q \in Procs \ {p} : state'[q] = state[q]
        /\ state'[p] = "alive" /\ UNCHANGED <<struck, code, got, said>>
        /\ of' = [of EXCEPT ![j] = p] /\ status' = [status EXCEPT ![j] = "none"]
    BY <1>1 DEF New, Fork, history, Typed
  <2>2. PICK place \in {"feed", "idle", "started"} : pc' = [pc EXCEPT ![j] = place]
    BY <1>1 DEF New, PrintRaises
  <2>3. CASE k = j
    <3>1. of'[j] = p /\ pc'[j] = place /\ status'[j] = "none"
      BY <2>1, <2>2 DEF Typed
    <3> QED
      BY <2>1, <2>3, <3>1 DEF JobSafe, Unreaped
  <2>4. CASE k # j
    <3>1. of'[k] = of[k] /\ pc'[k] = pc[k] /\ status'[k] = status[k] /\ of[k] # p
      BY <2>1, <2>2, <2>4 DEF Typed, Unborn
    <3>2. of[k] \in Procs => state'[of[k]] = state[of[k]]
      BY <2>1, <3>1
    <3> QED
      BY <1>0, <2>1, <3>1, <3>2, SafeKept DEF Unreaped
  <2> QED
    BY <2>3, <2>4
<1>2. ASSUME NEW p \in Procs, NEW place, Turns(j, p, place), NEW k \in Jobs PROVE JobSafe(k)'
  <2>1. /\ UNCHANGED <<state, code, struck, got, said>> /\ task[p].by = "new"
        /\ of' = [of EXCEPT ![j] = p] /\ status' = [status EXCEPT ![j] = "none"]
        /\ pc' = [pc EXCEPT ![j] = place]
    BY <1>2, KeptObject DEF Turns, table, history
  <2>2. CASE k = j
    <3>1. of'[j] = p
      BY <2>1 DEF Typed
    <3> QED
      BY <1>0, <2>1, <2>2, <3>1 DEF JobSafe
  <2>3. CASE k # j
    <3>1. of'[k] = of[k] /\ pc'[k] = pc[k] /\ status'[k] = status[k]
      BY <2>1, <2>3 DEF Typed
    <3> QED
      BY <1>0, <2>1, <3>1, SafeKept DEF Unreaped
  <2> QED
    BY <2>2, <2>3
<1> QED
  BY <1>1, <1>2 DEF Begin, RunSafe

\* Feeding, starting, and the reading of stderr.
LEMMA SafeGoes ==
  ASSUME Typed, Placed, RunSafe, UNCHANGED given, NEW j \in Jobs,
         Feed(j) \/ EndFeed(j) \/ Started(j) \/ Message(j)
  PROVE  RunSafe'
<1>0. task' = task /\ \A k \in Jobs : JobSafe(k)
  BY DEF given, RunSafe
<1>1. UNCHANGED <<of, state, code, struck, got, said, status>> /\ pc \in [Jobs -> Places]
  BY DEF Feed, EndFeed, Started, Message, Fed, FeedBreaks, WouldBlock, Goto, table, history, Typed
<1>2. \/ pc[j] = "feed" /\ (pc' = pc \/ pc' = [pc EXCEPT ![j] = "feed"])
      \/ pc[j] = "feed" /\ pc' = [pc EXCEPT ![j] = "started"]
      \/ /\ pc[j] = "started"
         /\ pc' = [pc EXCEPT ![j] = IF task[of[j]].by = "run" THEN "join" ELSE "idle"]
      \/ pc[j] = "message" /\ (pc' = pc \/ pc' = [pc EXCEPT ![j] = "message"])
      \/ pc[j] = "message" /\ pc' = [pc EXCEPT ![j] = "idle"]
  BY DEF Feed, EndFeed, Started, Message, Fed, FeedBreaks, WouldBlock, Goto, Turn
<1>3. ASSUME NEW k \in Jobs, k # j PROVE JobSafe(k)'
  <2>1. pc'[k] = pc[k]
    BY <1>1, <1>2, <1>3
  <2> QED
    BY <1>0, <1>1, <2>1, SafeKept DEF Unreaped
<1>4. JobSafe(j)'
  BY <1>0, <1>1, <1>2 DEF JobSafe, Unreaped
<1> QED
  BY <1>3, <1>4 DEF RunSafe

LEMMA SafeJoin ==
  ASSUME Typed, Placed, Owned, RunSafe, UNCHANGED given, NEW j \in Jobs, Join(j)
  PROVE  RunSafe'
<1>0. task' = task /\ (\A k \in Jobs : JobSafe(k)) /\ UNCHANGED <<got, said>>
  BY DEF given, RunSafe, Join
<1>1. CASE WaitsForStderr(j) /\ UNCHANGED <<table, struck, status>>
  BY <1>0, <1>1, SafeKept DEF WaitsForStderr, WouldBlock, table, Unreaped, RunSafe
<1>2. CASE Decided(j) /\ Joined(j)
  <2>1. PICK p : p = of[j]
    OBVIOUS
  <2>2. p \in Procs /\ pc[j] = "join" /\ of' = of
    BY <1>2, <2>1 DEF Join, Turn, Placed, Joined, Goto
  <2>3. code' = code /\ struck' = struck \cup (Named(p) \ {p})
    BY <1>2, <2>1 DEF Decided
  <2>4. JobSafe(j)'
    <3>1. SUFFICES ASSUME p \notin struck', task[p].by = "run" PROVE JobSafe(j)'
      BY <1>0, <2>1, <2>2 DEF JobSafe
    <3>2. Unreaped(p)
      BY <1>0, <2>1, <2>2, <2>3, <3>1 DEF JobSafe
    <3>3. p \in Named(p) /\ state'[p] = "reaped"
      <4>1. p \in Named(p)
        BY <2>2, <3>2 DEF Named
      <4> QED
        BY <1>2, <2>1, <2>2, <4>1 DEF Decided
    <3>4. PICK s \in {"0", "1"} :
            /\ Answer(j, s) /\ status' = [status EXCEPT ![j] = s]
            /\ pc' = [pc EXCEPT ![j] = IF s = "0" THEN "result" ELSE "message"]
      BY <1>2, <2>1, <3>1 DEF Joined, Goto
    <3>5. s = IF code[p] = "signal" THEN "0" ELSE code[p]
      BY <2>1, <3>3, <3>4 DEF Answer
    <3>6. pc'[j] = (IF s = "0" THEN "result" ELSE "message") /\ status'[j] = s /\ of'[j] = p
      BY <2>1, <2>2, <3>4 DEF Typed
    <3>7. code[p] \in {"0", "1", "signal"}
      BY <2>2 DEF Typed
    <3> QED
      BY <1>0, <2>3, <3>3, <3>5, <3>6, <3>7 DEF JobSafe
  <2>5. ASSUME NEW k \in Jobs, k # j PROVE JobSafe(k)'
    <3>1. pc'[k] = pc[k] /\ status'[k] = status[k] /\ of'[k] = of[k]
      BY <1>2, <2>2, <2>5 DEF Joined, Goto, Typed
    <3>2. CASE of[k] = p
      <4>1. task[p].by # "run"
        BY <2>1, <2>2, <2>5, <3>2 DEF Owned
      <4> QED
        BY <1>0, <3>1, <3>2, <4>1 DEF JobSafe
    <3>3. CASE of[k] # p
      BY <1>0, <1>2, <2>1, <3>1, <3>3, SafeDecided
    <3> QED
      BY <3>2, <3>3
  <2> QED
    BY <2>4, <2>5 DEF RunSafe
<1> QED
  BY <1>1, <1>2 DEF Join

\* The calls of term, kill and status are for processes the program has kept.
LEMMA SafeTerm ==
  ASSUME Typed, Placed, RunSafe, UNCHANGED given, NEW j \in Jobs,
         Term1(j) \/ Term2(j) \/ Term3(j) \/ StatusOnly(j) \/ Kill(j)
  PROVE  RunSafe'
<1>0. task' = task /\ (\A k \in Jobs : JobSafe(k)) /\ UNCHANGED <<got, said, status, of>>
  BY DEF given, RunSafe, Term1, Term2, Term3, StatusOnly, Kill, Status, Goto
<1>1. pc[j] \in {"term1", "term2", "term3", "status", "kill1", "kill3", "kill"}
  BY DEF Term1, Term2, Term3, StatusOnly, Kill, Turn
<1>2. of[j] \in Procs /\ task[of[j]].by = "new"
  BY <1>1 DEF Placed, ByNew
<1>3. \A k \in Jobs \ {j} : pc'[k] = pc[k]
  BY DEF Term1, Term2, Term3, StatusOnly, Kill, Status, Goto, Typed
<1>4. \/ Decided(j)
      \/ UNCHANGED <<state, code>> /\ struck \subseteq struck'
  BY DEF Term1, Term2, Term3, StatusOnly, Kill, Status, table
<1>5. ASSUME NEW k \in Jobs PROVE JobSafe(k)'
  <2>1. CASE of[k] = of[j]
    BY <1>0, <1>2, <2>1 DEF JobSafe
  <2>2. CASE of[k] # of[j]
    <3>1. pc'[k] = pc[k]
      BY <1>3, <2>2
    <3>2. CASE Decided(j)
      BY <1>0, <2>2, <3>1, <3>2, SafeDecided
    <3>3. CASE UNCHANGED <<state, code>> /\ struck \subseteq struck'
      BY <1>0, <3>1, <3>3, SafeKept DEF Unreaped
    <3> QED
      BY <1>4, <3>2, <3>3
  <2> QED
    BY <2>1, <2>2
<1> QED
  BY <1>5 DEF RunSafe

LEMMA SafeRead ==
  ASSUME Typed, Placed, Owned, Alone, Collects, Flow, Flow', RunSafe, UNCHANGED given,
         NEW j \in Jobs, Read(j) \/ ReadSome(j)
  PROVE  RunSafe'
<1>0. /\ task' = task /\ (\A k \in Jobs : JobSafe(k))
      /\ UNCHANGED <<said, status, state, code, struck, of>>
      /\ pc \in [Jobs -> Places] /\ got \in [Procs -> Seq(Pieces)]
  BY ReadEffect, ReadSomeEffect DEF given, RunSafe, Read, ReadSome, table, GoesOn, Takes, Typed
<1>1. PICK p : p = of[j]
  OBVIOUS
<1>2. /\ p \in Procs /\ pc[j] \in Reads
      /\ task[p].by = "run" => pc[j] = "result"
  BY <1>1 DEF Placed, Read, ReadSome, Turn, Reads, ByNew
<1>3. CASE GoesOn(j)
  BY <1>0, <1>3, SafeKept DEF GoesOn, Unreaped, RunSafe
<1>4. ASSUME NEW pieces, Takes(j, pieces), NEW k \in Jobs PROVE JobSafe(k)'
  <2>1. /\ \A q \in Procs \ {p} : got'[q] = got[q]
        /\ pc' = [pc EXCEPT ![j] = "idle"]
    BY <1>0, <1>1, <1>4 DEF Takes
  <2>2. CASE of[k] # p
    <3>1. pc'[k] = pc[k]
      BY <1>0, <1>1, <2>1, <2>2
    <3>2. of[k] \in Procs => got'[of[k]] = got[of[k]]
      BY <2>1, <2>2
    <3> QED
      BY <1>0, <3>1, <3>2, SafeKept DEF Unreaped
  <2>3. CASE of[k] = p /\ task[p].by # "run"
    BY <1>0, <2>3 DEF JobSafe
  <2>4. CASE of[k] = p /\ task[p].by = "run"
    <3>1. k = j /\ pc[j] = "result" /\ pc'[j] = "idle"
      BY <1>0, <1>1, <1>2, <2>1, <2>4 DEF Owned
    <3>2. got'[p] = said'[p]
      <4>1. p \notin stale' /\ Unread(out'[p]) = <<>>
        BY <1>1, <1>2, <1>4, <2>4, <3>1 DEF Takes, Flow, Unbuffered
      <4>2. Cat(got'[p], Unread(out'[p])) = said'[p]
        BY <1>2, <4>1 DEF Flow, InOrder
      <4>3. got'[p] \in Seq(Pieces)
        <5>1. pieces \in Seq(Pieces) /\ (got'[p] = got[p] \/ got'[p] = Cat(got[p], pieces))
          BY <1>0, <1>1, <1>2, <1>4 DEF Takes
        <5> QED
          BY <1>0, <1>2, <5>1, Associates
      <4> QED
        BY <4>1, <4>2, <4>3, EmptyAdds
    <3> QED
      BY <1>0, <1>1, <1>2, <2>4, <3>1, <3>2 DEF JobSafe
  <2> QED
    BY <2>2, <2>3, <2>4
<1> QED
  BY <1>3, <1>4, ReadEffect, ReadSomeEffect DEF RunSafe

LEMMA SafeProcs ==
  ASSUME Typed, Placed, RunSafe, UNCHANGED given, NEW p \in Procs, Program(p) \/ Other(p)
  PROVE  RunSafe'
<1>0. /\ task' = task /\ (\A k \in Jobs : JobSafe(k)) /\ UNCHANGED <<pc, of, status>>
  BY DEF given, RunSafe, Program, Other, ChildReads, ChildWrites, ChildExits, Collected,
         ChildComplains, ChildCrashes, HeirEnds, parent
<1>1. ASSUME Collected(p), NEW k \in Jobs PROVE JobSafe(k)'
  <2>1. /\ struck' = struck \cup (Named(p) \ {p}) /\ UNCHANGED <<got, said>>
        /\ \A q \in Procs : q \notin Named(p) => state'[q] = state[q] /\ code'[q] = code[q]
        /\ of[k] = p => pc[k] = "idle"
    BY <1>1 DEF Collected, Typed
  <2>2. \A q \in Procs : q \in Named(p) => Unreaped(q)
    BY DEF Named
  <2>3. of[k] \in Procs \ struck' /\ of[k] # p => of[k] \notin Named(p)
    BY <2>1
  <2>4. of[k] \in Procs \ struck' /\ state[of[k]] = "reaped" => of[k] \notin Named(p)
    BY <2>2 DEF Unreaped
  <2> QED
    BY <1>0, <2>1, <2>3, <2>4, SafeKept DEF Unreaped
<1>2. ASSUME ~Collected(p), NEW k \in Jobs PROVE JobSafe(k)'
  <2>1. UNCHANGED <<struck, got>>
    BY <1>2 DEF Program, Other, ChildReads, ChildWrites, ChildExits, ChildComplains,
                ChildCrashes, HeirEnds, history
  <2>2. \A q \in Procs :
          ~Alive(q) => said'[q] = said[q] /\ state'[q] = state[q] /\ code'[q] = code[q]
    BY <1>2 DEF Program, Other, ChildReads, ChildWrites, ChildExits, ChildComplains,
                ChildCrashes, HeirEnds, history, table, Ends, Typed
  <2>3. \A q \in Procs : Unreaped(q) => Unreaped(q)'
    <3>1. state' = state \/ (Alive(p) /\ state' = [state EXCEPT ![p] = "zombie"])
      BY <1>2 DEF Program, Other, ChildReads, ChildWrites, ChildExits, ChildComplains,
                  ChildCrashes, HeirEnds, table, Ends
    <3> QED
      BY <3>1 DEF Unreaped, Typed
  <2> QED
    BY <1>0, <2>1, <2>2, <2>3, SafeKept DEF Alive
<1> QED
  BY <1>1, <1>2 DEF RunSafe

LEMMA RunSafeStep ==
  ASSUME Typed, Unborn, Placed, Owned, Alone, Collects, Flow, RunSafe, [Next]_vars
  PROVE  RunSafe'
<1>0. UNCHANGED given /\ Flow'
  BY Moves, StreamsStep
<1>1. CASE UNCHANGED vars
  BY <1>1 DEF vars, given, parent, table, history, RunSafe, JobSafe, Unreaped
<1>2. ASSUME NEW j \in Jobs, Continue(j) PROVE RunSafe'
  BY <1>0, <1>2, SafeGoes, SafeJoin, SafeTerm, SafeRead DEF Continue
<1> QED
  BY <1>0, <1>1, <1>2, SafeBegin, SafeProcs DEF Next

\* No pipe holds more than it has room for.
Roomy == \A p \in Procs : Len(out[p].pipe) <= Room

LEMMA RoomyStep ==
  ASSUME Typed, Placed, Alone, Collects, Roomy, [Next]_vars
  PROVE  Roomy'
<1>0. /\ out \in [Procs -> StreamStates] /\ Room \in Nat
      /\ \A p \in Procs : out[p].pipe \in Seq(Pieces) /\ Len(out[p].pipe) \in Nat
  <2>1. out \in [Procs -> StreamStates]
    BY DEF Typed
  <2>2. \A p \in Procs : out[p] \in StreamStates
    BY <2>1
  <2>3. \A p \in Procs : out[p].pipe \in Seq(Pieces)
    BY <2>2, KeptType
  <2> QED
    BY <2>1, <2>3, LenProperties, SizesAssumption
<1>1. CASE out' = out
  BY <1>1 DEF Roomy
<1>2. ASSUME NEW j \in Jobs, Read(j) \/ ReadSome(j) PROVE Roomy'
  <2>1. PICK p \in Procs : p = of[j]
    BY <1>2 DEF Placed, Read, ReadSome, Turn
  <2>2. /\ \A q \in Procs \ {p} : out'[q] = out[q]
        /\ Len(out'[p].pipe) <= Len(out[p].pipe) /\ out'[p] \in StreamStates
    BY <1>2, <2>1, ReadEffect, ReadSomeEffect DEF GoesOn, Takes
  <2>3. Len(out'[p].pipe) \in Nat
    BY <2>2, KeptType, LenProperties
  <2>4. Len(out'[p].pipe) <= Room
    BY <1>0, <2>2, <2>3 DEF Roomy
  <2> QED
    BY <2>2, <2>4 DEF Roomy
<1>3. ASSUME NEW p \in Procs, ChildWrites(p) PROVE Roomy'
  <2>1. PICK x : out' = [out EXCEPT ![p].pipe = Append(@, x)]
    BY <1>3 DEF ChildWrites
  <2>2. Len(out[p].pipe) < Room
    BY <1>3 DEF ChildWrites
  <2>3. \A q \in Procs \ {p} : out'[q] = out[q]
    BY <1>0, <2>1
  <2>4. out'[p].pipe = Append(out[p].pipe, x)
    BY <1>0, <2>1 DEF StreamStates
  <2>5. Len(Append(out[p].pipe, x)) = Len(out[p].pipe) + 1
    BY <1>0
  <2>6. Len(out'[p].pipe) <= Room
    BY <1>0, <2>2, <2>4, <2>5
  <2> QED
    BY <2>3, <2>6 DEF Roomy
<1>4. ASSUME NEW j \in Jobs, Begin(j) \/ Continue(j), ~Read(j), ~ReadSome(j) PROVE out' = out
  BY <1>4 DEF Begin, New, Turns, Continue, Feed, EndFeed, Started, Join, Term1, Term2, Term3,
              StatusOnly, Kill, Message, pipes
<1>5. ASSUME NEW p \in Procs, Program(p) \/ Other(p), ~ChildWrites(p) PROVE out' = out
  BY <1>5 DEF Program, Other, ChildReads, ChildExits, Collected, ChildComplains, ChildCrashes,
              HeirEnds
<1>6. CASE UNCHANGED vars
  BY <1>1, <1>6 DEF vars, pipes
<1> QED
  BY <1>1, <1>2, <1>3, <1>4, <1>5, <1>6 DEF Next

-----------------------------------------------------------------------------
(* The inductive invariant, and what follows from it *)

ProcInv == /\ Typed /\ Unborn /\ Placed /\ Owned /\ Alone
           /\ FedWhole /\ Collects /\ Flow /\ RunSafe /\ Roomy

LEMMA ProcInvInit == Init => ProcInv
<1> SUFFICES ASSUME Init PROVE ProcInv
  OBVIOUS
<1>1. <<>> \in Seq(Pieces)
  OBVIOUS
<1>2. EmptyStream \in StreamStates
  BY <1>1 DEF EmptyStream, StreamStates
<1>3. Typed
  <2>1. task \in Tasks /\ task \in [Procs -> Task] /\ main \subseteq Jobs
    BY JobsAssumption, TaskAssumption DEF Init
  <2> QED
    BY <1>1, <1>2, <2>1 DEF Init, Typed, Inputs, Places
<1>4. Unborn /\ Placed /\ Owned /\ Alone
  BY JobsAssumption DEF Init, Unborn, Placed, Owned, Alone, Reads
<1>5. FedWhole
  BY SizesAssumption DEF Init, FedWhole, FedAll, Alive
<1>6. Collects /\ Flow
  <2>1. \A p \in Procs : /\ out[p].chunks = <<>> /\ out[p].buffer = <<>> /\ out[p].pipe = <<>>
                         /\ got[p] = <<>> /\ said[p] = <<>>
    BY DEF Init, EmptyStream
  <2>2. Cat(<<>>, <<>>) = <<>>
    BY <1>1, EmptyAdds
  <2>3. \A p \in Procs : Unread(out[p]) = <<>>
    BY <2>1, <2>2 DEF Unread, Kept
  <2>4. stale = {}
    BY DEF Init
  <2> QED
    BY <2>1, <2>2, <2>3, <2>4 DEF Collects, Flow, InOrder, Unbuffered
<1>7. RunSafe
  BY JobsAssumption DEF Init, RunSafe, JobSafe
<1>8. Roomy
  BY SizesAssumption DEF Init, EmptyStream, Roomy
<1> QED
  BY <1>3, <1>4, <1>5, <1>6, <1>7, <1>8 DEF ProcInv

LEMMA ProcInvariant == Spec => []ProcInv
<1>1. ProcInv /\ [Next]_vars => ProcInv'
  BY TypedStep, UnbornStep, PlacedStep, OwnedStep, FedStep, StreamsStep, RunSafeStep,
     RoomyStep DEF ProcInv
<1> QED
  BY <1>1, ProcInvInit, PTL DEF Spec

\* The fields of a stream that are sequences of pieces have no others beside them.
LEMMA StreamFields ==
  ASSUME NEW s \in StreamStates
  PROVE  /\ DOMAIN s = {"pipe", "buffer", "chunks"}
         /\ {s.pipe, s.buffer, s.chunks} \subseteq Seq(Pieces)
BY DEF StreamStates

\* Every variable has its type: no pipe ever holds more than it has room for, and
\* no process is given or reads more of its stdin than there is (wtk.c:510-523).
THEOREM ProcessesTyped == Spec => []TypeOK
<1>1. ASSUME ProcInv PROVE TypeOK
  <2>1. Typed /\ FedWhole /\ Roomy
    BY <1>1 DEF ProcInv
  <2>2. stdin \in [Procs -> [pipe : 0..Room, read : 0..Input, left : 0..Input]]
    <3>1. stdin \in [Procs -> Inputs]
      BY <2>1 DEF Typed
    <3>2. ASSUME NEW p \in Procs
          PROVE  stdin[p] \in [pipe : 0..Room, read : 0..Input, left : 0..Input]
      <4>1. stdin[p] \in Inputs
        BY <3>1
      <4>2. stdin[p].pipe <= Room /\ stdin[p].pipe + stdin[p].read + stdin[p].left <= Input
        BY <2>1 DEF FedWhole, FedAll
      <4>3. stdin[p].pipe \in 0..Room /\ stdin[p].read \in 0..Input /\ stdin[p].left \in 0..Input
        BY <4>1, <4>2, SizesAssumption DEF Inputs
      <4> QED
        BY <4>1, <4>3 DEF Inputs
    <3> QED
      BY <3>1, <3>2
  <2>3. ASSUME NEW p \in Procs
        PROVE  /\ DOMAIN out[p] = {"pipe", "buffer", "chunks"}
               /\ {out[p].pipe, out[p].buffer, out[p].chunks, said[p], got[p]} \subseteq Seq(Pieces)
               /\ Len(out[p].pipe) <= Room
    <3>1. out[p] \in StreamStates /\ said[p] \in Seq(Pieces) /\ got[p] \in Seq(Pieces)
      BY <2>1 DEF Typed
    <3>2. Len(out[p].pipe) <= Room
      BY <2>1 DEF Roomy
    <3> QED
      BY <3>1, <3>2, StreamFields
  <2> QED
    BY <2>1, <2>2, <2>3 DEF Typed, TypeOK
<1> QED
  BY <1>1, ProcInvariant, PTL

\* Whatever the reads of stdout were, of a number, of a line or of everything, and
\* wherever they yielded, they return each piece once and in order (wtk.c:527-591).
THEOREM ReadsOnce == Spec => []ReadOnce
<1>1. ASSUME ProcInv PROVE ReadOnce
  <2>1. SUFFICES ASSUME NEW p \in Procs \ stale
                 PROVE  got[p] \o Kept(out[p]) \o out[p].pipe = said[p]
    BY DEF ReadOnce, Kept
  <2>2. got[p] \in Seq(Pieces) /\ out[p] \in StreamStates
    BY <1>1 DEF ProcInv, Typed
  <2>3. PICK g, k, i \in Seq(Pieces) : g = got[p] /\ k = Kept(out[p]) /\ i = out[p].pipe
    BY <2>2, KeptType
  <2>4. Cat(Cat(g, k), i) = Cat(g, Cat(k, i))
    <3>1. g \in Seq(Pieces) /\ k \in Seq(Pieces) /\ i \in Seq(Pieces)
      BY <2>3
    <3> QED
      BY <3>1, Associates
  <2>5. Cat(got[p], Unread(out[p])) = said[p]
    BY <1>1 DEF ProcInv, Flow, InOrder
  <2>6. Cat(Cat(g, k), i) = said[p]
    BY <2>3, <2>4, <2>5 DEF Unread
  <2> QED
    BY <2>3, <2>6 DEF Cat
<1> QED
  BY <1>1, ProcInvariant, PTL

\* A process that has seen the end of its stdin has read all that print made of
\* options.stdin, however often its pipe was full, or all but what a parent that was
\* killed had still to write (wtk.c:510-525, proc.c:168).
THEOREM InputsWhole == Spec => []InputWhole
<1>1. ASSUME ProcInv PROVE InputWhole
  <2> SUFFICES ASSUME NEW p \in eof
               PROVE  LET missing == Printed(p) - stdin[p].read IN
                        missing = 0 \/ (host = "killed" /\ missing = stdin[p].left)
    BY DEF InputWhole
  <2>1. /\ stdin[p].read \in Nat /\ stdin[p].left \in Nat /\ Printed(p) \in Nat
        /\ stdin[p].read + stdin[p].left = Printed(p)
        /\ stdin[p].left = 0 \/ host = "killed"
    BY <1>1, PrintedIn DEF ProcInv, Typed, FedWhole, FedAll, Inputs
  <2> QED
    BY <2>1
<1> QED
  BY <1>1, ProcInvariant, PTL

\* proc.run answers with what its own child ended with and, if that is not a
\* failure, with all that the child has written (proc.c:122, 173-176).
THEOREM RunsRight == Spec => []RunRight
<1>1. ASSUME ProcInv PROVE RunRight
  BY <1>1 DEF ProcInv, RunSafe, JobSafe, RunRight
<1> QED
  BY <1>1, ProcInvariant, PTL
=============================================================================
