-------------------------- MODULE TransactionsProofs --------------------------
(* Proofs about Transactions, for every number of jobs, calls and writes. *)
EXTENDS Transactions, TLAPS

\* The sequence of calls without its head, with a new head, and with a write
\* added to each are sequences of calls.
LEMMA CallsPushed ==
  ASSUME NEW s \in Seq(SUBSET Ids), NEW c \in SUBSET Ids
  PROVE  /\ <<c>> \o s \in Seq(SUBSET Ids)
         /\ <<c>> \o s # <<>>
         /\ Head(<<c>> \o s) = c
         /\ Len(<<c>> \o s) = Len(s) + 1
         /\ \A i \in DOMAIN (<<c>> \o s) :
              (<<c>> \o s)[i] = IF i = 1 THEN c ELSE s[i - 1]
OBVIOUS

LEMMA CallsPopped ==
  ASSUME NEW s \in Seq(SUBSET Ids), s # <<>>
  PROVE  /\ Head(s) \in SUBSET Ids
         /\ Tail(s) \in Seq(SUBSET Ids)
         /\ Len(Tail(s)) = Len(s) - 1
         /\ \A i \in DOMAIN Tail(s) : i + 1 \in DOMAIN s /\ Tail(s)[i] = s[i + 1]
OBVIOUS

LEMMA CallsWritten ==
  ASSUME NEW s \in Seq(SUBSET Ids), NEW w \in Ids
  PROVE  /\ Written(s, w) \in Seq(SUBSET Ids)
         /\ Len(Written(s, w)) = Len(s)
         /\ DOMAIN Written(s, w) = DOMAIN s
         /\ s # <<>> => /\ Written(s, w) # <<>>
                        /\ Head(Written(s, w)) = Head(s) \cup {w}
         /\ s = <<>> => Written(s, w) = <<>>
<1>1. s \in [1..Len(s) -> SUBSET Ids] /\ DOMAIN s = 1..Len(s) /\ Len(s) \in Nat
  OBVIOUS
<1>2. \A i \in DOMAIN s : s[i] \cup {w} \in SUBSET Ids
  BY <1>1
<1>3. Written(s, w) \in [1..Len(s) -> SUBSET Ids]
  BY <1>1, <1>2 DEF Written
<1>4. Written(s, w) \in Seq(SUBSET Ids) /\ Len(Written(s, w)) = Len(s)
  BY <1>1, <1>3
<1>5. ASSUME s # <<>>
      PROVE  /\ Written(s, w) # <<>>
             /\ Head(Written(s, w)) = Head(s) \cup {w}
  <2>1. 1 \in DOMAIN s /\ Head(s) = s[1]
    BY <1>1, <1>5
  <2>2. Written(s, w) # <<>> /\ Head(Written(s, w)) = Written(s, w)[1]
    BY <1>1, <1>4, <2>1
  <2> QED
    BY <1>2, <2>1, <2>2 DEF Written
<1>6. s = <<>> => Written(s, w) = <<>>
  BY <1>1, <1>4
<1>7. DOMAIN Written(s, w) = DOMAIN s
  BY DEF Written
<1> QED
  BY <1>4, <1>5, <1>6, <1>7

-----------------------------------------------------------------------------
\* The three ways in which a call ends: its transaction committed, rolled back, or
\* neither, because the database refused.
LEMMA HowCallsEnd ==
  ASSUME NEW j \in Jobs, Return(j) \/ Raise(j)
  PROVE  /\ MayRun(j) /\ Inside(j)
         /\ \/ Commit /\ End(j, TRUE, FALSE)
            \/ Rollback /\ End(j, FALSE, FALSE)
            \/ \E ok \in BOOLEAN : End(j, ok, TRUE) /\ (UNCHANGED database \/ Rollback)
BY DEF Return, Raise, CommitRefused, Refuses

-----------------------------------------------------------------------------
\* Every write that anything knows of has been made: with it the type invariant
\* is inductive, because the next write is none of the old ones.
Known(s) == \A i \in DOMAIN s : s[i] \subseteq 1..next
Bounds ==
  /\ TypeOK
  /\ pending \cup committed \subseteq 1..next
  /\ \A j \in Jobs : Known(calls[j])
  /\ \A c \in ended : c.writes \subseteq 1..next

LEMMA BoundsInit == Init => Bounds
<1> SUFFICES ASSUME Init PROVE Bounds
  OBVIOUS
<1>1. calls \in [Jobs -> Seq(SUBSET Ids)] /\ \A j \in Jobs : calls[j] = <<>>
  BY DEF Init
<1>2. next = 0 /\ next \in 0..Writes
  BY BoundAssumption DEF Init
<1>3. TypeOK
  BY <1>1, <1>2 DEF Init, TypeOK
<1> QED
  BY <1>1, <1>3 DEF Init, Bounds, Known

LEMMA HeadKnown ==
  ASSUME Bounds, NEW j \in Jobs, Inside(j)
  PROVE  /\ Head(calls[j]) \in SUBSET Ids
         /\ Head(calls[j]) \subseteq 1..next
<1>1. calls[j] \in Seq(SUBSET Ids) /\ calls[j] # <<>>
  BY DEF Bounds, TypeOK, Inside
<1>2. 1 \in DOMAIN calls[j] /\ Head(calls[j]) = calls[j][1]
  BY <1>1
<1>3. Known(calls[j])
  BY DEF Bounds
<1> QED
  BY <1>1, <1>2, <1>3, CallsPopped DEF Known

\* The end of a call keeps its part of Bounds.
LEMMA EndKeepsBounds ==
  ASSUME Bounds, NEW j \in Jobs, Inside(j), NEW ok \in BOOLEAN,
         NEW refused \in BOOLEAN, End(j, ok, refused)
  PROVE  /\ driver' = driver /\ next' = next
         /\ calls' \in [Jobs -> Seq(SUBSET Ids)]
         /\ ended' \subseteq Ended
         /\ \A k \in Jobs : Known(calls[k])'
         /\ \A c \in ended' : c.writes \subseteq 1..next'
<1>1. calls \in [Jobs -> Seq(SUBSET Ids)] /\ calls[j] # <<>> /\ ended \subseteq Ended
  BY DEF Bounds, TypeOK, Inside
<1>2. calls' = [calls EXCEPT ![j] = Tail(calls[j])] /\ next' = next /\ driver' = driver
  BY DEF End
<1>3. calls' \in [Jobs -> Seq(SUBSET Ids)]
  BY <1>1, <1>2, CallsPopped
<1>4. ASSUME NEW k \in Jobs PROVE Known(calls[k])'
  <2>1. CASE k = j
    <3>1. calls'[k] = Tail(calls[j])
      BY <1>1, <1>2, <2>1
    <3>2. ASSUME NEW i \in DOMAIN Tail(calls[j])
          PROVE  Tail(calls[j])[i] \subseteq 1..next
      <4>1. i + 1 \in DOMAIN calls[j] /\ Tail(calls[j])[i] = calls[j][i + 1]
        BY <1>1, CallsPopped
      <4> QED
        BY <4>1 DEF Bounds, Known
    <3> QED
      BY <1>2, <3>1, <3>2 DEF Known
  <2>2. CASE k # j
    <3>1. calls'[k] = calls[k]
      BY <1>1, <1>2, <2>2
    <3> QED
      BY <1>2, <3>1 DEF Bounds, Known
  <2> QED
    BY <2>1, <2>2
<1>5. Head(calls[j]) \subseteq 1..next /\ Head(calls[j]) \in SUBSET Ids
  BY HeadKnown
<1>6. PICK c \in Ended : /\ c.writes = Head(calls[j])
                         /\ ended' = ended \cup {c}
  BY <1>5 DEF End, Ended
<1>7. \A d \in ended : d.writes \subseteq 1..next
  BY DEF Bounds
<1> QED
  BY <1>1, <1>2, <1>3, <1>4, <1>5, <1>6, <1>7

LEMMA BoundsNext == Bounds /\ [Next]_vars => Bounds'
<1> SUFFICES ASSUME Bounds, [Next]_vars
             PROVE  Bounds'
  OBVIOUS
<1>1. /\ driver \in Drivers /\ open \in BOOLEAN
      /\ pending \subseteq 1..next /\ committed \subseteq 1..next
      /\ next \in 0..Writes /\ next \in Nat /\ Writes \in Nat
      /\ pending \cap committed = {} /\ (pending # {} => open)
      /\ calls \in [Jobs -> Seq(SUBSET Ids)] /\ ended \subseteq Ended
      /\ \A j \in Jobs : Known(calls[j])
      /\ \A c \in ended : c.writes \subseteq 1..next
  <2>1. Bounds
    OBVIOUS
  <2>2. next \in Nat /\ Writes \in Nat
    BY <2>1, BoundAssumption DEF Bounds, TypeOK
  <2> QED
    BY <2>1, <2>2 DEF Bounds, TypeOK
\* What a step must establish.
<1>2. /\ driver' \in Drivers /\ open' \in BOOLEAN
      /\ pending' \subseteq 1..next' /\ committed' \subseteq 1..next'
      /\ next' \in 0..Writes
      /\ pending' \cap committed' = {} /\ (pending' # {} => open')
      /\ calls' \in [Jobs -> Seq(SUBSET Ids)] /\ ended' \subseteq Ended
      /\ \A j \in Jobs : Known(calls[j])'
      /\ \A c \in ended' : c.writes \subseteq 1..next'
      => Bounds'
  <2>1. next' \in 0..Writes => 1..next' \subseteq Ids
    BY <1>1 DEF Ids
  <2> QED
    BY <2>1 DEF Bounds, TypeOK
<1>3. CASE UNCHANGED vars
  BY <1>3 DEF vars, Bounds, TypeOK, Known
<1>4. ASSUME NEW j \in Jobs, Start(j) PROVE Bounds'
  <2>1. /\ open' \in BOOLEAN /\ pending' \subseteq 1..next /\ committed' \subseteq 1..next
        /\ pending' \cap committed' = {} /\ (pending' # {} => open')
    <3>1. CASE UNCHANGED database
      BY <1>1, <3>1 DEF database
    <3>2. CASE open' = TRUE /\ pending' = {} /\ committed' = committed \cup pending
      BY <1>1, <3>2
    <3> QED
      BY <1>4, <3>1, <3>2 DEF Start, Begin
  <2>2. calls' = [calls EXCEPT ![j] = <<{}>> \o calls[j]] /\ {} \in SUBSET Ids
    BY <1>4 DEF Start
  <2>3. calls' \in [Jobs -> Seq(SUBSET Ids)]
    BY <1>1, <2>2, CallsPushed
  <2>4. driver' = driver /\ next' = next /\ ended' = ended
    BY <1>4 DEF Start
  <2>5. ASSUME NEW k \in Jobs PROVE Known(calls[k])'
    <3>1. CASE k = j
      <4>1. calls'[k] = <<{}>> \o calls[j]
        BY <1>1, <2>2, <3>1
      <4>2. ASSUME NEW i \in DOMAIN (<<{}>> \o calls[j])
            PROVE  (<<{}>> \o calls[j])[i] \subseteq 1..next
        <5>1. calls[j] \in Seq(SUBSET Ids) /\ Known(calls[j])
          BY <1>1
        <5>2. i \in 1..(Len(calls[j]) + 1) /\ Len(calls[j]) \in Nat /\ DOMAIN calls[j] = 1..Len(calls[j])
          BY <5>1
        <5>3. CASE i = 1
          BY <2>2, <5>1, <5>3, CallsPushed
        <5>4. CASE i # 1
          <6>1. i - 1 \in DOMAIN calls[j]
            BY <5>2, <5>4
          <6>2. (<<{}>> \o calls[j])[i] = calls[j][i - 1]
            BY <5>1, <5>4, CallsPushed
          <6> QED
            BY <5>1, <6>1, <6>2 DEF Known
        <5> QED
          BY <5>3, <5>4
      <4> QED
        BY <2>4, <4>1, <4>2 DEF Known
    <3>2. CASE k # j
      <4>1. calls'[k] = calls[k]
        BY <1>1, <2>2, <3>2
      <4> QED
        BY <1>1, <2>4, <4>1 DEF Known
    <3> QED
      BY <3>1, <3>2
  <2> QED
    BY <1>1, <1>2, <2>1, <2>3, <2>4, <2>5
<1>5. ASSUME NEW j \in Jobs, StartRaises(j) PROVE Bounds'
  <2>1. PICK c \in Ended : c.writes = {} /\ ended' = ended \cup {c}
    BY <1>5 DEF StartRaises, Ended
  <2>2. UNCHANGED <<driver, open, pending, committed, next, calls>>
    BY <1>5 DEF StartRaises, database
  <2>3. \A k \in Jobs : Known(calls[k])'
    BY <1>1, <2>2 DEF Known
  <2> QED
    BY <1>1, <1>2, <2>1, <2>2, <2>3
<1>6. ASSUME NEW j \in Jobs, Execute(j) PROVE Bounds'
  <2>1. next' = next + 1 /\ next' \in Ids /\ next' \in 0..Writes /\ next' \notin 1..next
        /\ 1..next \subseteq 1..next' /\ next' \in 1..next'
    BY <1>1, <1>6 DEF Execute, Ids
  <2>2. /\ open' \in BOOLEAN /\ pending' \subseteq 1..next' /\ committed' \subseteq 1..next'
        /\ pending' \cap committed' = {} /\ (pending' # {} => open')
    BY <1>1, <1>6, <2>1 DEF Execute
  <2>3. calls' = [calls EXCEPT ![j] = Written(calls[j], next')] /\ UNCHANGED <<driver, ended>>
    BY <1>6 DEF Execute, Written
  <2>4. calls' \in [Jobs -> Seq(SUBSET Ids)]
    BY <1>1, <2>1, <2>3, CallsWritten
  <2>5. ASSUME NEW k \in Jobs PROVE Known(calls[k])'
    <3>1. CASE k = j
      <4>1. calls'[k] = Written(calls[j], next')
        BY <1>1, <2>3, <3>1
      <4>2. DOMAIN Written(calls[j], next') = DOMAIN calls[j]
        BY DEF Written
      <4>3. ASSUME NEW i \in DOMAIN calls[j]
            PROVE  Written(calls[j], next')[i] \subseteq 1..next'
        <5>1. calls[j][i] \in SUBSET Ids /\ calls[j][i] \subseteq 1..next
          BY <1>1 DEF Known
        <5>2. Written(calls[j], next')[i] = calls[j][i] \cup {next'}
          BY DEF Written
        <5> QED
          BY <2>1, <5>1, <5>2
      <4> QED
        BY <4>1, <4>2, <4>3 DEF Known
    <3>2. CASE k # j
      <4>1. calls'[k] = calls[k]
        BY <1>1, <2>3, <3>2
      <4> QED
        BY <1>1, <2>1, <4>1 DEF Known
    <3> QED
      BY <3>1, <3>2
  <2>6. \A c \in ended' : c.writes \subseteq 1..next'
    BY <1>1, <2>1, <2>3
  <2> QED
    BY <1>1, <1>2, <2>1, <2>2, <2>3, <2>4, <2>5, <2>6
<1>7. ASSUME NEW j \in Jobs, Return(j) \/ Raise(j) PROVE Bounds'
  <2>1. PICK ok \in BOOLEAN, refused \in BOOLEAN : End(j, ok, refused)
    BY <1>7, HowCallsEnd
  <2>2. Inside(j) /\ (Commit \/ Rollback \/ UNCHANGED database)
    BY <1>7, HowCallsEnd
  <2>3. /\ open' \in BOOLEAN /\ pending' \subseteq 1..next /\ committed' \subseteq 1..next
        /\ pending' \cap committed' = {} /\ (pending' # {} => open')
    <3>1. CASE Commit
      BY <1>1, <3>1 DEF Commit
    <3>2. CASE Rollback
      BY <1>1, <3>2 DEF Rollback
    <3>3. CASE UNCHANGED database
      BY <1>1, <3>3 DEF database
    <3> QED
      BY <2>2, <3>1, <3>2, <3>3
  <2> QED
    BY <1>1, <1>2, <2>1, <2>2, <2>3, EndKeepsBounds
<1> QED
  BY <1>3, <1>4, <1>5, <1>6, <1>7 DEF Next

\* The state of a connection and of the calls on it keeps its type, in every use
\* of txn (dbix.lua:140-148).
THEOREM TransactionsTyped == Spec => []TypeOK
<1>1. Spec => []Bounds
  BY BoundsInit, BoundsNext, PTL DEF Spec
<1>2. Bounds => TypeOK
  BY DEF Bounds
<1> QED
  BY <1>1, <1>2, PTL

-----------------------------------------------------------------------------
\* A transaction is open only while some call runs, because no end of a call
\* leaves it open, or after the database has refused a COMMIT or a ROLLBACK.
Refused == \E c \in ended : c.refused
OpenInside == open => Refused \/ \E j \in Jobs : Inside(j)

LEMMA RefusedStays == Refused /\ [Next]_vars => Refused'
<1>1. [Next]_vars => ended \subseteq ended'
  BY DEF Next, vars, Start, StartRaises, Execute, Return, Raise, End
<1> QED
  BY <1>1 DEF Refused

\* A call whose COMMIT or ROLLBACK is refused is there to be seen.
LEMMA RefusedSeen ==
  ASSUME NEW j, NEW ok, End(j, ok, TRUE)
  PROVE  Refused'
<1> DEFINE e == [ok |-> ok, refused |-> TRUE, writes |-> Head(calls[j])]
<1>1. e \in ended'
  BY DEF End
<1>2. e.refused
  OBVIOUS
<1> HIDE DEF e
<1> QED
  BY <1>1, <1>2 DEF Refused

LEMMA OpenInsideNext ==
  ASSUME Bounds, OpenInside, [Next]_vars
  PROVE  OpenInside'
<1>1. calls \in [Jobs -> Seq(SUBSET Ids)]
  BY DEF Bounds, TypeOK
<1>2. CASE UNCHANGED vars
  BY <1>2, RefusedStays DEF vars, OpenInside, Inside
<1>3. ASSUME NEW j \in Jobs, Start(j) PROVE OpenInside'
  <2>1. calls'[j] # <<>>
    BY <1>1, <1>3 DEF Start
  <2> QED
    BY <2>1 DEF OpenInside, Inside
<1>4. ASSUME NEW j \in Jobs, StartRaises(j) PROVE OpenInside'
  BY <1>4, RefusedStays DEF StartRaises, database, OpenInside, Inside
<1>5. ASSUME NEW j \in Jobs, Execute(j) PROVE OpenInside'
  <2>1. open' = open /\ calls' = [calls EXCEPT ![j] = Written(calls[j], next')]
    BY <1>5 DEF Execute
  <2>2. next' \in Ids
    BY <1>5, BoundAssumption DEF Execute, Bounds, TypeOK, Ids
  <2>3. ASSUME NEW k \in Jobs, Inside(k) PROVE Inside(k)'
    <3>1. calls[k] \in Seq(SUBSET Ids) /\ calls[k] # <<>>
      BY <1>1, <2>3 DEF Inside
    <3>2. calls'[k] = calls[k] \/ calls'[k] = Written(calls[k], next')
      BY <1>1, <2>1
    <3>3. Written(calls[k], next') # <<>>
      BY <2>2, <3>1, CallsWritten
    <3> QED
      BY <3>1, <3>2, <3>3 DEF Inside
  <2> QED
    BY <2>1, <2>3, RefusedStays DEF OpenInside
<1>6. ASSUME NEW j \in Jobs, Return(j) \/ Raise(j) PROVE OpenInside'
  <2>1. CASE Commit \/ Rollback
    BY <2>1 DEF Commit, Rollback, OpenInside
  <2>2. CASE \E ok \in BOOLEAN : End(j, ok, TRUE)
    BY <2>2, RefusedSeen DEF OpenInside
  <2> QED
    BY <1>6, <2>1, <2>2, HowCallsEnd
<1> QED
  BY <1>2, <1>3, <1>4, <1>5, <1>6 DEF Next

\* However calls of txn nest and overlap, a connection on which none is running
\* is not inside a transaction, unless the database has refused the COMMIT or the
\* ROLLBACK of one (dbix.lua:142-146).
THEOREM NothingLeftOpen == Spec => []LeavesNothingOpen
<1>1. Init => OpenInside
  BY DEF Init, OpenInside
<1>2. Bounds /\ OpenInside /\ [Next]_vars => OpenInside'
  BY OpenInsideNext
<1>3. OpenInside => LeavesNothingOpen
  BY DEF OpenInside, Refused, LeavesNothingOpen
<1> QED
  BY <1>1, <1>2, <1>3, BoundsInit, BoundsNext, PTL DEF Spec

-----------------------------------------------------------------------------
LEMMA NoLossNext ==
  ASSUME Bounds, NoErrorNoLoss, [Next]_vars
  PROVE  NoErrorNoLoss'
<1> DEFINE Fine == \A c \in ended : c.ok /\ ~c.refused
           Safe == /\ 1..next \subseteq committed \cup pending
                   /\ \A c \in ended : c.writes \subseteq committed
<1>1. /\ Fine => Safe
      /\ next \in Nat /\ pending \cup committed \subseteq 1..next
      /\ pending # {} => open
  BY DEF NoErrorNoLoss, Bounds, TypeOK
<1>2. SUFFICES ASSUME Fine' PROVE Safe'
  BY DEF NoErrorNoLoss
<1>3. CASE UNCHANGED vars
  BY <1>1, <1>2, <1>3 DEF vars
<1>4. ASSUME NEW j \in Jobs, Start(j) PROVE Safe'
  <2>1. ended' = ended /\ next' = next
    BY <1>4 DEF Start
  <2>2. /\ committed \subseteq committed'
        /\ committed' \cup pending' = committed \cup pending
    BY <1>4 DEF Start, Begin, database
  <2> QED
    BY <1>1, <1>2, <2>1, <2>2
<1>5. ASSUME NEW j \in Jobs, StartRaises(j) PROVE Safe'
  <2>1. [ok |-> FALSE, refused |-> FALSE, writes |-> {}] \in ended'
    BY <1>5 DEF StartRaises
  <2> QED
    BY <1>2, <2>1
<1>6. ASSUME NEW j \in Jobs, Execute(j) PROVE Safe'
  <2>1. ended' = ended /\ next' = next + 1 /\ 1..next' = (1..next) \cup {next'}
    BY <1>1, <1>6 DEF Execute
  <2>2. /\ committed \subseteq committed'
        /\ committed' \cup pending' = committed \cup pending \cup {next'}
    BY <1>6 DEF Execute
  <2> QED
    BY <1>1, <1>2, <2>1, <2>2
<1>7. ASSUME NEW j \in Jobs, Return(j) \/ Raise(j) PROVE Safe'
  <2>1. Inside(j) /\ Commit /\ End(j, TRUE, FALSE)
    <3>1. ASSUME NEW ok \in BOOLEAN PROVE ~End(j, ok, TRUE)
      BY <1>2, RefusedSeen DEF Refused
    <3>2. ~End(j, FALSE, FALSE)
      <4>1. End(j, FALSE, FALSE) =>
              [ok |-> FALSE, refused |-> FALSE, writes |-> Head(calls[j])] \in ended'
        BY DEF End
      <4> QED
        BY <1>2, <4>1
    <3> QED
      BY <1>7, <3>1, <3>2, HowCallsEnd
  <2>2. committed' = committed \cup pending /\ next' = next
    BY <2>1 DEF Commit, End
  <2>3. ended \subseteq ended' /\ \A c \in ended' : c \in ended \/ c.writes = Head(calls[j])
    BY <2>1 DEF End
  <2>4. Fine /\ Safe
    BY <1>1, <1>2, <2>3
  <2>5. Head(calls[j]) \subseteq 1..next
    BY <2>1, HeadKnown
  <2> QED
    BY <2>2, <2>3, <2>4, <2>5
<1> QED
  BY <1>3, <1>4, <1>5, <1>6, <1>7 DEF Next

\* As long as no call of txn raises and no COMMIT is refused, calls that overlap
\* or nest lose nothing of what they have written (dbix.lua:141, 146).
THEOREM NothingLost == Spec => []NoErrorNoLoss
<1>1. Init => NoErrorNoLoss
  BY DEF Init, NoErrorNoLoss
<1>2. Bounds /\ NoErrorNoLoss /\ [Next]_vars => NoErrorNoLoss'
  BY NoLossNext
<1> QED
  BY <1>1, <1>2, BoundsInit, BoundsNext, PTL DEF Spec

-----------------------------------------------------------------------------
\* Calls that neither nest nor overlap, over a database that refuses no BEGIN:
\* the one call that runs is inside a transaction, which holds all it has written.
\* What a call that has ended wrote is in one piece: there for good, still in the
\* transaction, which only a refused one has left there, or gone.
Serial == Shares = FALSE /\ Depth <= 1 /\ "BEGIN" \notin Faults

There(c) == c.writes \subseteq committed
Kept(c) == c.writes \subseteq pending /\ c.writes \cap committed = {}
Gone(c) == c.writes \cap (committed \cup pending) = {}
Settled(c) ==
  IF c.refused THEN There(c) \/ Kept(c) \/ Gone(c)
  ELSE IF c.ok THEN There(c) ELSE Gone(c)

OneCall ==
  /\ \A j, k \in Jobs : Inside(j) /\ Inside(k) => j = k
  /\ \A j \in Jobs : Len(calls[j]) <= 1
  /\ \A j \in Jobs : Inside(j) => open /\ Head(calls[j]) \subseteq pending
  /\ \A c \in ended : Settled(c)

SerialInv == Bounds /\ OneCall /\ Atomic

LEMMA SerialNext ==
  ASSUME Serial, SerialInv, [Next]_vars
  PROVE  OneCall' /\ Atomic'
<1>1. /\ calls \in [Jobs -> Seq(SUBSET Ids)]
      /\ next \in Nat /\ pending \subseteq 1..next /\ committed \subseteq 1..next
      /\ pending \cap committed = {} /\ (pending # {} => open)
      /\ \A c \in ended : c.writes \subseteq 1..next
  BY DEF SerialInv, Bounds, TypeOK
<1>2. /\ \A j, k \in Jobs : Inside(j) /\ Inside(k) => j = k
      /\ \A j \in Jobs : Len(calls[j]) <= 1
      /\ \A j \in Jobs : Inside(j) => open /\ Head(calls[j]) \subseteq pending
      /\ \A c \in ended : Settled(c)
  BY DEF SerialInv, OneCall
\* Calls that are settled are atomic.
<1>0. (\A c \in ended' : Settled(c)') => Atomic'
  BY DEF Atomic, Settled, There, Kept, Gone
<1>3. ASSUME NEW j \in Jobs, MayRun(j)
      PROVE  \A k \in Jobs \ {j} : calls[k] = <<>>
  BY <1>3 DEF Serial, MayRun, Inside
\* An ended call stays settled when the transaction is kept as it is, committed or
\* dropped, and when something is written that it has not written.
<1>4. ASSUME NEW c \in ended, committed \subseteq committed',
             \/ pending' = {} /\ committed' = committed
             \/ pending' = {} /\ committed' = committed \cup pending
             \/ /\ pending \subseteq pending'
                /\ c.writes \cap pending' = c.writes \cap pending
                /\ c.writes \cap committed' = c.writes \cap committed
      PROVE  Settled(c)'
  BY <1>1, <1>2, <1>4 DEF Settled, There, Kept, Gone
<1>5. CASE UNCHANGED vars
  BY <1>0, <1>2, <1>5 DEF vars, OneCall, Inside, Settled, There, Kept, Gone
<1>6. ASSUME NEW j \in Jobs, Start(j) PROVE OneCall' /\ Atomic'
  <2>1. calls[j] = <<>>
    BY <1>1, <1>6, BoundAssumption DEF Serial, Start
  <2>2. /\ open' = TRUE /\ ended' = ended /\ committed \subseteq committed'
        /\ \/ UNCHANGED database
           \/ pending' = {} /\ committed' = committed \cup pending
    BY <1>6 DEF Start, Begin, Serial, database
  <2>8. \A c \in ended' : Settled(c)'
    BY <1>4, <2>2 DEF database
  <2>3. calls' = [calls EXCEPT ![j] = <<{}>> \o calls[j]]
    BY <1>6 DEF Start
  <2>4. calls'[j] # <<>> /\ Len(calls'[j]) = 1 /\ Head(calls'[j]) = {}
    <3> DEFINE s == calls[j]
    <3>1. s \in Seq(SUBSET Ids) /\ Len(s) = 0
      BY <1>1, <2>1
    <3>2. calls'[j] = <<{}>> \o s
      BY <1>1, <2>3
    <3>3. <<{}>> \o s # <<>> /\ Head(<<{}>> \o s) = {} /\ Len(<<{}>> \o s) = 1
      <4> HIDE DEF s
      <4> QED BY <3>1, CallsPushed
    <3> HIDE DEF s
    <3> QED
      BY <3>2, <3>3
  <2>5. \A k \in Jobs \ {j} : calls'[k] = <<>>
    BY <1>1, <1>3, <1>6, <2>3 DEF Start
  <2>6. \A k \in Jobs : Inside(k)' => k = j
    BY <2>5 DEF Inside
  <2>7. \A k \in Jobs : Len(calls'[k]) <= 1
    <3>1. ASSUME NEW k \in Jobs, k # j PROVE Len(calls'[k]) <= 1
      BY <2>5, <3>1
    <3>2. Len(calls'[j]) <= 1
      BY <2>4
    <3> QED
      BY <3>1, <3>2
  <2> QED
    BY <1>0, <2>2, <2>4, <2>6, <2>7, <2>8 DEF OneCall, Inside
<1>7. ASSUME NEW j \in Jobs, StartRaises(j) PROVE OneCall' /\ Atomic'
  <2>1. UNCHANGED <<open, pending, committed, calls>>
    BY <1>7 DEF StartRaises, database
  <2>2. ended' = ended \cup {[ok |-> FALSE, refused |-> FALSE, writes |-> {}]}
    BY <1>7 DEF StartRaises
  <2>3. \A c \in ended' : Settled(c)'
    BY <1>2, <2>1, <2>2 DEF Settled, There, Kept, Gone
  <2>4. OneCall'
    BY <1>2, <2>1, <2>3 DEF OneCall, Inside
  <2> QED
    BY <1>0, <2>3, <2>4
<1>8. ASSUME NEW j \in Jobs, Execute(j) PROVE OneCall' /\ Atomic'
  <2>1. /\ next' = next + 1 /\ next' \in Ids /\ next' \notin 1..next
        /\ open' = open /\ ended' = ended
        /\ calls' = [calls EXCEPT ![j] = Written(calls[j], next')]
    BY <1>1, <1>8, BoundAssumption DEF Execute, Ids
  <2>2. /\ \A k \in Jobs \ {j} : calls[k] = <<>> /\ calls'[k] = <<>>
        /\ Len(calls'[j]) <= 1
        /\ Inside(j)' = Inside(j)
    BY <1>1, <1>2, <1>3, <1>8, <2>1, CallsWritten DEF Execute, Inside
  <2>3. /\ committed \subseteq committed' /\ pending \subseteq pending'
        /\ committed' \cup pending' = committed \cup pending \cup {next'}
        /\ open => next' \in pending'
    BY <1>8 DEF Execute
  <2>4. \A c \in ended' : Settled(c)'
    <3> SUFFICES ASSUME NEW c \in ended PROVE Settled(c)'
      BY <2>1
    <3>1. next' \notin c.writes
      BY <1>1, <2>1
    <3>2. \/ pending' = pending \cup {next'} /\ committed' = committed
          \/ pending' = pending /\ committed' = committed \cup {next'}
      BY <1>8 DEF Execute
    <3>3. /\ c.writes \cap pending' = c.writes \cap pending
          /\ c.writes \cap committed' = c.writes \cap committed
      BY <3>1, <3>2
    <3> QED
      BY <1>4, <2>3, <3>3
  <2>5. ASSUME Inside(j) PROVE open' /\ Head(calls'[j]) \subseteq pending'
    <3>1. Head(calls'[j]) = Head(calls[j]) \cup {next'}
      BY <1>1, <2>1, <2>5, CallsWritten DEF Inside
    <3> QED
      BY <1>2, <2>1, <2>3, <2>5, <3>1
  <2> QED
    BY <1>0, <1>2, <2>1, <2>2, <2>4, <2>5 DEF OneCall, Inside
\* What the end of the one call leaves behind.
<1>9. ASSUME NEW j \in Jobs, NEW ok \in BOOLEAN, NEW refused \in BOOLEAN,
             MayRun(j), Inside(j), End(j, ok, refused),
             \/ Commit /\ ok /\ ~refused
             \/ Rollback /\ (refused \/ ~ok)
             \/ UNCHANGED database /\ refused
      PROVE  OneCall' /\ Atomic'
  <2>1. calls' = [calls EXCEPT ![j] = Tail(calls[j])]
    BY <1>9 DEF End
  <2>2. \A k \in Jobs : calls'[k] = <<>>
    <3>1. calls[j] \in Seq(SUBSET Ids) /\ calls[j] # <<>> /\ Len(calls[j]) <= 1
      BY <1>1, <1>2, <1>9 DEF Inside
    <3>2. Tail(calls[j]) = <<>>
      BY <3>1
    <3>3. \A k \in Jobs \ {j} : calls[k] = <<>>
      BY <1>3, <1>9
    <3> QED
      BY <1>1, <2>1, <3>2, <3>3
  <2>3. /\ Head(calls[j]) \subseteq pending
        /\ \A c \in ended' : c \in ended \/
             (c.ok = ok /\ c.refused = refused /\ c.writes = Head(calls[j]))
    BY <1>2, <1>9 DEF End
  <2>4. ASSUME NEW c \in ended' PROVE Settled(c)'
    <3>1. CASE c \in ended
      <4>1. \/ pending' = {} /\ committed' = committed
            \/ pending' = {} /\ committed' = committed \cup pending
            \/ pending' = pending /\ committed' = committed
        BY <1>9 DEF Commit, Rollback, database
      <4> QED
        BY <1>4, <3>1, <4>1
    <3>2. CASE c.ok = ok /\ c.refused = refused /\ c.writes = Head(calls[j])
      <4>1. c.writes \subseteq pending /\ c.writes \cap committed = {}
        BY <1>1, <2>3, <3>2
      <4>2. CASE Commit /\ ok /\ ~refused
        BY <3>2, <4>1, <4>2 DEF Settled, There, Commit
      <4>3. CASE Rollback /\ (refused \/ ~ok)
        BY <3>2, <4>1, <4>3 DEF Settled, Gone, Rollback
      <4>4. CASE UNCHANGED database /\ refused
        BY <3>2, <4>1, <4>4 DEF Settled, Kept, database
      <4> QED
        BY <1>9, <4>2, <4>3, <4>4
    <3> QED
      BY <2>3, <3>1, <3>2
  <2>5. OneCall'
    BY <2>2, <2>4 DEF OneCall, Inside
  <2> QED
    BY <1>0, <2>4, <2>5
<1>10. ASSUME NEW j \in Jobs, Return(j) \/ Raise(j) PROVE OneCall' /\ Atomic'
  <2>1. MayRun(j) /\ Inside(j)
    BY <1>10, HowCallsEnd
  <2>2. CASE Commit /\ End(j, TRUE, FALSE)
    BY <1>9, <2>1, <2>2
  <2>3. CASE Rollback /\ End(j, FALSE, FALSE)
    BY <1>9, <2>1, <2>3
  <2>4. CASE \E ok \in BOOLEAN : End(j, ok, TRUE) /\ (UNCHANGED database \/ Rollback)
    BY <1>9, <2>1, <2>4
  <2> QED
    BY <1>10, <2>2, <2>3, <2>4, HowCallsEnd
<1> QED
  BY <1>5, <1>6, <1>7, <1>8, <1>10 DEF Next

\* All or nothing for calls of txn that neither nest nor overlap, with a database
\* that refuses no BEGIN: a call whose own COMMIT or ROLLBACK it refuses may go
\* either way, in one piece, and disturbs no other call (dbix.lua:140-148).
THEOREM SerialAtomic ==
  ASSUME Serial
  PROVE  Spec => []Atomic
<1>1. Init => SerialInv
  <2>1. Init => OneCall /\ Atomic
    BY DEF Init, OneCall, Atomic, Inside
  <2> QED
    BY <2>1, BoundsInit DEF SerialInv
<1>2. SerialInv /\ [Next]_vars => SerialInv'
  BY BoundsNext, SerialNext DEF SerialInv
<1>3. SerialInv => Atomic
  BY DEF SerialInv
<1> QED
  BY <1>1, <1>2, <1>3, PTL DEF Spec
=============================================================================
