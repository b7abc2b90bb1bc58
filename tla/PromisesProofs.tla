---------------------------- MODULE PromisesProofs ----------------------------
(***************************************************************************)
(* The theorems of Promises: no await returns undecided or with the wrong  *)
(* outcome, and none is forgotten, whatever the order in which promises    *)
(* settle and whichever handlers throw.  The invariant counts: a promise   *)
(* has an entry for a job for each time the job awaits it, and a job's     *)
(* total is the number of its promises that resolved.                      *)
(***************************************************************************)
EXTENDS Promises, FiniteSetTheorems, SequenceTheorems, TLAPS

-----------------------------------------------------------------------------
(* Positions of a sequence, counted.                                        *)

\* How many elements of S are not above p.
Rank(S, p) == Cardinality({q \in S : q <= p})

\* The set of positions that satisfy a condition is finite, and its elements
\* are ranked from 1 on, one after the other.
LEMMA RankBijects ==
  ASSUME NEW S \in SUBSET Nat, IsFiniteSet(S)
  PROVE  /\ Cardinality(S) \in Nat
         /\ \A p \in S : Rank(S, p) \in 1 .. Cardinality(S)
         /\ \A p, q \in S : Rank(S, p) = Rank(S, q) => p = q
         /\ \A k \in 1 .. Cardinality(S) : \E p \in S : Rank(S, p) = k
<1> DEFINE m == Cardinality(S)
           Low(p) == {q \in S : q <= p}
           g == [p \in S |-> Rank(S, p)]
<1>1. m \in Nat
  BY FS_CardinalityType
<1>2. ASSUME NEW p \in S PROVE IsFiniteSet(Low(p)) /\ Rank(S, p) \in 1 .. m
  <2>1. Low(p) \in SUBSET S /\ p \in Low(p)
    OBVIOUS
  <2>2. IsFiniteSet(Low(p)) /\ Cardinality(Low(p)) <= m
    BY <2>1, FS_Subset
  <2>3. Cardinality(Low(p)) \in Nat /\ Cardinality(Low(p)) # 0
    BY <2>1, <2>2, FS_CardinalityType, FS_EmptySet
  <2> QED
    BY <1>1, <2>2, <2>3 DEF Rank
<1>3. ASSUME NEW p \in S, NEW q \in S, Rank(S, p) = Rank(S, q), p < q PROVE FALSE
  <2>1. Low(p) \in SUBSET Low(q) /\ q \in Low(q) /\ q \notin Low(p)
    <3>1. p \in Nat /\ q \in Nat /\ q <= q /\ ~(q <= p)
      BY <1>3
    <3>2. ASSUME NEW r \in S, r <= p PROVE r <= q
      <4>1. r \in Nat
        OBVIOUS
      <4> QED
        BY <1>3, <3>1, <3>2, <4>1
    <3>3. Low(p) \subseteq Low(q)
      BY <3>2
    <3> QED
      BY <3>1, <3>3
  <2>2. Cardinality(Low(q)) = Cardinality(Low(p))
    BY <1>3 DEF Rank
  <2> QED
    BY <1>2, <2>1, <2>2, FS_Subset
<1>4. \A p, q \in S : Rank(S, p) = Rank(S, q) => p = q
  <2> SUFFICES ASSUME NEW p \in S, NEW q \in S, Rank(S, p) = Rank(S, q) PROVE p = q
    OBVIOUS
  <2>1. p \in Nat /\ q \in Nat
    OBVIOUS
  <2> QED
    BY <1>3, <2>1
<1>5. g \in Injection(S, 1 .. m)
  <2>1. g \in [S -> 1 .. m] /\ \A p, q \in S : g[p] = g[q] => p = q
    BY <1>2, <1>4
  <2> QED
    BY <2>1 DEF Injection, IsInjective
<1>6. IsFiniteSet(1 .. m) /\ Cardinality(1 .. m) = m
  BY <1>1, FS_Interval
<1>7. g \in Surjection(S, 1 .. m)
  BY <1>5, <1>6, FS_Injection
<1>8. \A k \in 1 .. m : \E p \in S : Rank(S, p) = k
  BY <1>7 DEF Surjection
<1> QED
  BY <1>1, <1>2, <1>4, <1>8

\* Kth numbers the elements of a set of positions.
LEMMA KthBijects ==
  ASSUME NEW S \in SUBSET Nat, IsFiniteSet(S)
  PROVE  /\ Cardinality(S) \in Nat
         /\ \A k \in 1 .. Cardinality(S) : Kth(S, k) \in S
         /\ \A k, l \in 1 .. Cardinality(S) : Kth(S, k) = Kth(S, l) => k = l
         /\ \A p \in S : \E k \in 1 .. Cardinality(S) : Kth(S, k) = p
<1>1. ASSUME NEW k \in 1 .. Cardinality(S)
      PROVE  Kth(S, k) \in S /\ Rank(S, Kth(S, k)) = k
  <2>1. PICK p \in S : Rank(S, p) = k
    BY RankBijects
  <2>2. p \in Ranked(S, k)
    BY <2>1 DEF Ranked, Rank
  <2>3. Kth(S, k) \in Ranked(S, k)
    BY <2>2 DEF Kth
  <2> QED
    BY <2>3 DEF Ranked, Rank
<1>2. \A k, l \in 1 .. Cardinality(S) : Kth(S, k) = Kth(S, l) => k = l
  BY <1>1
<1>3. ASSUME NEW p \in S PROVE \E k \in 1 .. Cardinality(S) : Kth(S, k) = p
  <2>1. Rank(S, p) \in 1 .. Cardinality(S)
    BY RankBijects
  <2>2. Kth(S, Rank(S, p)) \in S /\ Rank(S, Kth(S, Rank(S, p))) = Rank(S, p)
    BY <1>1, <2>1
  <2>3. \A a, b \in S : Rank(S, a) = Rank(S, b) => a = b
    BY RankBijects
  <2>4. Kth(S, Rank(S, p)) = p
    BY <2>2, <2>3
  <2> QED
    BY <2>1, <2>4
<1> QED
  BY <1>1, <1>2, <1>3, RankBijects

\* How many entries of a sequence are a.
Occurs(q, a) == Cardinality({i \in DOMAIN q : q[i] = a})

\* The positions of a sequence that satisfy a condition are a finite set.
LEMMA PositionsFinite ==
  ASSUME NEW T, NEW q \in Seq(T), NEW S \in SUBSET (DOMAIN q)
  PROVE  /\ S \in SUBSET Nat /\ IsFiniteSet(S) /\ Cardinality(S) \in Nat
         /\ Cardinality(S) <= Len(q) /\ (Cardinality(S) = Len(q) => S = DOMAIN q)
<1>1. DOMAIN q = 1 .. Len(q) /\ Len(q) \in Nat
  OBVIOUS
<1>2. IsFiniteSet(DOMAIN q) /\ Cardinality(DOMAIN q) = Len(q)
  <2>1. /\ IsFiniteSet(1 .. Len(q))
        /\ Cardinality(1 .. Len(q)) = IF 1 > Len(q) THEN 0 ELSE Len(q) - 1 + 1
    BY <1>1, FS_Interval
  <2> QED
    BY <1>1, <2>1
<1>3. /\ IsFiniteSet(S) /\ Cardinality(S) <= Len(q)
      /\ (Cardinality(S) = Len(q) => S = DOMAIN q)
  BY <1>2, FS_Subset
<1> QED
  BY <1>1, <1>3, FS_CardinalityType

\* Taking the entries at some positions takes as many of each as are there.
LEMMA AtCounts ==
  ASSUME NEW T, NEW q \in Seq(T), NEW S \in SUBSET (DOMAIN q)
  PROVE  /\ At(q, S) \in Seq(T)
         /\ \A a : Occurs(At(q, S), a) = Cardinality({i \in S : q[i] = a})
         /\ \A i \in S : \E k \in DOMAIN At(q, S) : At(q, S)[k] = q[i]
         /\ \A k \in DOMAIN At(q, S) : \E i \in S : At(q, S)[k] = q[i]
<1> DEFINE m == Cardinality(S)
<1>1. S \in SUBSET Nat /\ IsFiniteSet(S) /\ m \in Nat
  BY PositionsFinite
<1>2. /\ \A k \in 1 .. m : Kth(S, k) \in S
      /\ \A k, l \in 1 .. m : Kth(S, k) = Kth(S, l) => k = l
      /\ \A p \in S : \E k \in 1 .. m : Kth(S, k) = p
  BY <1>1, KthBijects
<1>3. DOMAIN At(q, S) = 1 .. m /\ \A k \in 1 .. m : At(q, S)[k] = q[Kth(S, k)]
  BY DEF At
<1>4. At(q, S) \in Seq(T)
  <2>1. \A k \in 1 .. m : q[Kth(S, k)] \in T
    BY <1>2
  <2> QED
    BY <1>1, <2>1 DEF At
<1>5. ASSUME NEW a PROVE Occurs(At(q, S), a) = Cardinality({i \in S : q[i] = a})
  <2> DEFINE K == {k \in 1 .. m : q[Kth(S, k)] = a}
             I == {i \in S : q[i] = a}
             g == [k \in K |-> Kth(S, k)]
  <2>1. g \in Bijection(K, I)
    <3>1. g \in [K -> I]
      BY <1>2
    <3>2. \A k, l \in K : g[k] = g[l] => k = l
      BY <1>2
    <3>3. \A i \in I : \E k \in K : g[k] = i
      BY <1>2
    <3> QED
      BY <3>1, <3>2, <3>3 DEF Bijection, Injection, IsInjective, Surjection
  <2>2. IsFiniteSet(K)
    <3>1. IsFiniteSet(1 .. m) /\ K \in SUBSET (1 .. m)
      BY <1>1, FS_Interval
    <3> QED
      BY <3>1, FS_Subset
  <2>3. Cardinality(I) = Cardinality(K)
    BY <2>1, <2>2, FS_Bijection DEF ExistsBijection
  <2>4. K = {k \in DOMAIN At(q, S) : At(q, S)[k] = a}
    BY <1>3
  <2> QED
    BY <2>3, <2>4 DEF Occurs
<1> QED
  BY <1>2, <1>3, <1>4, <1>5

\* Has and Occurs say the same of an entry.
LEMMA HasOccurs ==
  ASSUME NEW T, NEW q \in Seq(T), NEW a
  PROVE  Occurs(q, a) \in Nat /\ (Has(q, a) <=> Occurs(q, a) # 0)
<1> DEFINE I == {i \in DOMAIN q : q[i] = a}
<1>1. I \in SUBSET DOMAIN q
  OBVIOUS
<1>2. IsFiniteSet(I) /\ Cardinality(I) \in Nat
  BY <1>1, PositionsFinite
<1>3. Cardinality(I) = 0 <=> I = {}
  BY <1>2, FS_EmptySet
<1> QED
  BY <1>2, <1>3 DEF Occurs, Has

\* What is left without a has no a, and as many of any other entry.
LEMMA WithoutCounts ==
  ASSUME NEW T, NEW q \in Seq(T), NEW j
  PROVE  /\ Without(q, j) \in Seq(T)
         /\ \A a : Occurs(Without(q, j), a) = IF a = j THEN 0 ELSE Occurs(q, a)
         /\ \A h : h # j => (Has(Without(q, j), h) <=> Has(q, h))
<1> DEFINE S == {i \in DOMAIN q : q[i] # j}
<1>1. S \in SUBSET DOMAIN q /\ Without(q, j) = At(q, S)
  BY DEF Without
<1>2. /\ At(q, S) \in Seq(T)
      /\ \A a : Occurs(At(q, S), a) = Cardinality({i \in S : q[i] = a})
  BY <1>1, AtCounts
<1>3. ASSUME NEW a PROVE Occurs(Without(q, j), a) = IF a = j THEN 0 ELSE Occurs(q, a)
  <2>1. CASE a = j
    <3>1. {i \in S : q[i] = a} = {}
      BY <2>1
    <3> QED
      BY <1>1, <1>2, <2>1, <3>1, FS_EmptySet
  <2>2. CASE a # j
    <3>1. {i \in S : q[i] = a} = {i \in DOMAIN q : q[i] = a}
      BY <2>2
    <3> QED
      BY <1>1, <1>2, <2>2, <3>1 DEF Occurs
  <2> QED
    BY <2>1, <2>2
<1>4. ASSUME NEW h, h # j PROVE Has(Without(q, j), h) <=> Has(q, h)
  <2>1. Occurs(Without(q, j), h) = Occurs(q, h)
    BY <1>3, <1>4
  <2> QED
    BY <1>1, <1>2, <2>1, HasOccurs
<1> QED
  BY <1>1, <1>2, <1>3, <1>4

\* Entries that are appended add up.
LEMMA JoinCounts ==
  ASSUME NEW T, NEW q \in Seq(T), NEW n \in Nat, NEW j \in T
  PROVE  /\ q \o Entries(n, j) \in Seq(T)
         /\ \A a : Occurs(q \o Entries(n, j), a) =
                     Occurs(q, a) + (IF a = j THEN n ELSE 0)
         /\ \A h : h # j => (Has(q \o Entries(n, j), h) <=> Has(q, h))
<1> DEFINE e == Entries(n, j)
           r == q \o e
           l == Len(q)
<1>1. e \in Seq(T) /\ Len(e) = n /\ \A i \in 1 .. n : e[i] = j
  BY DEF Entries
<1>2. l \in Nat /\ DOMAIN q = 1 .. l
  OBVIOUS
<1>3. r \in Seq(T) /\ DOMAIN r = 1 .. (l + n)
  BY <1>1, <1>2
<1>4. /\ \A i \in 1 .. l : r[i] = q[i]
      /\ \A i \in (l + 1) .. (l + n) : r[i] = j
  BY <1>1, <1>2
<1>5. ASSUME NEW a PROVE Occurs(r, a) = Occurs(q, a) + (IF a = j THEN n ELSE 0)
  <2> DEFINE I == {i \in DOMAIN q : q[i] = a}
             R == {i \in DOMAIN r : r[i] = a}
             E == (l + 1) .. (l + n)
  <2>1. IsFiniteSet(I) /\ Cardinality(I) \in Nat
    BY PositionsFinite
  <2>2. CASE a # j
    <3>1. R = I
      BY <1>2, <1>3, <1>4, <2>2
    <3>2. Occurs(r, a) = Occurs(q, a) /\ Occurs(q, a) \in Nat
      BY <2>1, <3>1 DEF Occurs
    <3> QED
      BY <2>2, <3>2
  <2>3. CASE a = j
    <3>1. R = I \cup E /\ I \cap E = {}
      BY <1>2, <1>3, <1>4, <2>3
    <3>2. IsFiniteSet(E) /\ Cardinality(E) = n
      <4>1. l + 1 \in Int /\ l + n \in Int
        BY <1>2
      <4>2. /\ IsFiniteSet(E)
            /\ Cardinality(E) = IF l + 1 > l + n THEN 0 ELSE (l + n) - (l + 1) + 1
        BY <4>1, FS_Interval
      <4> QED
        BY <1>2, <4>2
    <3>3. Cardinality(I \cup E) = Cardinality(I) + Cardinality(E) - Cardinality(I \cap E)
      BY <2>1, <3>2, FS_Union
    <3>4. Cardinality(I \cap E) = 0
      BY <3>1, FS_EmptySet
    <3>5. Cardinality(R) = Cardinality(I) + n
      <4>1. Cardinality(R) = Cardinality(I \cup E)
        BY <3>1, Zenon
      <4> HIDE DEF R, I, E
      <4> QED
        BY <2>1, <3>2, <3>3, <3>4, <4>1
    <3>6. Occurs(r, a) = Cardinality(R) /\ Occurs(q, a) = Cardinality(I)
      BY DEF Occurs
    <3> QED
      BY <2>3, <3>5, <3>6
  <2> QED
    BY <2>2, <2>3
<1>6. ASSUME NEW h, h # j PROVE Has(r, h) <=> Has(q, h)
  <2>1. Occurs(q, h) \in Nat
    BY HasOccurs
  <2>2. Occurs(r, h) = Occurs(q, h)
    BY <1>5, <1>6, <2>1
  <2> QED
    BY <1>3, <2>2, HasOccurs
<1> QED
  BY <1>3, <1>5, <1>6

\* The same for one entry.
LEMMA AppendCounts ==
  ASSUME NEW T, NEW q \in Seq(T), NEW h \in T
  PROVE  /\ Append(q, h) \in Seq(T)
         /\ \A a : a # h => Occurs(Append(q, h), a) = Occurs(q, a)
         /\ \A a : Has(q, a) => Has(Append(q, h), a)
<1>1. /\ Append(q, h) \in Seq(T) /\ Len(q) \in Nat /\ DOMAIN q = 1 .. Len(q)
      /\ DOMAIN Append(q, h) = 1 .. (Len(q) + 1)
  OBVIOUS
<1>2. /\ \A i \in DOMAIN q : Append(q, h)[i] = q[i]
      /\ Append(q, h)[Len(q) + 1] = h
  OBVIOUS
<1>3. ASSUME NEW a, a # h
      PROVE  {i \in DOMAIN Append(q, h) : Append(q, h)[i] = a} = {i \in DOMAIN q : q[i] = a}
  BY <1>1, <1>2, <1>3
<1>4. ASSUME NEW a, Has(q, a) PROVE Has(Append(q, h), a)
  BY <1>1, <1>2, <1>4 DEF Has
<1> QED
  BY <1>1, <1>3, <1>4 DEF Occurs

\* Of the entries for a, those that run: all of them when no handler throws.
LEMMA CountsBounds ==
  ASSUME NEW T, NEW q \in Seq(T), NEW h, NEW a
  PROVE  /\ Counts(q, h, a) \in Nat /\ Counts(q, h, a) <= Occurs(q, a)
         /\ (~Has(q, h) => Counts(q, h, a) = Occurs(q, a))
<1> DEFINE C == {i \in Before(q, h) : q[i] = a}
           I == {i \in DOMAIN q : q[i] = a}
<1>1. I \in SUBSET DOMAIN q /\ C \in SUBSET I
  BY DEF Before
<1>2. IsFiniteSet(I) /\ Cardinality(I) \in Nat
  BY <1>1, PositionsFinite
<1>3. IsFiniteSet(C) /\ Cardinality(C) <= Cardinality(I)
  BY <1>1, <1>2, FS_Subset
<1>4. Cardinality(C) \in Nat
  BY <1>3, FS_CardinalityType
<1>5. ASSUME ~Has(q, h) PROVE C = I
  <2>1. \A i \in DOMAIN q : 1 .. i \subseteq DOMAIN q
    OBVIOUS
  <2> QED
    BY <1>5, <2>1 DEF Has, Before
<1> QED
  BY <1>3, <1>4, <1>5 DEF Counts, Occurs

-----------------------------------------------------------------------------
(* The inductive invariant.                                                 *)

\* A promise settles when its job ends.
Unsettled == \A j \in Jobs : status[j] # "dead" => settled[j] = {}

\* The jobs of the stack are active, and each is there once.
Stacked ==
  /\ \A k \in DOMAIN stack : status[stack[k]] = "active"
  /\ \A k, l \in DOMAIN stack : stack[k] = stack[l] => k = l

\* A promise has one entry for a blocked job for each time it is awaited by it,
\* and none for any other job.
Entered ==
  \A a, p \in Jobs :
    Occurs(handlers[p], a) = IF status[a] = "blocked" THEN Times(of[a], p) ELSE 0

\* The positions of a list whose promises have settled in that way.
Having(s, x, t) == {i \in DOMAIN t : x \in s[t[i]]}

\* Promise.all does not count more than what has resolved.
Fits(a) ==
  /\ Len(of[a]) <= Width
  /\ total[a] <= Cardinality(Having(settled, "resolved", of[a]))

\* OutcomeRight, of one job.
Right(a) ==
  /\ signal[a] => outcome[a] # "nil"
  /\ outcome[a] = "results" => Having(settled, "resolved", of[a]) = DOMAIN of[a]
  /\ outcome[a] = "error" => Having(settled, "rejected", of[a]) # {}

\* Promise.all has counted every promise of the list.
Full(a) == total[a] >= Len(of[a])

\* Promise.all has counted all that has resolved.
Exact(a) == total[a] = Cardinality(Having(settled, "resolved", of[a]))

\* The promises that reject a's await, for certain.
Rejecting(a) == \E i \in Having(settled, "rejected", of[a]) : ~Has(handlers[of[a][i]], FailBoom)

\* A blocked job is signalled when it must be, and its count is exact until a
\* promise of its list is rejected.
Signalled(a) ==
  status[a] = "blocked" =>
    /\ Rejecting(a) => signal[a]
    /\ Having(settled, "rejected", of[a]) # {} \/ Exact(a)
    /\ Full(a) => signal[a]

Awaits == \A a \in Jobs : Fits(a) /\ Right(a) /\ Signalled(a)

PromiseInv == TypeOK /\ Unsettled /\ Stacked /\ Entered /\ Awaits

-----------------------------------------------------------------------------
\* The types of one job's variables.
LEMMA JobTypes ==
  ASSUME TypeOK, NEW a \in Jobs
  PROVE  /\ status[a] \in {"new", "active", "paused", "blocked", "dead"}
         /\ settled[a] \in SUBSET {"resolved", "rejected"}
         /\ handlers[a] \in Seq(1 .. (N + 2))
         /\ of[a] \in Seq(Jobs) /\ Len(of[a]) \in Nat
         /\ total[a] \in Nat /\ total[a] <= Width
         /\ outcome[a] \in {"nil", "results", "error"}
         /\ signal[a] \in BOOLEAN
         /\ N \in Nat /\ Width \in Nat
<1>1. N \in Nat /\ Width \in Nat
  BY SizeAssumption
<1>2. /\ status[a] \in {"new", "active", "paused", "blocked", "dead"}
      /\ settled[a] \in SUBSET {"resolved", "rejected"}
      /\ handlers[a] \in Seq(1 .. (N + 2))
      /\ of[a] \in Seq(Jobs) /\ total[a] \in 0 .. Width
      /\ outcome[a] \in {"nil", "results", "error"}
      /\ signal[a] \in BOOLEAN
  BY Zenon DEF TypeOK
<1> QED
  BY <1>1, <1>2

\* The promises of a list that settled in one way are finitely many, and all of
\* them when they are as many as the list is long.
LEMMA HavingCounts ==
  ASSUME NEW t \in Seq(Jobs), NEW s, NEW x
  PROVE  /\ Having(s, x, t) \in SUBSET (DOMAIN t)
         /\ IsFiniteSet(Having(s, x, t)) /\ Cardinality(Having(s, x, t)) \in Nat
         /\ Cardinality(Having(s, x, t)) <= Len(t)
         /\ (Cardinality(Having(s, x, t)) >= Len(t) => Having(s, x, t) = DOMAIN t)
         /\ (Having(s, x, t) = DOMAIN t => Cardinality(Having(s, x, t)) = Len(t))
<1> DEFINE S == Having(s, x, t)
<1>1. S \in SUBSET (DOMAIN t)
  BY DEF Having
<1>2. /\ IsFiniteSet(S) /\ Cardinality(S) \in Nat /\ Cardinality(S) <= Len(t)
      /\ (Cardinality(S) = Len(t) => S = DOMAIN t)
  BY <1>1, PositionsFinite
<1>3. Len(t) \in Nat /\ DOMAIN t = 1 .. Len(t)
  OBVIOUS
<1>4. ASSUME S = DOMAIN t PROVE Cardinality(S) = Len(t)
  <2>1. Cardinality(1 .. Len(t)) = IF 1 > Len(t) THEN 0 ELSE Len(t) - 1 + 1
    BY <1>3, FS_Interval
  <2>2. Cardinality(S) = Cardinality(1 .. Len(t))
    BY <1>3, <1>4
  <2> QED
    BY <1>3, <2>1, <2>2
<1> HIDE DEF S
<1>5. Cardinality(S) >= Len(t) => S = DOMAIN t
  BY <1>2, <1>3
<1> QED
  BY <1>1, <1>2, <1>4, <1>5 DEF S

\* How often a list has a promise.
LEMMA TimesNat ==
  ASSUME NEW t \in Seq(Jobs), NEW p
  PROVE  Times(t, p) = Occurs(t, p) /\ Times(t, p) \in Nat
<1>1. Times(t, p) = Occurs(t, p)
  BY DEF Times, Occurs
<1> QED
  BY <1>1, HasOccurs

\* The numbers of jobs are not those of the throwing handlers.
LEMMA BoomsApart == ASSUME NEW a \in Jobs PROVE a # DoneBoom /\ a # FailBoom /\ a \in 1 .. (N + 2)
BY SizeAssumption DEF Jobs, DoneBoom, FailBoom

\* A step that leaves a job's await alone, and settles nothing.
LEMMA AwaitKept ==
  ASSUME TypeOK, NEW a \in Jobs, Fits(a), Right(a), Signalled(a),
         settled' = settled,
         of'[a] = of[a], total'[a] = total[a], outcome'[a] = outcome[a],
         signal'[a] = signal[a],
         status'[a] = "blocked" => status[a] = "blocked",
         \A p \in Jobs : Has(handlers[p], FailBoom) => Has(handlers'[p], FailBoom)
  PROVE  Fits(a)' /\ Right(a)' /\ Signalled(a)'
<1>1. Fits(a)'
  BY DEF Fits
<1>2. Right(a)'
  BY Zenon DEF Right
<1>3. Rejecting(a)' => Rejecting(a)
  <2>1. of[a] \in Seq(Jobs)
    BY JobTypes
  <2>2. \A i \in DOMAIN of[a] : of[a][i] \in Jobs
    BY <2>1
  <2> QED
    BY <2>2, Zenon DEF Rejecting, Having
<1>4. (Full(a)' <=> Full(a)) /\ (Exact(a)' <=> Exact(a))
  BY DEF Full, Exact
<1>5. Signalled(a)'
  BY <1>3, <1>4, Zenon DEF Signalled
<1> QED
  BY <1>1, <1>2, <1>5

\* A running job is active and the first of the stack.
LEMMA RunningActive ==
  ASSUME TypeOK, Stacked, NEW j \in Jobs, Running(j)
  PROVE  /\ status[j] = "active" /\ stack \in Seq(Jobs) /\ stack # <<>>
         /\ stack[1] = j /\ Len(stack) \in Nat /\ Len(stack) >= 1
<1>1. stack \in Seq(Jobs) /\ stack # <<>> /\ Head(stack) = j
  BY Zenon DEF TypeOK, Running
<1>2. Len(stack) \in Nat /\ Len(stack) >= 1 /\ stack[1] = j /\ 1 \in DOMAIN stack
  BY <1>1
<1> QED
  BY <1>1, <1>2 DEF Stacked

\* What is left of the stack when the running job yields.
LEMMA StackPopped ==
  ASSUME TypeOK, Stacked, NEW j \in Jobs, Running(j), NEW v,
         stack' = Tail(stack), status' = [status EXCEPT ![j] = v]
  PROVE  stack' \in Seq(Jobs) /\ Stacked'
<1> DEFINE n == Len(stack)
<1>1. /\ stack \in Seq(Jobs) /\ stack[1] = j /\ n \in Nat /\ n >= 1
      /\ DOMAIN stack = 1 .. n /\ stack # <<>>
  BY RunningActive
<1>2. /\ Tail(stack) \in Seq(Jobs) /\ DOMAIN Tail(stack) = 1 .. (n - 1)
      /\ \A k \in 1 .. (n - 1) : Tail(stack)[k] = stack[k + 1]
  BY <1>1
<1>3. status \in [Jobs -> {"new", "active", "paused", "blocked", "dead"}]
  BY Zenon DEF TypeOK
<1>4. /\ \A k \in 1 .. n : stack[k] \in Jobs /\ status[stack[k]] = "active"
      /\ \A k, l \in 1 .. n : stack[k] = stack[l] => k = l
  BY <1>1 DEF Stacked
<1>5. ASSUME NEW k \in 1 .. (n - 1) PROVE status'[stack'[k]] = "active"
  <2>1. k + 1 \in 1 .. n /\ 1 \in 1 .. n /\ k + 1 # 1
    BY <1>1
  <2>2. stack[k + 1] # j /\ stack[k + 1] \in Jobs /\ status[stack[k + 1]] = "active"
    BY <1>1, <1>4, <2>1
  <2> QED
    BY <1>2, <1>3, <2>2
<1>6. ASSUME NEW k \in 1 .. (n - 1), NEW l \in 1 .. (n - 1), stack'[k] = stack'[l]
      PROVE  k = l
  <2>1. k + 1 \in 1 .. n /\ l + 1 \in 1 .. n
    BY <1>1
  <2>2. k + 1 = l + 1
    BY <1>2, <1>4, <1>6, <2>1
  <2> QED
    BY <2>2
<1> QED
  BY <1>2, <1>5, <1>6 DEF Stacked

\* A promise that settles does so wherever it is awaited.
LEMMA SettleAdds ==
  ASSUME TypeOK, Unsettled, NEW j \in Jobs, status[j] = "active", NEW R,
         settled' = [settled EXCEPT ![j] = R], NEW t \in Seq(Jobs), NEW x
  PROVE  /\ x \in R => Having(settled', x, t) =
                         Having(settled, x, t) \cup {i \in DOMAIN t : t[i] = j}
         /\ x \notin R => Having(settled', x, t) = Having(settled, x, t)
         /\ x \in R => Cardinality(Having(settled', x, t)) =
                         Cardinality(Having(settled, x, t)) + Times(t, j)
         /\ Having(settled, x, t) \subseteq Having(settled', x, t)
<1> DEFINE H == Having(settled, x, t)
           J == {i \in DOMAIN t : t[i] = j}
<1>1. settled \in [Jobs -> SUBSET {"resolved", "rejected"}] /\ settled[j] = {}
  BY Zenon DEF TypeOK, Unsettled
<1>2. \A i \in DOMAIN t : t[i] \in Jobs
  OBVIOUS
<1>3. /\ settled'[j] = R
      /\ \A p \in Jobs : p # j => settled'[p] = settled[p]
  BY <1>1
<1>4. x \in R => Having(settled', x, t) = H \cup J
  BY <1>1, <1>2, <1>3 DEF Having
<1>5. x \notin R => Having(settled', x, t) = H
  BY <1>1, <1>2, <1>3 DEF Having
<1>6. H \cap J = {}
  BY <1>1 DEF Having
<1>7. ASSUME x \in R PROVE Cardinality(Having(settled', x, t)) = Cardinality(H) + Times(t, j)
  <2>1. IsFiniteSet(H) /\ Cardinality(H) \in Nat
    BY HavingCounts
  <2>2. J \in SUBSET (DOMAIN t)
    OBVIOUS
  <2>3. IsFiniteSet(J) /\ Cardinality(J) \in Nat /\ Cardinality(J) = Times(t, j)
    BY <2>2, PositionsFinite DEF Times
  <2>4. Cardinality(H \cup J) = Cardinality(H) + Cardinality(J) - Cardinality(H \cap J)
    BY <2>1, <2>3, FS_Union
  <2>5. Cardinality(H \cap J) = 0
    BY <1>6, FS_EmptySet
  <2>6. Cardinality(Having(settled', x, t)) = Cardinality(H \cup J)
    BY <1>4, <1>7
  <2> HIDE DEF H, J
  <2> QED
    BY <2>1, <2>3, <2>4, <2>5, <2>6
<1> QED
  BY <1>4, <1>5, <1>7

-----------------------------------------------------------------------------
(* Steps that settle nothing.                                               *)

LEMMA InitInv == Init => PromiseInv
<1> SUFFICES ASSUME Init PROVE PromiseInv
  OBVIOUS
<1>1. TypeOK
  BY SizeAssumption DEF Init, TypeOK
<1>2. Unsettled /\ Stacked
  BY DEF Init, Unsettled, Stacked
<1>3. Entered
  <2> SUFFICES ASSUME NEW a \in Jobs, NEW p \in Jobs PROVE Occurs(handlers[p], a) = 0
    BY DEF Entered, Init
  <2>1. {i \in DOMAIN handlers[p] : handlers[p][i] = a} = {}
    BY DEF Init
  <2> QED
    BY <2>1, FS_EmptySet DEF Occurs
<1>4. ASSUME NEW a \in Jobs PROVE Fits(a) /\ Right(a) /\ Signalled(a)
  <2>1. /\ status[a] = "new" /\ of[a] = << >> /\ total[a] = 0
        /\ outcome[a] = "nil" /\ signal[a] = FALSE
    BY DEF Init
  <2>2. Having(settled, "resolved", of[a]) = {}
    BY <2>1 DEF Having
  <2>3. Fits(a)
    BY <2>1, <2>2, FS_EmptySet, SizeAssumption DEF Fits
  <2> QED
    BY <2>1, <2>3 DEF Right, Signalled
<1> QED
  BY <1>1, <1>2, <1>3, <1>4 DEF PromiseInv, Awaits

\* loop:job.
LEMMA CreateKeeps == ASSUME PromiseInv, NEW j \in Jobs, Create(j) PROVE PromiseInv'
<1>1. /\ status[j] = "new" /\ status' = [status EXCEPT ![j] = "active"]
      /\ stack' = <<j>> \o stack
  BY Zenon DEF Create
<1>2. /\ alive' = alive /\ settled' = settled /\ handlers' = handlers /\ of' = of
      /\ total' = total /\ outcome' = outcome /\ signal' = signal
  BY Zenon DEF Create
<1>3. stack \in Seq(Jobs) /\ status \in [Jobs -> {"new", "active", "paused", "blocked", "dead"}]
  BY Zenon DEF PromiseInv, TypeOK
<1>4. stack' \in Seq(Jobs) /\ Stacked'
  <2> DEFINE n == Len(stack)
  <2>1. /\ stack' \in Seq(Jobs) /\ n \in Nat /\ DOMAIN stack' = 1 .. (n + 1)
        /\ DOMAIN stack = 1 .. n /\ stack'[1] = j
        /\ \A k \in 2 .. (n + 1) : stack'[k] = stack[k - 1]
    BY <1>1, <1>3
  <2>2. /\ \A k \in 1 .. n : status[stack[k]] = "active" /\ stack[k] \in Jobs
        /\ \A k, l \in 1 .. n : stack[k] = stack[l] => k = l
    BY <1>3, <2>1 DEF PromiseInv, Stacked
  <2>3. ASSUME NEW k \in 2 .. (n + 1)
        PROVE  k - 1 \in 1 .. n /\ stack'[k] # j /\ status'[stack'[k]] = "active"
    <3>1. k - 1 \in 1 .. n
      BY <2>1
    <3> QED
      BY <1>1, <1>3, <2>1, <2>2, <3>1
  <2>4. \A k \in 1 .. (n + 1) : k = 1 \/ k \in 2 .. (n + 1)
    BY <2>1
  <2>5. \A k \in 1 .. (n + 1) : status'[stack'[k]] = "active"
    BY <1>1, <1>3, <2>1, <2>3, <2>4
  <2>6. ASSUME NEW k \in 1 .. (n + 1), NEW l \in 1 .. (n + 1), stack'[k] = stack'[l]
        PROVE  k = l
    <3>1. CASE k = 1 \/ l = 1
      BY <2>1, <2>3, <2>4, <2>6, <3>1
    <3>2. CASE k # 1 /\ l # 1
      <4>1. k - 1 \in 1 .. n /\ l - 1 \in 1 .. n /\ stack[k - 1] = stack[l - 1]
        BY <2>1, <2>3, <2>4, <2>6, <3>2
      <4>2. k - 1 = l - 1
        BY <2>2, <4>1
      <4> QED
        BY <4>2
    <3> QED
      BY <3>1, <3>2
  <2> QED
    BY <2>1, <2>5, <2>6 DEF Stacked
<1>5. TypeOK'
  <2>1. status' \in [Jobs -> {"new", "active", "paused", "blocked", "dead"}]
    BY <1>1, <1>3
  <2> QED
    BY <1>2, <1>4, <2>1, Zenon DEF PromiseInv, TypeOK
<1>6. Unsettled'
  BY <1>1, <1>2, <1>3 DEF PromiseInv, Unsettled
<1>7. \A a \in Jobs : status'[a] = "blocked" <=> status[a] = "blocked"
  BY <1>1, <1>3
<1>8. Entered'
  BY <1>2, <1>7, Zenon DEF PromiseInv, Entered
<1>9. ASSUME NEW a \in Jobs PROVE Fits(a)' /\ Right(a)' /\ Signalled(a)'
  BY <1>2, <1>7, AwaitKept DEF PromiseInv, Awaits
<1> QED
  BY <1>4, <1>5, <1>6, <1>8, <1>9 DEF PromiseInv, Awaits

\* A handler of the program's own that throws is added.
LEMMA AddThrowingKeeps == ASSUME PromiseInv, NEW p \in Jobs, AddThrowing(p) PROVE PromiseInv'
<1>1. /\ alive' = alive /\ status' = status /\ stack' = stack /\ settled' = settled
      /\ of' = of /\ total' = total /\ outcome' = outcome /\ signal' = signal
  BY Zenon DEF AddThrowing
<1>2. PICK h \in {DoneBoom, FailBoom} : handlers' = [handlers EXCEPT ![p] = Append(@, h)]
  BY Zenon DEF AddThrowing
<1>3. handlers \in [Jobs -> Seq(1 .. (N + 2))]
  BY Zenon DEF PromiseInv, TypeOK
<1>4. h \in 1 .. (N + 2) /\ \A a \in Jobs : a # h
  BY <1>2, BoomsApart, SizeAssumption DEF DoneBoom, FailBoom
<1>5. ASSUME NEW q \in Jobs
      PROVE  /\ handlers'[q] \in Seq(1 .. (N + 2))
             /\ \A a \in Jobs : Occurs(handlers'[q], a) = Occurs(handlers[q], a)
             /\ Has(handlers[q], FailBoom) => Has(handlers'[q], FailBoom)
  <2>1. handlers[q] \in Seq(1 .. (N + 2))
    BY <1>3
  <2>2. CASE q = p
    <3>1. handlers'[q] = Append(handlers[q], h)
      BY <1>2, <1>3, <2>2
    <3>2. /\ Append(handlers[q], h) \in Seq(1 .. (N + 2))
          /\ \A a : a # h => Occurs(Append(handlers[q], h), a) = Occurs(handlers[q], a)
          /\ \A a : Has(handlers[q], a) => Has(Append(handlers[q], h), a)
      BY <1>4, <2>1, AppendCounts
    <3> QED
      BY <1>4, <3>1, <3>2, Zenon
  <2>3. CASE q # p
    <3>1. handlers'[q] = handlers[q]
      BY <1>2, <1>3, <2>3
    <3> QED
      BY <2>1, <3>1
  <2> QED
    BY <2>2, <2>3
<1>6. TypeOK'
  <2>1. handlers' \in [Jobs -> Seq(1 .. (N + 2))]
    BY <1>2, <1>3, <1>5
  <2> QED
    BY <1>1, <2>1, Zenon DEF PromiseInv, TypeOK
<1>7. Unsettled' /\ Stacked'
  BY <1>1 DEF PromiseInv, Unsettled, Stacked
<1>8. Entered'
  BY <1>1, <1>5, Zenon DEF PromiseInv, Entered
<1>9. ASSUME NEW a \in Jobs PROVE Fits(a)' /\ Right(a)' /\ Signalled(a)'
  BY <1>1, <1>5, AwaitKept DEF PromiseInv, Awaits
<1> QED
  BY <1>6, <1>7, <1>8, <1>9 DEF PromiseInv, Awaits

\* The running job yields.
LEMMA PauseKeeps == ASSUME PromiseInv, NEW j \in Jobs, Pause(j) PROVE PromiseInv'
<1>1. /\ Running(j) /\ status' = [status EXCEPT ![j] = "paused"] /\ stack' = Tail(stack)
      /\ alive' = alive /\ settled' = settled /\ handlers' = handlers /\ of' = of
      /\ total' = total /\ outcome' = outcome /\ signal' = signal
  BY Zenon DEF Pause
<1>2. status \in [Jobs -> {"new", "active", "paused", "blocked", "dead"}]
  BY Zenon DEF PromiseInv, TypeOK
<1>3. stack' \in Seq(Jobs) /\ Stacked' /\ status[j] = "active"
  BY <1>1, StackPopped, RunningActive DEF PromiseInv
<1>4. TypeOK'
  <2>1. status' \in [Jobs -> {"new", "active", "paused", "blocked", "dead"}]
    BY <1>1, <1>2
  <2> QED
    BY <1>1, <1>3, <2>1, Zenon DEF PromiseInv, TypeOK
<1>5. Unsettled'
  BY <1>1, <1>2, <1>3 DEF PromiseInv, Unsettled
<1>6. \A a \in Jobs : status'[a] = "blocked" <=> status[a] = "blocked"
  BY <1>1, <1>2, <1>3
<1>7. Entered'
  BY <1>1, <1>6, Zenon DEF PromiseInv, Entered
<1>8. ASSUME NEW a \in Jobs PROVE Fits(a)' /\ Right(a)' /\ Signalled(a)'
  BY <1>1, <1>6, AwaitKept DEF PromiseInv, Awaits
<1> QED
  BY <1>3, <1>4, <1>5, <1>7, <1>8 DEF PromiseInv, Awaits

\* The loop resumes a job: the entries it still has are only written to the dead
\* variables of the await it returns from.
LEMMA WakeKeeps == ASSUME PromiseInv, NEW j \in Jobs, Wake(j) PROVE PromiseInv'
<1>1. /\ status[j] \in {"paused", "blocked"} /\ status' = [status EXCEPT ![j] = "active"]
      /\ stack' = <<j>> /\ handlers' = [p \in Jobs |-> Without(handlers[p], j)]
      /\ alive' = alive /\ settled' = settled /\ of' = of
      /\ total' = total /\ outcome' = outcome /\ signal' = signal
  BY Zenon DEF Wake
<1>2. /\ status \in [Jobs -> {"new", "active", "paused", "blocked", "dead"}]
      /\ handlers \in [Jobs -> Seq(1 .. (N + 2))]
  BY Zenon DEF PromiseInv, TypeOK
<1>3. stack' \in Seq(Jobs) /\ Stacked'
  <2>1. stack' \in Seq(Jobs) /\ DOMAIN stack' = {1} /\ stack'[1] = j
    BY <1>1
  <2> QED
    BY <1>1, <1>2, <2>1 DEF Stacked
<1>4. ASSUME NEW q \in Jobs
      PROVE  /\ handlers'[q] \in Seq(1 .. (N + 2))
             /\ \A a : Occurs(handlers'[q], a) = IF a = j THEN 0 ELSE Occurs(handlers[q], a)
             /\ Has(handlers[q], FailBoom) => Has(handlers'[q], FailBoom)
  <2>1. handlers[q] \in Seq(1 .. (N + 2)) /\ handlers'[q] = Without(handlers[q], j)
    BY <1>1, <1>2
  <2>2. FailBoom # j
    BY BoomsApart
  <2> QED
    BY <2>1, <2>2, WithoutCounts
<1>5. TypeOK'
  <2>1. status' \in [Jobs -> {"new", "active", "paused", "blocked", "dead"}]
    BY <1>1, <1>2
  <2>2. handlers' \in [Jobs -> Seq(1 .. (N + 2))]
    BY <1>1, <1>4
  <2> QED
    BY <1>1, <1>3, <2>1, <2>2, Zenon DEF PromiseInv, TypeOK
<1>6. Unsettled'
  BY <1>1, <1>2 DEF PromiseInv, Unsettled
<1>7. /\ status'[j] = "active"
      /\ \A a \in Jobs : a # j => status'[a] = status[a]
  BY <1>1, <1>2
<1>8. Entered'
  <2> SUFFICES ASSUME NEW a \in Jobs, NEW p \in Jobs
               PROVE  Occurs(handlers'[p], a) =
                        IF status'[a] = "blocked" THEN Times(of'[a], p) ELSE 0
    BY DEF Entered, Times
  <2>1. Occurs(handlers[p], a) = IF status[a] = "blocked" THEN Times(of[a], p) ELSE 0
    BY DEF PromiseInv, Entered
  <2> QED
    BY <1>1, <1>4, <1>7, <2>1
<1>9. ASSUME NEW a \in Jobs PROVE Fits(a)' /\ Right(a)' /\ Signalled(a)'
  <2>1. status'[a] = "blocked" => status[a] = "blocked"
    BY <1>7
  <2> QED
    BY <1>1, <1>4, <2>1, AwaitKept DEF PromiseInv, Awaits
<1> QED
  BY <1>3, <1>5, <1>6, <1>8, <1>9 DEF PromiseInv, Awaits

\* What a job may await is a list of jobs that is not empty, nor too long.
LEMMA ListsTyped ==
  ASSUME NEW j \in Jobs, NEW t \in Lists(j)
  PROVE  t \in Seq(Jobs) /\ Len(t) \in Nat /\ Len(t) <= Width
<1>1. PICK n \in 1 .. Width : t \in [1 .. n -> Awaitable(j)]
  BY DEF Lists
<1>2. Awaitable(j) \subseteq Jobs
  BY DEF Awaitable, Started
<1>3. n \in Nat /\ n <= Width
  BY <1>1, SizeAssumption
<1>4. t \in Seq(Jobs) /\ Len(t) = n
  BY <1>1, <1>2, <1>3
<1> QED
  BY <1>3, <1>4

\* What Promise.all and the handlers of await make of a list whose promises may
\* have settled already.
LEMMA EnrollRight ==
  ASSUME TypeOK, NEW j \in Jobs, NEW t \in Seq(Jobs), Len(t) <= Width, Enroll(j, t),
         settled' = settled, status'[j] = "blocked" => outcome'[j] = "nil"
  PROVE  /\ Fits(j)' /\ Right(j)' /\ Signalled(j)'
         /\ of' = [of EXCEPT ![j] = t]
         /\ total' \in [Jobs -> 0 .. Width]
         /\ outcome' \in [Jobs -> {"nil", "results", "error"}]
         /\ signal' \in [Jobs -> BOOLEAN]
         /\ of' \in [Jobs -> Seq(Jobs)]
         /\ \A a \in Jobs : a # j => /\ of'[a] = of[a] /\ total'[a] = total[a]
                                     /\ outcome'[a] = outcome[a] /\ signal'[a] = signal[a]
<1> DEFINE R == Having(settled, "resolved", t)
           F == Having(settled, "rejected", t)
           o == IF F # {} THEN "error" ELSE IF R = DOMAIN t THEN "results" ELSE "nil"
<1>1. Resolved(t) = R /\ Rejected(t) = F
  BY DEF Resolved, Rejected, Having
<1>2. /\ of' = [of EXCEPT ![j] = t]
      /\ total' = [total EXCEPT ![j] = Cardinality(R)]
      /\ outcome' = [outcome EXCEPT ![j] = o]
      /\ signal' = [signal EXCEPT ![j] = outcome'[j] # "nil"]
  BY <1>1, Zenon DEF Enroll
<1>3. /\ of \in [Jobs -> Seq(Jobs)] /\ total \in [Jobs -> 0 .. Width]
      /\ outcome \in [Jobs -> {"nil", "results", "error"}]
      /\ signal \in [Jobs -> BOOLEAN]
  BY Zenon DEF TypeOK
<1>4. /\ R \in SUBSET (DOMAIN t) /\ Cardinality(R) \in Nat /\ Cardinality(R) <= Len(t)
      /\ (Cardinality(R) >= Len(t) => R = DOMAIN t)
  BY HavingCounts
<1>5. Width \in Nat /\ Len(t) \in Nat
  BY SizeAssumption
<1> HIDE DEF R, F
<1>6. of'[j] = t /\ total'[j] = Cardinality(R) /\ outcome'[j] = o
  BY <1>2, <1>3
<1>7. signal'[j] = (o # "nil")
  BY <1>2, <1>3, <1>6, Zenon
<1>8. Fits(j)'
  BY <1>4, <1>5, <1>6 DEF Fits, R
<1>9. Right(j)'
  BY <1>6, <1>7, Zenon DEF Right, R, F
<1>10. ASSUME o = "nil" PROVE F = {} /\ ~Full(j)'
  <2>1. F = {} /\ R # DOMAIN t
    BY <1>10
  <2> QED
    BY <1>4, <1>5, <1>6, <2>1 DEF Full
<1>11. Exact(j)'
  BY <1>6 DEF Exact, R
<1>12. Signalled(j)'
  <2>1. F = {} => ~Rejecting(j)'
    BY <1>6 DEF Rejecting, F
  <2> QED
    BY <1>6, <1>10, <1>11, <2>1, Zenon DEF Signalled
<1>13. total' \in [Jobs -> 0 .. Width] /\ of' \in [Jobs -> Seq(Jobs)]
  BY <1>2, <1>3, <1>4, <1>5
<1>14. outcome' \in [Jobs -> {"nil", "results", "error"}]
  BY <1>2, <1>3
<1>15. signal' \in [Jobs -> BOOLEAN]
  BY <1>2, <1>3, Zenon
<1>16. ASSUME NEW a \in Jobs, a # j
       PROVE  /\ of'[a] = of[a] /\ total'[a] = total[a]
              /\ outcome'[a] = outcome[a] /\ signal'[a] = signal[a]
  BY <1>2, <1>3, <1>16, Zenon
<1> QED
  BY <1>2, <1>8, <1>9, <1>12, <1>13, <1>14, <1>15, <1>16, Zenon

\* await.
LEMMA AwaitKeeps ==
  ASSUME PromiseInv, NEW j \in Jobs, NEW t \in Lists(j), Await(j, t)
  PROVE  PromiseInv'
<1> DEFINE Waits == outcome'[j] = "nil"
<1>1. Running(j) /\ Enroll(j, t) /\ alive' = alive /\ settled' = settled
  BY Zenon DEF Await
<1>2. t \in Seq(Jobs) /\ Len(t) <= Width
  BY ListsTyped
<1>3. status[j] = "active"
  BY <1>1, RunningActive DEF PromiseInv
<1>4. /\ status \in [Jobs -> {"new", "active", "paused", "blocked", "dead"}]
      /\ handlers \in [Jobs -> Seq(1 .. (N + 2))] /\ stack \in Seq(Jobs)
  BY Zenon DEF PromiseInv, TypeOK
<1>5. CASE Waits
  <2>1. /\ status' = [status EXCEPT ![j] = "blocked"] /\ stack' = Tail(stack)
        /\ handlers' = [p \in Jobs |-> handlers[p] \o Entries(Times(t, p), j)]
    BY <1>5, Zenon DEF Await
  <2>2. stack' \in Seq(Jobs) /\ Stacked'
    BY <1>1, <2>1, StackPopped DEF PromiseInv
  <2>3. /\ status' \in [Jobs -> {"new", "active", "paused", "blocked", "dead"}]
        /\ status'[j] = "blocked"
        /\ \A a \in Jobs : a # j => status'[a] = status[a]
    BY <1>4, <2>1
  <2>4. ASSUME NEW p \in Jobs
        PROVE  /\ handlers'[p] \in Seq(1 .. (N + 2))
               /\ \A a : Occurs(handlers'[p], a) =
                           Occurs(handlers[p], a) + (IF a = j THEN Times(t, p) ELSE 0)
               /\ Has(handlers[p], FailBoom) => Has(handlers'[p], FailBoom)
    <3>1. /\ handlers[p] \in Seq(1 .. (N + 2)) /\ Times(t, p) \in Nat
          /\ j \in 1 .. (N + 2) /\ FailBoom # j
      BY <1>2, <1>4, TimesNat, BoomsApart
    <3>2. handlers'[p] = handlers[p] \o Entries(Times(t, p), j)
      BY <2>1
    <3>3. /\ handlers[p] \o Entries(Times(t, p), j) \in Seq(1 .. (N + 2))
          /\ \A a : Occurs(handlers[p] \o Entries(Times(t, p), j), a) =
                      Occurs(handlers[p], a) + (IF a = j THEN Times(t, p) ELSE 0)
          /\ \A h : h # j => (Has(handlers[p] \o Entries(Times(t, p), j), h)
                                <=> Has(handlers[p], h))
      BY <3>1, JoinCounts
    <3> QED
      BY <3>1, <3>2, <3>3, Zenon
  <2>5. /\ Fits(j)' /\ Right(j)' /\ Signalled(j)' /\ of' = [of EXCEPT ![j] = t]
        /\ total' \in [Jobs -> 0 .. Width]
        /\ outcome' \in [Jobs -> {"nil", "results", "error"}]
        /\ signal' \in [Jobs -> BOOLEAN] /\ of' \in [Jobs -> Seq(Jobs)]
        /\ \A a \in Jobs : a # j => /\ of'[a] = of[a] /\ total'[a] = total[a]
                                    /\ outcome'[a] = outcome[a] /\ signal'[a] = signal[a]
    BY <1>1, <1>2, <1>5, EnrollRight DEF PromiseInv
  <2>6. TypeOK'
    <3>1. handlers' \in [Jobs -> Seq(1 .. (N + 2))]
      BY <2>1, <2>4
    <3> QED
      BY <1>1, <2>2, <2>3, <2>5, <3>1, Zenon DEF PromiseInv, TypeOK
  <2>7. Unsettled'
    BY <1>1, <1>3, <2>3 DEF PromiseInv, Unsettled
  <2>8. Entered'
    <3> SUFFICES ASSUME NEW a \in Jobs, NEW p \in Jobs
                 PROVE  Occurs(handlers'[p], a) =
                          IF status'[a] = "blocked" THEN Times(of'[a], p) ELSE 0
      BY DEF Entered, Times
    <3>1. Occurs(handlers[p], a) = IF status[a] = "blocked" THEN Times(of[a], p) ELSE 0
      BY DEF PromiseInv, Entered
    <3>2. Occurs(handlers[p], a) \in Nat
      BY <1>4, HasOccurs
    <3>3. CASE a = j
      <4>1. of'[j] = t /\ Times(t, p) \in Nat
        BY <1>2, <2>5, TimesNat DEF PromiseInv, TypeOK
      <4>2. Occurs(handlers'[p], a) = Occurs(handlers[p], a) + Times(t, p)
        BY <2>4, <3>3
      <4>3. Occurs(handlers[p], a) = 0
        BY <1>3, <3>1, <3>3
      <4>4. status'[a] = "blocked" /\ of'[a] = t
        BY <2>3, <3>3, <4>1
      <4> QED
        BY <4>1, <4>2, <4>3, <4>4
    <3>4. CASE a # j
      <4>1. Occurs(handlers'[p], a) = Occurs(handlers[p], a) + 0
        BY <2>4, <3>4
      <4>2. status'[a] = status[a] /\ of'[a] = of[a]
        BY <2>3, <2>5, <3>4, Zenon
      <4> QED
        BY <3>1, <3>2, <4>1, <4>2
    <3> QED
      BY <3>3, <3>4
  <2>9. ASSUME NEW a \in Jobs PROVE Fits(a)' /\ Right(a)' /\ Signalled(a)'
    <3>1. CASE a = j
      BY <2>5, <3>1
    <3>2. CASE a # j
      <4>1. /\ of'[a] = of[a] /\ total'[a] = total[a] /\ status'[a] = status[a]
            /\ outcome'[a] = outcome[a] /\ signal'[a] = signal[a]
        BY <2>3, <2>5, <3>2
      <4> QED
        BY <1>1, <2>4, <4>1, AwaitKept DEF PromiseInv, Awaits
    <3> QED
      BY <3>1, <3>2
  <2> QED
    BY <2>2, <2>6, <2>7, <2>8, <2>9 DEF PromiseInv, Awaits
<1>6. CASE ~Waits
  <2>1. status' = status /\ stack' = stack /\ handlers' = handlers
    BY <1>6, Zenon DEF Await
  <2>2. /\ Fits(j)' /\ Right(j)' /\ Signalled(j)' /\ of' = [of EXCEPT ![j] = t]
        /\ total' \in [Jobs -> 0 .. Width]
        /\ outcome' \in [Jobs -> {"nil", "results", "error"}]
        /\ signal' \in [Jobs -> BOOLEAN] /\ of' \in [Jobs -> Seq(Jobs)]
        /\ \A a \in Jobs : a # j => /\ of'[a] = of[a] /\ total'[a] = total[a]
                                    /\ outcome'[a] = outcome[a] /\ signal'[a] = signal[a]
    BY <1>1, <1>2, <1>3, <2>1, EnrollRight DEF PromiseInv
  <2>3. TypeOK'
    BY <1>1, <2>1, <2>2, Zenon DEF PromiseInv, TypeOK
  <2>4. Unsettled' /\ Stacked'
    BY <1>1, <2>1 DEF PromiseInv, Unsettled, Stacked
  <2>5. Entered'
    <3> SUFFICES ASSUME NEW a \in Jobs, NEW p \in Jobs
                 PROVE  Occurs(handlers[p], a) =
                          IF status[a] = "blocked" THEN Times(of'[a], p) ELSE 0
      BY <2>1 DEF Entered, Times
    <3>1. Occurs(handlers[p], a) = IF status[a] = "blocked" THEN Times(of[a], p) ELSE 0
      BY DEF PromiseInv, Entered
    <3> QED
      BY <1>3, <2>2, <3>1
  <2>6. ASSUME NEW a \in Jobs PROVE Fits(a)' /\ Right(a)' /\ Signalled(a)'
    <3>1. CASE a = j
      BY <2>2, <3>1
    <3>2. CASE a # j
      <4>1. /\ of'[a] = of[a] /\ total'[a] = total[a]
            /\ outcome'[a] = outcome[a] /\ signal'[a] = signal[a]
        BY <2>2, <3>2
      <4> QED
        BY <1>1, <2>1, <4>1, AwaitKept DEF PromiseInv, Awaits
    <3> QED
      BY <3>1, <3>2
  <2> QED
    BY <2>3, <2>4, <2>5, <2>6 DEF PromiseInv, Awaits
<1> QED
  BY <1>5, <1>6

-----------------------------------------------------------------------------
(* A job ends.                                                              *)

\* n: how often each awaiting job is told that j resolved; D: the jobs whose
\* Promise.all that completes; F: the jobs that are told that j was rejected.
Settles(j, R, n, D, F) ==
  /\ R \in SUBSET {"resolved", "rejected"} /\ n \in [Jobs -> Nat]
  /\ settled' = [settled EXCEPT ![j] = R]
  /\ \A a \in Jobs :
       /\ n[a] <= Occurs(handlers[j], a)
       /\ "resolved" \notin R => n[a] = 0
       /\ "resolved" \in R /\ "rejected" \notin R => n[a] = Occurs(handlers[j], a)
       /\ a \in D <=> n[a] > 0 /\ total[a] < Len(of[a]) /\ total[a] + n[a] >= Len(of[a])
       /\ a \in F => "rejected" \in R /\ Occurs(handlers[j], a) # 0
       /\ "rejected" \in R /\ ~Has(handlers[j], FailBoom) /\ Occurs(handlers[j], a) # 0
            => a \in F

\* What the awaits of the other jobs make of it.
Tells(n, D, F) ==
  /\ \A a \in Jobs : total'[a] = total[a] + n[a]
  /\ outcome' = [a \in Jobs |-> IF a \in F THEN "error"
                                ELSE IF a \in D THEN "results" ELSE outcome[a]]
  /\ signal' = [a \in Jobs |-> signal[a] \/ a \in F \cup D]

\* The await of one job, when another ends.
LEMMA SettleRight ==
  ASSUME PromiseInv, NEW j \in Jobs, status[j] = "active", NEW R, NEW n, NEW D, NEW F,
         Settles(j, R, n, D, F), Tells(n, D, F),
         handlers' = handlers, of' = of, status' = [status EXCEPT ![j] = "dead"],
         NEW a \in Jobs
  PROVE  Fits(a)' /\ Right(a)' /\ Signalled(a)'
<1> DEFINE t == of[a]
           T == Times(t, j)
           O == Occurs(handlers[j], a)
           V == Having(settled, "resolved", t)
           W == Having(settled', "resolved", t)
           X == Having(settled, "rejected", t)
           Y == Having(settled', "rejected", t)
           J == {i \in DOMAIN t : t[i] = j}
<1>1. /\ t \in Seq(Jobs) /\ Len(t) \in Nat /\ total[a] \in Nat
      /\ handlers[j] \in Seq(1 .. (N + 2)) /\ Width \in Nat
  BY JobTypes DEF PromiseInv
<1>2. T \in Nat /\ (T = 0 <=> J = {}) /\ O \in Nat
  <2>1. J \in SUBSET (DOMAIN t)
    OBVIOUS
  <2>2. IsFiniteSet(J) /\ Cardinality(J) \in Nat
    BY <1>1, <2>1, PositionsFinite
  <2>3. Cardinality(J) = 0 <=> J = {}
    BY <2>2, FS_EmptySet
  <2>4. O \in Nat
    BY <1>1, HasOccurs
  <2> QED
    BY <2>2, <2>3, <2>4 DEF Times
<1>3. O = IF status[a] = "blocked" THEN T ELSE 0
  BY DEF PromiseInv, Entered
<1>4. /\ R \in SUBSET {"resolved", "rejected"} /\ n[a] \in Nat /\ n[a] <= O
      /\ "resolved" \notin R => n[a] = 0
      /\ "resolved" \in R /\ "rejected" \notin R => n[a] = O
      /\ a \in D <=> n[a] > 0 /\ total[a] < Len(t) /\ total[a] + n[a] >= Len(t)
      /\ a \in F => "rejected" \in R /\ O # 0
      /\ "rejected" \in R /\ ~Has(handlers[j], FailBoom) /\ O # 0 => a \in F
  BY DEF Settles
<1>5. settled' = [settled EXCEPT ![j] = R]
  BY DEF Settles
<1>6. /\ "resolved" \in R => W = V \cup J
      /\ "resolved" \notin R => W = V
      /\ "resolved" \in R => Cardinality(W) = Cardinality(V) + T
      /\ V \subseteq W
  BY <1>1, <1>5, SettleAdds DEF PromiseInv
<1>7. /\ "rejected" \in R => Y = X \cup J
      /\ "rejected" \notin R => Y = X
      /\ X \subseteq Y
  BY <1>1, <1>5, SettleAdds DEF PromiseInv
<1>8. /\ Cardinality(V) \in Nat /\ Cardinality(W) \in Nat /\ W \in SUBSET DOMAIN t
      /\ (Cardinality(W) >= Len(t) => W = DOMAIN t)
  BY <1>1, HavingCounts
<1>9. of'[a] = t /\ total'[a] = total[a] + n[a]
  BY DEF Tells
<1>10. /\ outcome'[a] = IF a \in F THEN "error"
                        ELSE IF a \in D THEN "results" ELSE outcome[a]
       /\ signal'[a] = (signal[a] \/ a \in F \cup D)
  BY Zenon DEF Tells
<1>11. Fits(a) /\ Right(a) /\ Signalled(a)
  BY DEF PromiseInv, Awaits
<1>12. Len(t) <= Width /\ total[a] <= Cardinality(V)
  BY <1>11 DEF Fits
<1>13. /\ signal[a] => outcome[a] # "nil"
       /\ outcome[a] = "results" => V = DOMAIN t
       /\ outcome[a] = "error" => X # {}
  BY <1>11 DEF Right
<1> HIDE DEF t, T, O, V, W, X, Y, J
<1>14. total[a] + n[a] <= Cardinality(W)
  <2>1. O <= T
    BY <1>2, <1>3
  <2>2. CASE "resolved" \in R
    BY <1>1, <1>2, <1>4, <1>6, <1>8, <1>12, <2>1, <2>2
  <2>3. CASE "resolved" \notin R
    BY <1>1, <1>4, <1>6, <1>8, <1>12, <2>3
  <2> QED
    BY <2>2, <2>3
<1>15. Fits(a)'
  BY <1>9, <1>12, <1>14 DEF Fits, W
<1>16. a \in D => W = DOMAIN t
  BY <1>1, <1>4, <1>8, <1>14
<1>17. a \in F => Y # {}
  <2>1. O # 0 => J # {}
    BY <1>2, <1>3
  <2> QED
    BY <1>4, <1>7, <2>1
<1>18. Right(a)'
  <2>1. V = DOMAIN t => W = DOMAIN t
    BY <1>6, <1>8
  <2>2. X # {} => Y # {}
    BY <1>7
  <2>3. /\ signal'[a] => outcome'[a] # "nil"
        /\ outcome'[a] = "results" => W = DOMAIN t
        /\ outcome'[a] = "error" => Y # {}
    BY <1>10, <1>13, <1>16, <1>17, <2>1, <2>2, Zenon
  <2> QED
    BY <1>9, <2>3, Zenon DEF Right, W, Y
<1>19. ASSUME status'[a] = "blocked"
       PROVE  /\ Rejecting(a)' => signal'[a]
              /\ Y # {} \/ Exact(a)'
              /\ Full(a)' => signal'[a]
  <2>1. status[a] = "blocked" /\ O = T
    <3>1. status \in [Jobs -> {"new", "active", "paused", "blocked", "dead"}]
      BY Zenon DEF PromiseInv, TypeOK
    <3> QED
      BY <1>3, <1>19, <3>1
  <2>2. /\ Rejecting(a) => signal[a]
        /\ X # {} \/ Exact(a)
        /\ Full(a) => signal[a]
    BY <1>11, <2>1 DEF Signalled, X, t
  <2>3. ASSUME Rejecting(a)' PROVE signal'[a]
    <3>1. PICK i \in Y : ~Has(handlers[t[i]], FailBoom)
      BY <2>3 DEF Rejecting, Y, t
    <3>2. CASE i \in X
      <4>1. Rejecting(a)
        BY <3>1, <3>2 DEF Rejecting, X, t
      <4> QED
        BY <1>10, <2>2, <4>1, Zenon
    <3>3. CASE i \notin X
      <4>1. "rejected" \in R /\ i \in J
        BY <1>7, <3>1, <3>3
      <4>2. t[i] = j /\ J # {}
        BY <4>1 DEF J
      <4>3. O # 0
        BY <1>2, <2>1, <4>2
      <4>4. a \in F
        BY <1>4, <3>1, <4>1, <4>2, <4>3
      <4> QED
        BY <1>10, <4>4, Zenon
    <3> QED
      BY <3>2, <3>3
  <2>4. ASSUME Y = {} PROVE Exact(a)'
    <3>1. X = {}
      BY <1>7, <2>4
    <3>2. total[a] = Cardinality(V)
      BY <2>2, <3>1 DEF Exact, V, t
    <3>3. "rejected" \in R => T = 0
      BY <1>2, <1>7, <2>4
    <3>4. total[a] + n[a] = Cardinality(W)
      <4>1. CASE "resolved" \in R /\ "rejected" \notin R
        BY <1>1, <1>2, <1>4, <1>6, <1>8, <2>1, <3>2, <4>1
      <4>2. CASE "resolved" \in R /\ "rejected" \in R
        BY <1>1, <1>2, <1>4, <1>6, <1>8, <2>1, <3>2, <3>3, <4>2
      <4>3. CASE "resolved" \notin R
        BY <1>1, <1>4, <1>6, <1>8, <3>2, <4>3
      <4> QED
        BY <4>1, <4>2, <4>3
    <3> QED
      BY <1>9, <3>4 DEF Exact, W
  <2>5. ASSUME Full(a)' PROVE signal'[a]
    <3>1. total[a] + n[a] >= Len(t)
      BY <1>9, <2>5 DEF Full
    <3>2. Full(a) \/ a \in D
      BY <1>1, <1>4, <3>1 DEF Full, t
    <3> QED
      BY <1>10, <2>2, <3>2, Zenon
  <2> QED
    BY <2>3, <2>4, <2>5
<1>20. Signalled(a)'
  BY <1>9, <1>19, Zenon DEF Signalled, Y
<1> QED
  BY <1>15, <1>18, <1>20

\* The whole of it.
LEMMA SettleKeeps ==
  ASSUME PromiseInv, NEW j \in Jobs, Running(j), Return(j), NEW R, NEW n, NEW D, NEW F,
         Settles(j, R, n, D, F), Tells(n, D, F), alive' \in BOOLEAN,
         total' = [a \in Jobs |-> total'[a]],
         handlers' = handlers, of' = of
  PROVE  PromiseInv'
<1>1. status' = [status EXCEPT ![j] = "dead"] /\ stack' = Tail(stack)
  BY DEF Return
<1>2. status[j] = "active" /\ stack' \in Seq(Jobs) /\ Stacked'
  BY <1>1, RunningActive, StackPopped DEF PromiseInv
<1>3. /\ status \in [Jobs -> {"new", "active", "paused", "blocked", "dead"}]
      /\ settled \in [Jobs -> SUBSET {"resolved", "rejected"}]
      /\ outcome \in [Jobs -> {"nil", "results", "error"}]
      /\ signal \in [Jobs -> BOOLEAN]
  BY Zenon DEF PromiseInv, TypeOK
<1>4. R \in SUBSET {"resolved", "rejected"} /\ settled' = [settled EXCEPT ![j] = R]
  BY DEF Settles
<1>5. ASSUME NEW a \in Jobs PROVE Fits(a)' /\ Right(a)' /\ Signalled(a)'
  BY <1>1, <1>2, SettleRight
<1>6. TypeOK'
  <2>1. status' \in [Jobs -> {"new", "active", "paused", "blocked", "dead"}]
    BY <1>1, <1>3
  <2>2. settled' \in [Jobs -> SUBSET {"resolved", "rejected"}]
    BY <1>3, <1>4
  <2>3. \A a \in Jobs : total'[a] \in 0 .. Width
    <3> SUFFICES ASSUME NEW a \in Jobs PROVE total'[a] \in 0 .. Width
      OBVIOUS
    <3>1. of[a] \in Seq(Jobs) /\ total[a] \in Nat /\ Width \in Nat /\ Len(of[a]) \in Nat
      BY JobTypes DEF PromiseInv
    <3>2. n[a] \in Nat /\ total'[a] = total[a] + n[a]
      BY DEF Settles, Tells
    <3>3. /\ Len(of[a]) <= Width
          /\ total'[a] <= Cardinality(Having(settled', "resolved", of[a]))
      BY <1>5 DEF Fits
    <3>4. /\ Cardinality(Having(settled', "resolved", of[a])) \in Nat
          /\ Cardinality(Having(settled', "resolved", of[a])) <= Len(of[a])
      BY <3>1, HavingCounts
    <3> QED
      BY <3>1, <3>2, <3>3, <3>4
  <2>4. total' \in [Jobs -> 0 .. Width]
    BY <2>3
  <2>5. outcome' \in [Jobs -> {"nil", "results", "error"}]
    BY <1>3, Zenon DEF Tells
  <2>6. signal' \in [Jobs -> BOOLEAN]
    BY <1>3, Zenon DEF Tells
  <2> QED
    BY <1>2, <2>1, <2>2, <2>4, <2>5, <2>6, Zenon DEF PromiseInv, TypeOK
<1>7. Unsettled'
  BY <1>1, <1>3, <1>4 DEF PromiseInv, Unsettled
<1>8. Entered'
  <2> SUFFICES ASSUME NEW a \in Jobs, NEW p \in Jobs
               PROVE  Occurs(handlers[p], a) =
                        IF status'[a] = "blocked" THEN Times(of[a], p) ELSE 0
    BY DEF Entered, Times
  <2>1. status'[a] = "blocked" <=> status[a] = "blocked"
    BY <1>1, <1>2, <1>3
  <2> QED
    BY <2>1 DEF PromiseInv, Entered
<1> QED
  BY <1>2, <1>5, <1>6, <1>7, <1>8 DEF PromiseInv, Awaits

\* job:resolve.
LEMMA ResolveKeeps == ASSUME PromiseInv, NEW j \in Jobs, Resolve(j) PROVE PromiseInv'
<1> DEFINE throws == Has(handlers[j], DoneBoom)
           R == {"resolved"} \cup (IF throws THEN {"rejected"} ELSE {})
           n == [a \in Jobs |-> Counts(handlers[j], DoneBoom, a)]
           D == Completed(j)
           F == IF throws THEN Failed(j) ELSE {}
<1>1. /\ Running(j) /\ Return(j) /\ handlers' = handlers /\ of' = of
      /\ settled' = [settled EXCEPT ![j] = R]
      /\ total' = [a \in Jobs |-> total[a] + Counts(handlers[j], DoneBoom, a)]
      /\ outcome' = [a \in Jobs |-> IF a \in F THEN "error"
                                    ELSE IF a \in D THEN "results" ELSE outcome[a]]
      /\ signal' = [a \in Jobs |-> signal[a] \/ a \in F \cup D]
      /\ alive' = ~(throws /\ Escapes(j))
  BY Zenon DEF Resolve
<1>2. handlers[j] \in Seq(1 .. (N + 2))
  BY JobTypes DEF PromiseInv
<1>3. ASSUME NEW a \in Jobs, NEW h
      PROVE  /\ Counts(handlers[j], h, a) \in Nat
             /\ Counts(handlers[j], h, a) <= Occurs(handlers[j], a)
             /\ (~Has(handlers[j], h) =>
                   Counts(handlers[j], h, a) = Occurs(handlers[j], a))
             /\ Occurs(handlers[j], a) \in Nat
  BY <1>2, CountsBounds, HasOccurs
<1>4. ASSUME NEW a \in Jobs
      PROVE  /\ a \in D <=> n[a] > 0 /\ total[a] < Len(of[a]) /\ total[a] + n[a] >= Len(of[a])
             /\ a \in F <=> throws /\ Counts(handlers[j], FailBoom, a) > 0
  BY DEF Completed, Failed
<1>5. Settles(j, R, n, D, F)
  <2>1. R \in SUBSET {"resolved", "rejected"} /\ n \in [Jobs -> Nat]
    BY <1>3
  <2>2. "resolved" \in R /\ ("rejected" \in R <=> throws)
    OBVIOUS
  <2>3. ASSUME NEW a \in Jobs
        PROVE  /\ n[a] <= Occurs(handlers[j], a)
               /\ ~throws => n[a] = Occurs(handlers[j], a)
               /\ a \in F => throws /\ Occurs(handlers[j], a) # 0
               /\ throws /\ ~Has(handlers[j], FailBoom) /\ Occurs(handlers[j], a) # 0
                    => a \in F
    <3>1. n[a] = Counts(handlers[j], DoneBoom, a)
      OBVIOUS
    <3> HIDE DEF n, F, D, throws
    <3>2. n[a] <= Occurs(handlers[j], a) /\ (~throws => n[a] = Occurs(handlers[j], a))
      BY <1>3, <3>1 DEF throws
    <3>3. /\ a \in F => throws /\ Occurs(handlers[j], a) # 0
          /\ throws /\ ~Has(handlers[j], FailBoom) /\ Occurs(handlers[j], a) # 0
               => a \in F
      BY <1>3, <1>4
    <3> QED
      BY <3>2, <3>3
  <2> HIDE DEF n, F, D, throws, R
  <2> QED
    BY <1>1, <1>4, <2>1, <2>2, <2>3, Zenon DEF Settles
<1>6. Tells(n, D, F)
  <2>1. \A a \in Jobs : total'[a] = total[a] + n[a]
    BY <1>1
  <2> QED
    BY <1>1, <2>1, Zenon DEF Tells
<1>7. total' = [a \in Jobs |-> total'[a]] /\ alive' \in BOOLEAN
  <2>1. total' = [a \in Jobs |-> total'[a]]
    BY <1>1
  <2> QED
    BY <1>1, <2>1, Zenon
<1> HIDE DEF n, F, D, throws, R
<1> QED
  BY <1>1, <1>5, <1>6, <1>7, SettleKeeps

\* job:reject.
LEMMA RejectKeeps == ASSUME PromiseInv, NEW j \in Jobs, Reject(j) PROVE PromiseInv'
<1> DEFINE n == [a \in Jobs |-> 0]
           F == Failed(j)
<1>1. /\ Running(j) /\ Return(j) /\ handlers' = handlers /\ of' = of /\ total' = total
      /\ settled' = [settled EXCEPT ![j] = {"rejected"}]
      /\ outcome' = [a \in Jobs |-> IF a \in F THEN "error" ELSE outcome[a]]
      /\ signal' = [a \in Jobs |-> signal[a] \/ a \in F]
      /\ alive' = ~Escapes(j)
  BY Zenon DEF Reject
<1>2. handlers[j] \in Seq(1 .. (N + 2)) /\ total \in [Jobs -> 0 .. Width] /\ Width \in Nat
  BY JobTypes, Zenon DEF PromiseInv, TypeOK
<1>3. ASSUME NEW a \in Jobs
      PROVE  /\ a \in F => Occurs(handlers[j], a) # 0
             /\ ~Has(handlers[j], FailBoom) /\ Occurs(handlers[j], a) # 0 => a \in F
             /\ Occurs(handlers[j], a) \in Nat
  <2>1. /\ Counts(handlers[j], FailBoom, a) \in Nat
        /\ Counts(handlers[j], FailBoom, a) <= Occurs(handlers[j], a)
        /\ (~Has(handlers[j], FailBoom) =>
              Counts(handlers[j], FailBoom, a) = Occurs(handlers[j], a))
        /\ Occurs(handlers[j], a) \in Nat
    BY <1>2, CountsBounds, HasOccurs
  <2>2. a \in F <=> Counts(handlers[j], FailBoom, a) > 0
    BY DEF Failed
  <2> HIDE DEF F
  <2> QED
    BY <2>1, <2>2
<1> HIDE DEF F
<1>4. Settles(j, {"rejected"}, n, {}, F)
  BY <1>1, <1>3 DEF Settles
<1>5. Tells(n, {}, F)
  <2>1. \A a \in Jobs : total'[a] = total[a] + n[a]
    BY <1>1, <1>2
  <2>2. outcome' = [a \in Jobs |-> IF a \in F THEN "error"
                                   ELSE IF a \in {} THEN "results" ELSE outcome[a]]
    BY <1>1
  <2>3. signal' = [a \in Jobs |-> signal[a] \/ a \in F \cup {}]
    BY <1>1
  <2> QED
    BY <2>1, <2>2, <2>3, Zenon DEF Tells
<1>6. total' = [a \in Jobs |-> total'[a]]
  BY <1>1, <1>2
<1>7. alive' \in BOOLEAN
  BY <1>1, Zenon
<1> HIDE DEF n
<1> QED
  BY <1>1, <1>4, <1>5, <1>6, <1>7, SettleKeeps

-----------------------------------------------------------------------------
\* A step that changes nothing.
LEMMA StutterKeeps == ASSUME PromiseInv, UNCHANGED vars PROVE PromiseInv'
<1>1. /\ alive' = alive /\ status' = status /\ stack' = stack /\ settled' = settled
      /\ handlers' = handlers /\ of' = of /\ total' = total /\ outcome' = outcome
      /\ signal' = signal
  BY Zenon DEF vars
<1>2. TypeOK' /\ Unsettled' /\ Stacked' /\ Entered'
  BY <1>1, Zenon DEF PromiseInv, TypeOK, Unsettled, Stacked, Entered
<1>3. ASSUME NEW a \in Jobs PROVE Fits(a)' /\ Right(a)' /\ Signalled(a)'
  BY <1>1, AwaitKept DEF PromiseInv, Awaits
<1> QED
  BY <1>2, <1>3 DEF PromiseInv, Awaits

\* Every step keeps the invariant.
LEMMA NextInv == PromiseInv /\ [Next]_vars => PromiseInv'
<1> SUFFICES ASSUME PromiseInv, [Next]_vars PROVE PromiseInv'
  OBVIOUS
<1>1. CASE UNCHANGED vars
  BY <1>1, StutterKeeps
<1>2. ASSUME NEW j \in Jobs, Create(j) PROVE PromiseInv'
  BY <1>2, CreateKeeps
<1>3. ASSUME NEW j \in Jobs, AddThrowing(j) PROVE PromiseInv'
  BY <1>3, AddThrowingKeeps
<1>4. ASSUME NEW j \in Jobs, Wake(j) PROVE PromiseInv'
  BY <1>4, WakeKeeps
<1>5. ASSUME NEW j \in Jobs, Pause(j) PROVE PromiseInv'
  BY <1>5, PauseKeeps
<1>6. ASSUME NEW j \in Jobs, Resolve(j) PROVE PromiseInv'
  BY <1>6, ResolveKeeps
<1>7. ASSUME NEW j \in Jobs, Reject(j) PROVE PromiseInv'
  BY <1>7, RejectKeeps
<1>8. ASSUME NEW j \in Jobs, NEW t \in Lists(j), Await(j, t) PROVE PromiseInv'
  BY <1>8, AwaitKeeps
<1> QED
  BY <1>1, <1>2, <1>3, <1>4, <1>5, <1>6, <1>7, <1>8, Zenon DEF Next, EndTurn

\* The invariant holds in every state.
LEMMA Invariant == Spec => []PromiseInv
BY InitInv, NextInv, PTL DEF Spec

\* The variables keep their types; above all, Promise.all never counts past the
\* list it was given (wtk.c:593-601).
THEOREM TypesKept == Spec => []TypeOK
<1>1. PromiseInv => TypeOK
  BY DEF PromiseInv
<1> QED
  BY <1>1, Invariant, PTL

\* Whatever the order in which promises settle, before the call or after it, and
\* whatever handlers throw: await returns the results when all have resolved, an
\* error when one was rejected, and never undecided (wtk.c:593-601, 612-625).
THEOREM OutcomesRight == Spec => []OutcomeRight
<1>1. PromiseInv => OutcomeRight
  BY Zenon DEF PromiseInv, Awaits, Right, OutcomeRight, Having, Resolved, Rejected
<1> QED
  BY <1>1, Invariant, PTL

\* The signal of a blocked job is never lost: when its promises have all
\* resolved, or one was rejected, its pipe has been written to, unless a fail
\* handler that throws came between (wtk.c:592, 606-611).
THEOREM NoneForgotten == Spec => []NeverForgotten
<1>1. PromiseInv => NeverForgotten
  <2> SUFFICES ASSUME PromiseInv, NEW j \in Jobs, status[j] = "blocked",
                      LET Kept == {i \in DOMAIN of[j] : ~Has(handlers[of[j][i]], FailBoom)}
                      IN Resolved(of[j]) \cap Kept = DOMAIN of[j]
                         \/ Rejected(of[j]) \cap Kept # {}
               PROVE  signal[j]
    BY Zenon DEF NeverForgotten
  <2> DEFINE t == of[j]
             Kept == {i \in DOMAIN t : ~Has(handlers[t[i]], FailBoom)}
             V == Having(settled, "resolved", t)
             X == Having(settled, "rejected", t)
  <2>1. V = Resolved(t) /\ X = Rejected(t)
    BY DEF Having, Resolved, Rejected
  <2>2. /\ Rejecting(j) => signal[j]
        /\ X # {} \/ Exact(j)
        /\ Full(j) => signal[j]
    BY DEF PromiseInv, Awaits, Signalled
  <2>3. X \cap Kept # {} => Rejecting(j)
    BY DEF Rejecting
  <2>4. CASE X \cap Kept # {}
    BY <2>2, <2>3, <2>4
  <2>5. CASE X \cap Kept = {}
    <3>1. V \cap Kept = DOMAIN t
      BY <2>1, <2>5
    <3>2. X = {} /\ V = DOMAIN t
      BY <2>5, <3>1 DEF Having
    <3>3. Exact(j)
      BY <2>2, <3>2
    <3>4. Cardinality(V) = Len(t) /\ Len(t) \in Nat
      <4>1. t \in Seq(Jobs) /\ Len(t) \in Nat
        BY JobTypes DEF PromiseInv
      <4> QED
        BY <3>2, <4>1, HavingCounts
    <3>5. Full(j)
      BY <3>3, <3>4 DEF Exact, Full
    <3> QED
      BY <2>2, <3>5
  <2> QED
    BY <2>4, <2>5
<1> QED
  BY <1>1, Invariant, PTL
=============================================================================
