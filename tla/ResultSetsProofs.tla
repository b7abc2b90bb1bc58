-------------------------- MODULE ResultSetsProofs --------------------------
(***************************************************************************)
(* The theorems of ResultSets, for all tables, relationships and lists of  *)
(* prefetched ones that Sound admits: a record's parts are its own, and    *)
(* every record is given once and whole as long as no fetch fails.  The    *)
(* invariant divides the rows of the join: those of a record that has been *)
(* given are used up, those of any other are still to be given or held.    *)
(***************************************************************************)
EXTENDS ResultSets, FiniteSetTheorems, TLAPS

-----------------------------------------------------------------------------
(* The inductive invariant.                                                 *)

\* A list of values, and the rows that are held for the record to be given next.
Among(s) == {s[n] : n \in DOMAIN s}
Held == IF pc = "fetch" THEN Among(results) ELSE IF last = Nothing THEN {} ELSE {last}
Keys == {given[n].key : n \in DOMAIN given}

\* What merge_results makes of rows.
Records == {Merged(s) : s \in Seq(Rows)}

\* What TypeOK leaves out: rows are rows of the join, and relations are those of
\* their type.
Typed ==
  /\ prefetch \in Prefetches
  /\ related \in [Prefetched -> [Mains -> SUBSET Others]]
  /\ \A i \in Prefetched : related[i] \in Relations(prefetch[i])
  /\ left \subseteq Rows
  /\ want \in Counts \cup {All}
  /\ pc \in {"call", "fetch", "done"}
  /\ results \in Seq(Rows)
  /\ last \in Rows \cup {Nothing}
  /\ \A n \in DOMAIN results : Key(results[n]) = Key(results[1])
  /\ given \in Seq(Records)
  /\ \A n \in DOMAIN given : given[n].key \in Mains
  /\ failed \in 0 .. Faults

\* Rows are only held for the sake of a has_many.
Plain == ~VariableRowCount => results = <<>> /\ last = Nothing

\* No row is there twice.
Apart ==
  /\ Held \cap left = {}
  /\ pc = "fetch" => \A m, n \in DOMAIN results : results[m] = results[n] => m = n

\* What is held comes before all that is left.
Ordered == \A h \in Held, r \in left : Key(h) <= Key(r)

\* The rows of a record are used up if it has been given, and otherwise all there.
Divided ==
  failed = 0 => \A k \in Mains :
    IF k \in Keys THEN Joined(k) \cap (left \cup Held) = {} ELSE Joined(k) \subseteq left \cup Held

\* No record is given that is not wanted.
Bounded ==
  want # All => /\ Len(given) <= want
                /\ VariableRowCount /\ pc = "fetch" => Len(given) < want

\* The parts of EachWholeOnce.
Once == failed = 0 => \A n, p \in DOMAIN given : given[n].key = given[p].key => n = p
Whole ==
  failed = 0 => \A n \in DOMAIN given : \A i \in Prefetched : prefetch[i] = "has_many" =>
    Len(given[n].parts[i]) = Cardinality(related[i][given[n].key])
Done ==
  failed = 0 /\ pc = "done" =>
    Len(given) = IF want = All \/ want > Cardinality(Mains) THEN Cardinality(Mains) ELSE want

RowsInv == /\ Typed /\ Plain /\ Apart /\ Ordered /\ Divided /\ Bounded
           /\ OwnParts /\ Once /\ Whole /\ Done

-----------------------------------------------------------------------------
(* The rows of a record.                                                    *)

Kinds == Single \cup {"has_many"}

\* What a row has for a relationship, and the row of a choice of these.
Options(i, k) == IF related[i][k] = {} THEN {Null} ELSE related[i][k]
Choices(k) == {c \in [Prefetched -> Others \cup {Null}] :
                 \A i \in Prefetched : c[i] \in Options(i, k)}
Chosen(k, c, j) == LET i == (j - 1) \div Width IN IF i = 0 THEN k ELSE c[i]
RowOf(k, c) == [j \in 1 .. (Width * (1 + Len(prefetch))) |-> Chosen(k, c, j)]

LEMMA JoinedRows == \A k : Joined(k) = {RowOf(k, c) : c \in Choices(k)}
BY DEF Joined, Choices, Options, RowOf, Chosen

\* The columns of a row, two for each relationship.
LEMMA RowColumns ==
  ASSUME prefetch \in Seq(Kinds), NEW k, NEW c
  PROVE  /\ DOMAIN RowOf(k, c) = 1 .. (2 + 2 * Len(prefetch)) /\ Len(prefetch) \in Nat
         /\ RowOf(k, c)[1] = k /\ RowOf(k, c)[2] = k
         /\ \A i \in Prefetched : RowOf(k, c)[2 * i + 1] = c[i] /\ RowOf(k, c)[2 * i + 2] = c[i]
<1>1. Len(prefetch) \in Nat /\ Prefetched = 1 .. Len(prefetch)
  BY DEF Prefetched
<1>2. Width * (1 + Len(prefetch)) = 2 + 2 * Len(prefetch)
  BY <1>1 DEF Width
<1>3. DOMAIN RowOf(k, c) = 1 .. (2 + 2 * Len(prefetch))
  BY <1>2 DEF RowOf
<1>4. ASSUME NEW j \in 1 .. (2 + 2 * Len(prefetch)) PROVE RowOf(k, c)[j] = Chosen(k, c, j)
  BY <1>2 DEF RowOf
<1>5. 1 \in 1 .. (2 + 2 * Len(prefetch)) /\ 2 \in 1 .. (2 + 2 * Len(prefetch))
  BY <1>1
<1>6. (1 - 1) \div 2 = 0 /\ (2 - 1) \div 2 = 0
  OBVIOUS
<1>7. Chosen(k, c, 1) = k /\ Chosen(k, c, 2) = k
  BY <1>6 DEF Chosen, Width
<1>8. ASSUME NEW i \in Prefetched
      PROVE  RowOf(k, c)[2 * i + 1] = c[i] /\ RowOf(k, c)[2 * i + 2] = c[i]
  <2>1. i \in Nat /\ i # 0 /\ 2 * i + 1 \in 1 .. (2 + 2 * Len(prefetch))
        /\ 2 * i + 2 \in 1 .. (2 + 2 * Len(prefetch))
    BY <1>1
  <2>2. (2 * i + 1 - 1) \div 2 = i /\ (2 * i + 2 - 1) \div 2 = i
    BY <2>1
  <2>3. Chosen(k, c, 2 * i + 1) = c[i] /\ Chosen(k, c, 2 * i + 2) = c[i]
    BY <2>1, <2>2 DEF Chosen, Width
  <2> QED
    BY <1>4, <2>1, <2>3
<1> QED
  BY <1>1, <1>3, <1>4, <1>5, <1>7, <1>8

\* The lists of relationships, and what they are related to.
LEMMA Lists ==
  ASSUME Typed
  PROVE  /\ prefetch \in Seq(Kinds) /\ Len(prefetch) \in Nat /\ Prefetched = 1 .. Len(prefetch)
         /\ \A i \in Prefetched : prefetch[i] \in Single \/ prefetch[i] = "has_many"
         /\ Sound(prefetch)
<1>1. prefetch \in Seq(Single \cup {"has_many"}) /\ Sound(prefetch)
  BY PrefetchAssumption DEF Typed
<1> QED
  BY <1>1 DEF Prefetched, Kinds

LEMMA RelatedSets ==
  ASSUME Typed, NEW i \in Prefetched, NEW k \in Mains
  PROVE  /\ related[i][k] \subseteq Others /\ IsFiniteSet(related[i][k])
         /\ prefetch[i] \in Single => \A x, y \in related[i][k] : x = y
         /\ prefetch[i] \in {"belongs_to", "has_one"} => related[i][k] # {}
<1> DEFINE mine == related[i][k]
<1>1. mine \subseteq Others /\ related[i] \in Relations(prefetch[i])
  BY DEF Typed
<1>2. IsFiniteSet(mine)
  BY <1>1, FS_Subset, KeysAssumption
<1>3. Cardinality(mine) \in Nat
  BY <1>2, FS_CardinalityType
<1>4. prefetch[i] \in {"belongs_to", "has_one"} => Cardinality(mine) = 1
  BY <1>1 DEF Relations
<1>5. prefetch[i] \in Single => Cardinality(mine) <= 1
  BY <1>1, <1>4 DEF Relations, Single
<1>6. Cardinality(mine) = 1 => \E x : mine = {x}
  BY <1>2, FS_Singleton
<1>7. Cardinality(mine) = 0 => mine = {}
  BY <1>2, FS_EmptySet
<1>8. Cardinality({}) = 0
  BY FS_EmptySet
<1>9. prefetch[i] \in Single => Cardinality(mine) = 0 \/ Cardinality(mine) = 1
  BY <1>3, <1>5
<1> QED
  BY <1>1, <1>2, <1>4, <1>6, <1>7, <1>8, <1>9

\* What the rows of one record have.
LEMMA RowFacts ==
  ASSUME Typed, NEW k \in Mains, NEW r \in Joined(k)
  PROVE  /\ Key(r) = k /\ DOMAIN r = 1 .. (2 + 2 * Len(prefetch)) /\ r # Nothing /\ r \in Row
         /\ \A i \in Prefetched : r[2 * i + 1] \in Options(i, k) /\ r[2 * i + 2] = r[2 * i + 1]
<1>1. PICK c \in Choices(k) : r = RowOf(k, c)
  BY JoinedRows
<1>2. /\ DOMAIN r = 1 .. (2 + 2 * Len(prefetch)) /\ Len(prefetch) \in Nat
      /\ r[1] = k
      /\ \A i \in Prefetched : r[2 * i + 1] = c[i] /\ r[2 * i + 2] = c[i]
  BY <1>1, Lists, RowColumns
<1>3. 1 \in DOMAIN r /\ DOMAIN Nothing = {}
  BY <1>2 DEF Nothing
<1>4. r \in Row
  <2>1. Width * (1 + Len(prefetch)) = 2 + 2 * Len(prefetch)
    BY <1>2 DEF Width
  <2>2. ASSUME NEW j \in 1 .. (2 + 2 * Len(prefetch))
        PROVE  Chosen(k, c, j) \in Mains \cup Others \cup {Null}
    <3>1. (j - 1) \div 2 \in 0 .. Len(prefetch)
      BY <1>2
    <3>2. (j - 1) \div 2 = 0 \/ (j - 1) \div 2 \in Prefetched
      BY <3>1, Lists
    <3> QED
      BY <3>2 DEF Chosen, Choices, Width
  <2> QED
    BY <1>1, <2>1, <2>2 DEF Row, RowOf
<1>5. \A i \in Prefetched : c[i] \in Options(i, k)
  BY DEF Choices
<1> QED
  BY <1>2, <1>3, <1>4, <1>5 DEF Key

\* Rows that agree on what they have for each relationship are the same.
LEMMA SameRow ==
  ASSUME Typed, NEW k \in Mains, NEW r \in Joined(k), NEW q \in Joined(k),
         \A i \in Prefetched : r[2 * i + 1] = q[2 * i + 1]
  PROVE  r = q
<1>1. PICK c \in Choices(k) : r = RowOf(k, c)
  BY JoinedRows
<1>2. PICK d \in Choices(k) : q = RowOf(k, d)
  BY JoinedRows
<1>3. \A i \in Prefetched : c[i] = d[i]
  BY <1>1, <1>2, Lists, RowColumns
<1>4. c = d
  BY <1>3 DEF Choices
<1> QED
  BY <1>1, <1>2, <1>4

\* Every record has a row, with any of the related ones at a place.
LEMMA RowWith ==
  ASSUME Typed, NEW k \in Mains, NEW i \in Prefetched, NEW x \in Options(i, k)
  PROVE  \E r \in Joined(k) : r[2 * i + 1] = x
<1> DEFINE c == [p \in Prefetched |-> IF p = i THEN x ELSE CHOOSE y \in Options(p, k) : TRUE]
<1>1. ASSUME NEW p \in Prefetched
      PROVE  Options(p, k) # {} /\ Options(p, k) \subseteq Others \cup {Null}
  BY RelatedSets DEF Options
<1>2. c \in Choices(k)
  BY <1>1 DEF Choices
<1>3. RowOf(k, c) \in Joined(k) /\ RowOf(k, c)[2 * i + 1] = c[i]
  BY <1>2, JoinedRows, Lists, RowColumns
<1> QED
  BY <1>3

LEMMA RowExists == ASSUME Typed, NEW k \in Mains PROVE Joined(k) # {}
<1> DEFINE c == [p \in Prefetched |-> CHOOSE y \in Options(p, k) : TRUE]
<1>1. ASSUME NEW p \in Prefetched
      PROVE  Options(p, k) # {} /\ Options(p, k) \subseteq Others \cup {Null}
  BY RelatedSets DEF Options
<1>2. c \in Choices(k)
  BY <1>1 DEF Choices
<1> QED
  BY <1>2, JoinedRows

\* Rows know their record.
LEMMA RowsOf ==
  ASSUME Typed, NEW r \in Rows
  PROVE  Key(r) \in Mains /\ r \in Joined(Key(r)) /\ r \in Row /\ r # Nothing
<1>1. PICK k \in Mains : r \in Joined(k)
  BY DEF Rows
<1> QED
  BY <1>1, RowFacts

\* Without a has_many there is one row for each record; with it, the rows of a
\* record differ in what it relates to.
LEMMA OneRow ==
  ASSUME Typed, ~VariableRowCount, NEW k \in Mains, NEW r \in Joined(k), NEW q \in Joined(k)
  PROVE  r = q
<1>1. ASSUME NEW i \in Prefetched PROVE r[2 * i + 1] = q[2 * i + 1]
  <2>1. prefetch[i] \in Single
    BY Lists DEF VariableRowCount
  <2>2. r[2 * i + 1] \in Options(i, k) /\ q[2 * i + 1] \in Options(i, k)
    BY RowFacts
  <2> QED
    BY <2>1, <2>2, RelatedSets DEF Options
<1> QED
  BY <1>1, SameRow

LEMMA ManyRows ==
  ASSUME Typed, NEW k \in Mains, NEW r \in Joined(k), NEW q \in Joined(k),
         NEW i \in Prefetched, prefetch[i] = "has_many", r[2 * i + 1] = q[2 * i + 1]
  PROVE  r = q
<1>1. ASSUME NEW p \in Prefetched PROVE r[2 * p + 1] = q[2 * p + 1]
  <2>1. p = i \/ prefetch[p] \in Single
    BY Lists DEF Sound, Prefetched
  <2>2. r[2 * p + 1] \in Options(p, k) /\ q[2 * p + 1] \in Options(p, k)
    BY RowFacts
  <2>3. CASE prefetch[p] \in Single
    BY <2>2, <2>3, RelatedSets DEF Options
  <2> QED
    BY <2>1, <2>3
<1> QED
  BY <1>1, SameRow

-----------------------------------------------------------------------------
(* What merge_results makes of them.                                        *)

\* The columns that are read for a relationship.
LEMMA ValuesOf ==
  ASSUME Typed, NEW k \in Mains, NEW r \in Joined(k), NEW i \in Prefetched
  PROVE  /\ DOMAIN Values(r, i, Width) = 1 .. 2 /\ DOMAIN Values(r, i, Width + 1) = 1 .. 3
         /\ Values(r, i, Width)[1] = r[2 * i + 1] /\ Values(r, i, Width)[2] = r[2 * i + 1]
         /\ Values(r, i, Width + 1)[1] = r[2 * i + 1] /\ Values(r, i, Width + 1)[2] = r[2 * i + 1]
         /\ i = Len(prefetch) => Values(r, i, Width + 1)[3] = Null
<1>1. Len(prefetch) \in Nat /\ i \in 1 .. Len(prefetch)
  BY Lists
<1>2. /\ DOMAIN r = 1 .. (2 + 2 * Len(prefetch)) /\ r[2 * i + 2] = r[2 * i + 1]
  BY RowFacts
<1>3. Offset(i) + 1 - 1 = 2 * i + 1 /\ Offset(i) + 2 - 1 = 2 * i + 2
      /\ Offset(i) + 3 - 1 = 2 * i + 3 /\ Width = 2 /\ Width + 1 = 3
  BY <1>1 DEF Offset, Width
<1>4. 2 * i + 1 \in DOMAIN r /\ 2 * i + 2 \in DOMAIN r
      /\ (i = Len(prefetch) => 2 * i + 3 \notin DOMAIN r)
  BY <1>1, <1>2
<1>5. Column(r, 2 * i + 1) = r[2 * i + 1] /\ Column(r, 2 * i + 2) = r[2 * i + 1]
      /\ (i = Len(prefetch) => Column(r, 2 * i + 3) = Null)
  BY <1>2, <1>4 DEF Column
<1>6. ASSUME NEW n \in {2, 3}
      PROVE  /\ DOMAIN Values(r, i, n) = 1 .. n
             /\ Values(r, i, n)[1] = r[2 * i + 1] /\ Values(r, i, n)[2] = r[2 * i + 1]
             /\ n = 3 /\ i = Len(prefetch) => Values(r, i, n)[3] = Null
  <2>1. 1 \in 1 .. n /\ 2 \in 1 .. n /\ (n = 3 => 3 \in 1 .. n)
    OBVIOUS
  <2>2. \A c \in 1 .. n : Values(r, i, n)[c] = Column(r, Offset(i) + c - 1)
    BY DEF Values
  <2>3. /\ Values(r, i, n)[1] = Column(r, 2 * i + 1)
        /\ Values(r, i, n)[2] = Column(r, 2 * i + 2)
        /\ n = 3 => Values(r, i, n)[3] = Column(r, 2 * i + 3)
    BY <1>3, <2>1, <2>2
  <2>4. DOMAIN Values(r, i, n) = 1 .. n
    BY DEF Values
  <2> QED
    BY <1>5, <2>3, <2>4
<1> QED
  BY <1>3, <1>6

\* A column without a value stands for no related record.
LEMMA Unrelated ==
  ASSUME Typed, NEW k \in Mains, NEW r \in Joined(k), NEW i \in Prefetched
  PROVE  /\ related[i][k] = {} => r[2 * i + 1] = Null
         /\ related[i][k] # {} => r[2 * i + 1] \in related[i][k] /\ r[2 * i + 1] # Null
         /\ IsNil(Values(r, i, Width)) <=> r[2 * i + 1] = Null
<1>1. r[2 * i + 1] \in Options(i, k)
  BY RowFacts
<1>2. related[i][k] \subseteq Nat \ {Null}
  BY RelatedSets, KeysAssumption
<1>3. IsNil(Values(r, i, Width)) <=> r[2 * i + 1] = Null
  <2>1. 1 .. 2 = {1, 2}
    OBVIOUS
  <2> QED
    BY <2>1, ValuesOf DEF IsNil
<1> QED
  BY <1>1, <1>2, <1>3 DEF Options

\* A part that is not a list is the record's own, or nil for want of one.
Own(type, part, mine) ==
  IF type \in Single
  THEN IF mine = {} THEN part = Nothing
       ELSE part # Nothing /\ part[1] \in mine /\ part[2] = part[1]
  ELSE /\ \A s \in DOMAIN part : part[s][1] \in mine /\ part[s][2] = part[s][1]
       /\ \A s, t \in DOMAIN part : part[s] = part[t] => s = t

LEMMA OneOwn ==
  ASSUME Typed, NEW k \in Mains, NEW r \in Joined(k), NEW i \in Prefetched,
         prefetch[i] \in Single
  PROVE  Own(prefetch[i], One(r, i), related[i][k])
<1> DEFINE values == Values(r, i, Width + 1)
<1>1. DOMAIN values = 1 .. 3 /\ values[1] = r[2 * i + 1] /\ values[2] = r[2 * i + 1]
  BY ValuesOf
<1>2. values # Nothing
  <2>1. 1 \in DOMAIN values /\ DOMAIN Nothing = {}
    BY <1>1 DEF Nothing
  <2> QED
    BY <2>1
<1>3. CASE related[i][k] # {}
  <2>1. r[2 * i + 1] \in related[i][k] /\ r[2 * i + 1] # Null
    BY <1>3, Unrelated
  <2>2. ~IsNil(values)
    <3>1. 1 \in DOMAIN values
      BY <1>1
    <3> QED
      BY <1>1, <2>1, <3>1 DEF IsNil
  <2>3. One(r, i) = values
    BY <2>2 DEF One
  <2> QED
    BY <1>1, <1>2, <1>3, <2>1, <2>3 DEF Own
<1>4. CASE related[i][k] = {}
  <2>1. prefetch[i] = "might_belong"
    BY <1>4, RelatedSets DEF Single
  <2>2. i = Len(prefetch)
    BY <2>1, Lists DEF Sound, Prefetched
  <2>3. values[1] = Null /\ values[2] = Null /\ values[3] = Null
    BY <1>1, <1>4, <2>2, Unrelated, ValuesOf
  <2>4. IsNil(values)
    <3>1. DOMAIN values = {1, 2, 3}
      BY <1>1
    <3> QED
      BY <2>3, <3>1 DEF IsNil
  <2>5. One(r, i) = Nothing
    BY <2>1, <2>4 DEF One
  <2> QED
    BY <1>4, <2>5 DEF Own
<1> QED
  BY <1>3, <1>4

-----------------------------------------------------------------------------
\* The positions of a has_many's related records in rows, as Many has them.
There(rows, i, n) == ~IsNil(Values(rows[n], i, Width))
Starts(rows, i) ==
  LET Front == {n \in DOMAIN rows : \A p \in 1 .. n : There(rows, i, p)}
  IN {n \in Front : n = 1 \/ Values(rows[n - 1], i, Width)[1] # Values(rows[n], i, Width)[1]}

LEMMA ManyIs ==
  \A rows, i : Many(rows, i) = [s \in 1 .. Cardinality(Starts(rows, i)) |->
                                  Values(rows[Kth(Starts(rows, i), s)], i, Width)]
BY DEF Many, Starts, There

\* How many elements of S are not above p.
Rank(S, p) == Cardinality({q \in S : q <= p})

\* The set of positions that satisfy a condition is finite, and its elements
\* are ranked from 1 on, one after the other.
LEMMA RankBijects ==
  ASSUME NEW S \in SUBSET Nat, IsFiniteSet(S)
  PROVE  /\ Cardinality(S) \in Nat
         /\ \A p \in S : Rank(S, p) \in 1 .. Cardinality(S)
         /\ \A p, q \in S : Rank(S, p) = Rank(S, q) => p = q
         /\ \A k \in 1 .. Cardinality(S) : \E p \in S : Rank(S, p) = k
<1> DEFINE m == Cardinality(S)
           Low(p) == {q \in S : q <= p}
           g == [p \in S |-> Rank(S, p)]
<1>1. m \in Nat
  BY FS_CardinalityType
<1>2. ASSUME NEW p \in S PROVE IsFiniteSet(Low(p)) /\ Rank(S, p) \in 1 .. m
  <2>1. Low(p) \in SUBSET S /\ p \in Low(p)
    OBVIOUS
  <2>2. IsFiniteSet(Low(p)) /\ Cardinality(Low(p)) <= m
    BY <2>1, FS_Subset
  <2>3. Cardinality(Low(p)) \in Nat /\ Cardinality(Low(p)) # 0
    BY <2>1, <2>2, FS_CardinalityType, FS_EmptySet
  <2> QED
    BY <1>1, <2>2, <2>3 DEF Rank
<1>3. ASSUME NEW p \in S, NEW q \in S, Rank(S, p) = Rank(S, q), p < q PROVE FALSE
  <2>1. Low(p) \in SUBSET Low(q) /\ q \in Low(q) /\ q \notin Low(p)
    <3>1. p \in Nat /\ q \in Nat /\ q <= q /\ ~(q <= p)
      BY <1>3
    <3>2. ASSUME NEW r \in S, r <= p PROVE r <= q
      <4>1. r \in Nat
        OBVIOUS
      <4> QED
        BY <1>3, <3>1, <3>2, <4>1
    <3>3. Low(p) \subseteq Low(q)
      BY <3>2
    <3> QED
      BY <3>1, <3>3
  <2>2. Cardinality(Low(q)) = Cardinality(Low(p))
    BY <1>3 DEF Rank
  <2> QED
    BY <1>2, <2>1, <2>2, FS_Subset
<1>4. \A p, q \in S : Rank(S, p) = Rank(S, q) => p = q
  <2> SUFFICES ASSUME NEW p \in S, NEW q \in S, Rank(S, p) = Rank(S, q) PROVE p = q
    OBVIOUS
  <2>1. p \in Nat /\ q \in Nat
    OBVIOUS
  <2> QED
    BY <1>3, <2>1
<1>5. g \in Injection(S, 1 .. m)
  <2>1. g \in [S -> 1 .. m] /\ \A p, q \in S : g[p] = g[q] => p = q
    BY <1>2, <1>4
  <2> QED
    BY <2>1 DEF Injection, IsInjective
<1>6. IsFiniteSet(1 .. m) /\ Cardinality(1 .. m) = m
  BY <1>1, FS_Interval
<1>7. g \in Surjection(S, 1 .. m)
  BY <1>5, <1>6, FS_Injection
<1>8. \A k \in 1 .. m : \E p \in S : Rank(S, p) = k
  BY <1>7 DEF Surjection
<1> QED
  BY <1>1, <1>2, <1>4, <1>8

\* Kth numbers the elements of a set of positions.
LEMMA KthBijects ==
  ASSUME NEW S \in SUBSET Nat, IsFiniteSet(S)
  PROVE  /\ Cardinality(S) \in Nat
         /\ \A k \in 1 .. Cardinality(S) : Kth(S, k) \in S
         /\ \A k, l \in 1 .. Cardinality(S) : Kth(S, k) = Kth(S, l) => k = l
         /\ \A p \in S : \E k \in 1 .. Cardinality(S) : Kth(S, k) = p
<1>1. ASSUME NEW k \in 1 .. Cardinality(S)
      PROVE  Kth(S, k) \in S /\ Rank(S, Kth(S, k)) = k
  <2>1. PICK p \in S : Rank(S, p) = k
    BY RankBijects
  <2>2. p \in Ranked(S, k)
    BY <2>1 DEF Ranked, Rank
  <2>3. Kth(S, k) \in Ranked(S, k)
    BY <2>2 DEF Kth
  <2> QED
    BY <2>3 DEF Ranked, Rank
<1>2. \A k, l \in 1 .. Cardinality(S) : Kth(S, k) = Kth(S, l) => k = l
  BY <1>1
<1>3. ASSUME NEW p \in S PROVE \E k \in 1 .. Cardinality(S) : Kth(S, k) = p
  <2>1. Rank(S, p) \in 1 .. Cardinality(S)
    BY RankBijects
  <2>2. Kth(S, Rank(S, p)) \in S /\ Rank(S, Kth(S, Rank(S, p))) = Rank(S, p)
    BY <1>1, <2>1
  <2>3. \A a, b \in S : Rank(S, a) = Rank(S, b) => a = b
    BY RankBijects
  <2>4. Kth(S, Rank(S, p)) = p
    BY <2>2, <2>3
  <2> QED
    BY <2>1, <2>4
<1> QED
  BY <1>1, <1>2, <1>3, RankBijects

\* The rows of one record, each once.
Stack(rows, k) ==
  /\ rows \in Seq(Rows) /\ rows # <<>> /\ k \in Mains
  /\ \A n \in DOMAIN rows : rows[n] \in Joined(k)
  /\ \A m, n \in DOMAIN rows : rows[m] = rows[n] => m = n

\* As the rows of a record differ in its has_many, a list has none of its
\* records twice ...
LEMMA ManyOwn ==
  ASSUME Typed, NEW rows, NEW k, Stack(rows, k), NEW i \in Prefetched, prefetch[i] = "has_many"
  PROVE  Own(prefetch[i], Many(rows, i), related[i][k])
<1> DEFINE S == Starts(rows, i)
           part == Many(rows, i)
<1>1. k \in Mains /\ DOMAIN rows = 1 .. Len(rows) /\ Len(rows) \in Nat
  BY DEF Stack
<1>2. S \in SUBSET (1 .. Len(rows)) /\ S \in SUBSET Nat
  BY <1>1 DEF Starts
<1>0. IsFiniteSet(1 .. Len(rows))
  BY <1>1, FS_Interval
<1>3. IsFiniteSet(S)
  BY <1>0, <1>2, FS_Subset
<1>4. /\ Cardinality(S) \in Nat
      /\ \A s \in 1 .. Cardinality(S) : Kth(S, s) \in S
      /\ \A s, t \in 1 .. Cardinality(S) : Kth(S, s) = Kth(S, t) => s = t
  BY <1>2, <1>3, KthBijects
<1>5. DOMAIN part = 1 .. Cardinality(S)
      /\ \A s \in DOMAIN part : part[s] = Values(rows[Kth(S, s)], i, Width)
  BY ManyIs
<1>6. ASSUME NEW n \in S
      PROVE  /\ n \in DOMAIN rows /\ rows[n] \in Joined(k)
             /\ rows[n][2 * i + 1] \in related[i][k]
             /\ Values(rows[n], i, Width)[1] = rows[n][2 * i + 1]
             /\ Values(rows[n], i, Width)[2] = rows[n][2 * i + 1]
  <2>1. n \in DOMAIN rows /\ n \in 1 .. n /\ rows[n] \in Joined(k)
    BY <1>1, <1>2 DEF Stack
  <2>2. ~IsNil(Values(rows[n], i, Width))
    BY <2>1 DEF Starts, There
  <2> QED
    BY <1>1, <2>1, <2>2, Unrelated, ValuesOf
<1>7. ASSUME NEW s \in DOMAIN part
      PROVE  part[s][1] \in related[i][k] /\ part[s][2] = part[s][1]
  BY <1>4, <1>5, <1>6
<1>8. ASSUME NEW s \in DOMAIN part, NEW t \in DOMAIN part, part[s] = part[t] PROVE s = t
  <2>1. Kth(S, s) \in S /\ Kth(S, t) \in S
    BY <1>4, <1>5
  <2>2. rows[Kth(S, s)][2 * i + 1] = rows[Kth(S, t)][2 * i + 1]
    BY <1>5, <1>6, <1>8, <2>1
  <2>3. rows[Kth(S, s)] = rows[Kth(S, t)]
    BY <1>1, <1>6, <2>1, <2>2, ManyRows
  <2>4. Kth(S, s) = Kth(S, t)
    BY <1>6, <2>1, <2>3 DEF Stack
  <2> QED
    BY <1>4, <1>5, <2>4
<1>9. prefetch[i] \notin Single
  BY DEF Single
<1> QED
  BY <1>7, <1>8, <1>9 DEF Own

\* ... and all of them once all the rows are there.
LEMMA ManyWhole ==
  ASSUME Typed, NEW rows, NEW k, Stack(rows, k), NEW i \in Prefetched, prefetch[i] = "has_many",
         Joined(k) \subseteq Among(rows)
  PROVE  Len(Many(rows, i)) = Cardinality(related[i][k])
<1> DEFINE S == Starts(rows, i)
           mine == related[i][k]
<1>1. k \in Mains /\ DOMAIN rows = 1 .. Len(rows) /\ Len(rows) \in Nat /\ 1 \in DOMAIN rows
  BY DEF Stack
<1>2. S \in SUBSET (1 .. Len(rows))
  BY <1>1 DEF Starts
<1>0. IsFiniteSet(1 .. Len(rows))
  BY <1>1, FS_Interval
<1>3. IsFiniteSet(S) /\ Cardinality(S) \in Nat
  BY <1>0, <1>2, FS_Subset, FS_CardinalityType
<1>4. Len(Many(rows, i)) = Cardinality(S)
  BY <1>3, ManyIs
<1>5. ASSUME NEW n \in DOMAIN rows
      PROVE  /\ rows[n] \in Joined(k)
             /\ There(rows, i, n) <=> rows[n][2 * i + 1] # Null
             /\ Values(rows[n], i, Width)[1] = rows[n][2 * i + 1]
  <2>1. rows[n] \in Joined(k)
    BY DEF Stack
  <2> QED
    BY <1>1, <2>1, Unrelated, ValuesOf DEF There
<1>6. CASE mine = {}
  <2>1. ASSUME NEW n \in S PROVE FALSE
    <3>1. n \in DOMAIN rows /\ 1 \in 1 .. n /\ There(rows, i, 1)
      BY <1>1, <1>2 DEF Starts
    <3> QED
      BY <1>1, <1>5, <1>6, <3>1, Unrelated
  <2>2. S = {}
    BY <2>1
  <2> QED
    BY <1>4, <1>6, <2>2
<1>7. CASE mine # {}
  <2>1. ASSUME NEW n \in DOMAIN rows
        PROVE  There(rows, i, n) /\ rows[n][2 * i + 1] \in mine
    BY <1>1, <1>5, <1>7, Unrelated
  <2>2. ASSUME NEW m \in DOMAIN rows, NEW n \in DOMAIN rows,
               rows[m][2 * i + 1] = rows[n][2 * i + 1]
        PROVE  m = n
    <3>1. rows[m] = rows[n]
      BY <1>1, <1>5, <2>2, ManyRows
    <3> QED
      BY <3>1 DEF Stack
  <2>3. ASSUME NEW n \in DOMAIN rows PROVE n \in S
    <3>1. 1 .. n \subseteq DOMAIN rows
      BY <1>1
    <3>2. n = 1 \/ Values(rows[n - 1], i, Width)[1] # Values(rows[n], i, Width)[1]
      <4>1. CASE n # 1
        <5>1. n - 1 \in DOMAIN rows /\ n - 1 # n
          BY <1>1, <4>1
        <5> QED
          BY <1>5, <2>2, <5>1
      <4> QED
        BY <4>1
    <3> QED
      BY <2>1, <3>1, <3>2 DEF Starts
  <2>4. S = 1 .. Len(rows)
    BY <1>1, <1>2, <2>3
  <2> DEFINE f == [n \in S |-> rows[n][2 * i + 1]]
  <2>5. f \in [S -> mine] /\ \A m, n \in S : f[m] = f[n] => m = n
    BY <1>1, <2>1, <2>2, <2>4
  <2>6. ASSUME NEW x \in mine PROVE \E n \in S : f[n] = x
    <3>1. PICK r \in Joined(k) : r[2 * i + 1] = x
      BY <1>1, <1>7, RowWith DEF Options
    <3>2. PICK n \in DOMAIN rows : rows[n] = r
      BY DEF Among
    <3> QED
      BY <1>1, <2>4, <3>1, <3>2
  <2>7. f \in Bijection(S, mine)
    BY <2>5, <2>6 DEF Bijection, Injection, Surjection, IsInjective
  <2>8. ExistsBijection(S, mine)
    BY <2>7 DEF ExistsBijection
  <2> QED
    BY <1>3, <1>4, <2>8, FS_Bijection
<1> QED
  BY <1>6, <1>7

-----------------------------------------------------------------------------
(* Records that are given.                                                  *)

\* While a query runs, its join stays the same.
LEMMA SameQuery ==
  ASSUME UNCHANGED query
  PROVE  /\ Prefetched' = Prefetched /\ Rows' = Rows /\ Records' = Records /\ Row' = Row
         /\ VariableRowCount' = VariableRowCount
         /\ \A k : Joined(k)' = Joined(k)
<1>1. prefetch' = prefetch /\ related' = related
  BY DEF query
<1>2. Prefetched' = Prefetched
  BY <1>1 DEF Prefetched
<1>3. \A k : Joined(k)' = Joined(k)
  BY <1>1, <1>2 DEF Joined
<1>4. Rows' = Rows
  BY <1>3 DEF Rows
<1>5. \A rows, i : Many(rows, i)' = Many(rows, i)
  BY <1>1 DEF Many, Values, Offset, Column, IsNil
<1>6. \A row, i : One(row, i)' = One(row, i)
  BY <1>1 DEF One, Values, Offset, Column, IsNil
<1>7. \A rows : Merged(rows)' = Merged(rows)
  BY <1>1, <1>2, <1>5, <1>6 DEF Merged
<1>8. Records' = Records
  BY <1>4, <1>7 DEF Records
<1> QED
  BY <1>1, <1>2, <1>3, <1>4, <1>8 DEF VariableRowCount, Row

\* What the record is that is made of all or some of its rows.
LEMMA MergedRecord ==
  ASSUME Typed, NEW rows, NEW k, Stack(rows, k)
  PROVE  /\ Merged(rows) \in Records /\ Merged(rows).key = k
         /\ \A i \in Prefetched : Own(prefetch[i], Merged(rows).parts[i], related[i][k])
         /\ Joined(k) \subseteq Among(rows) =>
              \A i \in Prefetched : prefetch[i] = "has_many" =>
                Len(Merged(rows).parts[i]) = Cardinality(related[i][k])
<1>1. rows \in Seq(Rows) /\ k \in Mains /\ 1 \in DOMAIN rows /\ rows[1] \in Joined(k)
  BY DEF Stack
<1>2. Merged(rows) \in Records
  BY <1>1 DEF Records
<1>3. Merged(rows).key = k
  BY <1>1, RowFacts DEF Merged
<1>4. ASSUME NEW i \in Prefetched
      PROVE  Own(prefetch[i], Merged(rows).parts[i], related[i][k])
  <2>1. CASE prefetch[i] = "has_many"
    BY <2>1, ManyOwn DEF Merged
  <2>2. CASE prefetch[i] # "has_many"
    <3>1. prefetch[i] \in Single
      BY <2>2, Lists
    <3> QED
      BY <1>1, <2>2, <3>1, OneOwn DEF Merged
  <2> QED
    BY <2>1, <2>2
<1>5. ASSUME Joined(k) \subseteq Among(rows), NEW i \in Prefetched, prefetch[i] = "has_many"
      PROVE  Len(Merged(rows).parts[i]) = Cardinality(related[i][k])
  BY <1>5, ManyWhole DEF Merged
<1> QED
  BY <1>2, <1>3, <1>4, <1>5

LEMMA OwnPartsIs ==
  OwnParts <=> \A n \in DOMAIN given : \A i \in Prefetched :
                 Own(prefetch[i], given[n].parts[i], related[i][given[n].key])
BY DEF OwnParts, Own

\* A record more is given.
LEMMA Gives ==
  ASSUME Typed, UNCHANGED query, NEW rows, NEW k, Stack(rows, k), Give(rows)
  PROVE  /\ given' \in Seq(Records') /\ Len(given') = Len(given) + 1 /\ Keys' = Keys \cup {k}
         /\ \A n \in DOMAIN given' : given'[n].key \in Mains
         /\ OwnParts => OwnParts'
         /\ Once /\ (failed' = 0 => failed = 0 /\ k \notin Keys) => Once'
         /\ Whole /\ (failed' = 0 => failed = 0 /\ Joined(k) \subseteq Among(rows)) => Whole'
<1> DEFINE e == Merged(rows)
           m == Len(given)
<1>1. e \in Records /\ e.key = k /\ k \in Mains
  BY MergedRecord DEF Stack
<1>2. given \in Seq(Records) /\ given' = Append(given, e)
  BY DEF Typed, Give
<1>3. /\ given' \in Seq(Records) /\ Len(given') = m + 1 /\ m \in Nat
      /\ DOMAIN given = 1 .. m /\ DOMAIN given' = 1 .. (m + 1)
      /\ \A n \in 1 .. m : given'[n] = given[n]
      /\ given'[m + 1] = e
  BY <1>1, <1>2
<1> HIDE DEF e, m
<1>4. \A n \in DOMAIN given' : n \in DOMAIN given \/ n = m + 1
  BY <1>3
<1>5. \A n \in DOMAIN given : n \in DOMAIN given' /\ given'[n] = given[n] /\ n # m + 1
  BY <1>3
<1>6. m + 1 \in DOMAIN given'
  BY <1>3
<1>7. Prefetched' = Prefetched /\ prefetch' = prefetch /\ related' = related /\ Records' = Records
  BY SameQuery DEF query
<1>8. Keys' = Keys \cup {k}
  BY <1>1, <1>3, <1>4, <1>5, <1>6 DEF Keys
<1>9. \A n \in DOMAIN given' : given'[n].key \in Mains
  BY <1>1, <1>3, <1>4, <1>5 DEF Typed
<1>10. ASSUME OwnParts PROVE OwnParts'
  <2>1. \A i \in Prefetched : Own(prefetch[i], e.parts[i], related[i][k])
    BY MergedRecord DEF e
  <2>2. \A n \in DOMAIN given' : \A i \in Prefetched :
          Own(prefetch[i], given'[n].parts[i], related[i][given'[n].key])
    <3> SUFFICES ASSUME NEW n \in DOMAIN given', NEW i \in Prefetched
                 PROVE  Own(prefetch[i], given'[n].parts[i], related[i][given'[n].key])
      OBVIOUS
    <3>1. CASE n \in DOMAIN given
      BY <1>5, <1>10, <3>1, OwnPartsIs
    <3>2. CASE n = m + 1
      BY <1>1, <1>3, <2>1, <3>2
    <3> QED
      BY <1>4, <3>1, <3>2
  <2> QED
    BY <1>7, <2>2, OwnPartsIs DEF Own, OwnParts
<1>11. ASSUME Once, failed' = 0 => failed = 0 /\ k \notin Keys PROVE Once'
  <2> SUFFICES ASSUME failed' = 0, NEW n \in DOMAIN given', NEW p \in DOMAIN given',
                      given'[n].key = given'[p].key
               PROVE  n = p
    BY DEF Once
  <2>1. failed = 0 /\ k \notin Keys
    BY <1>11
  <2>2. \A q \in DOMAIN given : given[q].key # k
    BY <2>1 DEF Keys
  <2>3. CASE n \in DOMAIN given /\ p \in DOMAIN given
    BY <1>5, <1>11, <2>1, <2>3 DEF Once
  <2> QED
    BY <1>1, <1>3, <1>4, <1>5, <2>2, <2>3
<1>12. ASSUME Whole, failed' = 0 => failed = 0 /\ Joined(k) \subseteq Among(rows) PROVE Whole'
  <2> SUFFICES ASSUME failed' = 0, NEW n \in DOMAIN given', NEW i \in Prefetched,
                      prefetch[i] = "has_many"
               PROVE  Len(given'[n].parts[i]) = Cardinality(related[i][given'[n].key])
    BY <1>7 DEF Whole
  <2>1. failed = 0 /\ Joined(k) \subseteq Among(rows)
    BY <1>12
  <2>2. CASE n \in DOMAIN given
    BY <1>5, <1>12, <2>1, <2>2 DEF Whole
  <2>3. CASE n = m + 1
    <3>1. Len(e.parts[i]) = Cardinality(related[i][k])
      BY <2>1, MergedRecord DEF e
    <3> QED
      BY <1>1, <1>3, <2>3, <3>1
  <2> QED
    BY <1>4, <2>2, <2>3
<1> QED
  BY <1>3, <1>7, <1>8, <1>9, <1>10, <1>11, <1>12 DEF m

\* None is given.
LEMMA GivesNone ==
  ASSUME Typed, UNCHANGED query, UNCHANGED given, failed' = 0 => failed = 0
  PROVE  /\ given' \in Seq(Records') /\ Keys' = Keys
         /\ OwnParts => OwnParts'
         /\ Once => Once'
         /\ Whole => Whole'
<1>1. Prefetched' = Prefetched /\ prefetch' = prefetch /\ related' = related /\ Records' = Records
  BY SameQuery DEF query
<1>2. OwnParts => OwnParts'
  BY <1>1 DEF OwnParts
<1>3. Once => Once'
  BY DEF Once
<1>4. Whole => Whole'
  BY <1>1 DEF Whole
<1> QED
  BY <1>1, <1>2, <1>3, <1>4 DEF Typed, Keys

\* As long as none is given twice, there are not more of them than there are.
LEMMA KeysCount ==
  ASSUME Typed, \A n, p \in DOMAIN given : given[n].key = given[p].key => n = p
  PROVE  /\ Len(given) \in Nat /\ Cardinality(Mains) \in Nat
         /\ Len(given) <= Cardinality(Mains)
         /\ Mains \subseteq Keys => Len(given) = Cardinality(Mains)
<1> DEFINE f == [n \in 1 .. Len(given) |-> given[n].key]
<1>1. DOMAIN given = 1 .. Len(given) /\ Len(given) \in Nat
  BY DEF Typed
<1>2. f \in [1 .. Len(given) -> Mains]
  BY <1>1 DEF Typed
<1>3. f \in Injection(1 .. Len(given), Mains)
  BY <1>1, <1>2 DEF Injection, IsInjective
<1>4. IsFiniteSet(1 .. Len(given)) /\ Cardinality(1 .. Len(given)) = Len(given)
  BY <1>1, FS_Interval
<1>5. Cardinality(Mains) \in Nat /\ IsFiniteSet(Mains)
  BY KeysAssumption, FS_CardinalityType
<1>6. Len(given) <= Cardinality(Mains)
  BY <1>3, <1>4, <1>5, FS_Injection
<1>7. ASSUME Mains \subseteq Keys PROVE Len(given) = Cardinality(Mains)
  <2>1. f \in Surjection(1 .. Len(given), Mains)
    BY <1>1, <1>2, <1>7 DEF Keys, Surjection
  <2> QED
    BY <1>3, <1>4, <1>5, <2>1, FS_Injection
<1> QED
  BY <1>1, <1>5, <1>6, <1>7

-----------------------------------------------------------------------------
(* The steps.                                                               *)

\* What is held are rows of one record, each once.
LEMMA HeldRows ==
  ASSUME RowsInv
  PROVE  /\ Held \subseteq Rows
         /\ pc = "fetch" /\ results # <<>> =>
              /\ Key(results[1]) \in Mains /\ Stack(results, Key(results[1]))
              /\ results[1] \in Held /\ \A h \in Held : Key(h) = Key(results[1])
<1>1. results \in Seq(Rows) /\ DOMAIN results = 1 .. Len(results) /\ Len(results) \in Nat
  BY DEF RowsInv, Typed
<1>2. Among(results) \subseteq Rows
  BY <1>1 DEF Among
<1>3. Held \subseteq Rows
  BY <1>2 DEF Held, RowsInv, Typed
<1>4. ASSUME pc = "fetch", results # <<>>
      PROVE  /\ Key(results[1]) \in Mains /\ Stack(results, Key(results[1]))
             /\ results[1] \in Held /\ \A h \in Held : Key(h) = Key(results[1])
  <2>1. 1 \in DOMAIN results /\ \A n \in DOMAIN results : results[n] \in Rows
    BY <1>1, <1>4
  <2>2. \A n \in DOMAIN results : Key(results[n]) = Key(results[1])
    BY DEF RowsInv, Typed
  <2>3. Key(results[1]) \in Mains
    BY <2>1, RowsOf DEF RowsInv
  <2>4. \A n \in DOMAIN results : results[n] \in Joined(Key(results[1]))
    BY <2>1, <2>2, RowsOf DEF RowsInv
  <2>5. \A m, n \in DOMAIN results : results[m] = results[n] => m = n
    BY <1>4 DEF RowsInv, Apart
  <2>6. Stack(results, Key(results[1]))
    BY <1>1, <1>4, <2>3, <2>4, <2>5 DEF Stack
  <2> QED
    BY <1>4, <2>1, <2>2, <2>3, <2>6 DEF Held, Among
<1> QED
  BY <1>3, <1>4

\* The row that the database chooses.
LEMMA Chooses ==
  ASSUME Typed, NEW row \in Candidates
  PROVE  /\ row \in left /\ row \in Rows /\ row # Nothing
         /\ Key(row) \in Mains /\ row \in Joined(Key(row)) /\ Stack(<<row>>, Key(row))
         /\ VariableRowCount => \A r \in left : Key(row) <= Key(r)
<1>1. row \in left /\ row \in Rows
  BY DEF Candidates, Typed
<1>2. Key(row) \in Mains /\ row \in Joined(Key(row)) /\ row # Nothing
  BY <1>1, RowsOf
<1>3. <<row>> \in Seq(Rows) /\ <<row>> # <<>> /\ DOMAIN <<row>> = {1} /\ <<row>>[1] = row
  BY <1>1
<1> QED
  BY <1>1, <1>2, <1>3 DEF Stack, Candidates

LEMMA InitInv == Init => RowsInv
<1> SUFFICES ASSUME Init PROVE RowsInv
  OBVIOUS
<1>1. Len(given) = 0 /\ DOMAIN given = {} /\ DOMAIN results = {} /\ given \in Seq(Records)
      /\ results \in Seq(Rows)
  BY DEF Init
<1>2. Typed
  <2>1. related \in [Prefetched -> [Mains -> SUBSET Others]]
    BY DEF Init, Prefetched, Relations
  <2>2. 0 \in 0 .. Faults
    BY FaultsAssumption
  <2> QED
    BY <1>1, <2>1, <2>2 DEF Init, Typed, Prefetched
<1>3. Held = {} /\ Keys = {}
  BY <1>1 DEF Init, Held, Keys
<1>4. Plain /\ Apart /\ Ordered
  BY <1>3 DEF Init, Plain, Apart, Ordered
<1>5. Divided
  BY <1>3 DEF Init, Divided, Rows
<1>6. Bounded
  BY <1>1, CountsAssumption DEF Init, Bounded, All
<1>7. OwnParts /\ Once /\ Whole /\ Done
  BY <1>1 DEF Init, OwnParts, Once, Whole, Done
<1> QED
  BY <1>2, <1>4, <1>5, <1>6, <1>7 DEF RowsInv

LEMMA CallKeeps ==
  ASSUME RowsInv, Call
  PROVE  RowsInv'
<1> USE DEF RowsInv
<1>1. /\ pc = "call" /\ UNCHANGED query /\ UNCHANGED <<left, last, given, failed, want>>
      /\ Typed
  BY DEF Call, query
<1>2. /\ Prefetched' = Prefetched /\ Rows' = Rows /\ VariableRowCount' = VariableRowCount
      /\ (\A k : Joined(k)' = Joined(k)) /\ prefetch' = prefetch /\ related' = related
  BY <1>1, SameQuery DEF query
<1>3. given' \in Seq(Records') /\ Keys' = Keys /\ OwnParts' /\ Once' /\ Whole'
  BY <1>1, GivesNone
<1>4. \/ pc' = "done" /\ results' = results /\ VariableRowCount /\ Enough
      \/ /\ pc' = "fetch" /\ results' = IF last # Nothing THEN <<last>> ELSE <<>>
         /\ ~(VariableRowCount /\ Enough)
  BY DEF Call
<1>5. /\ results' \in Seq(Rows) /\ Held' = Held
      /\ \A n \in DOMAIN results' : Key(results'[n]) = Key(results'[1])
      /\ pc' = "fetch" => \A m, n \in DOMAIN results' : results'[m] = results'[n] => m = n
  <2>1. CASE pc' = "done" /\ results' = results
    BY <1>1, <2>1 DEF Held, Typed
  <2>2. CASE pc' = "fetch" /\ last # Nothing /\ results' = <<last>>
    <3>1. last \in Rows
      BY <1>1, <2>2 DEF Typed
    <3>2. <<last>> \in Seq(Rows) /\ DOMAIN <<last>> = {1} /\ <<last>>[1] = last
      BY <3>1
    <3> QED
      BY <1>1, <2>2, <3>2 DEF Held, Among
  <2>3. CASE pc' = "fetch" /\ last = Nothing /\ results' = <<>>
    <3>1. <<>> \in Seq(Rows) /\ DOMAIN <<>> = {}
      OBVIOUS
    <3> QED
      BY <1>1, <2>3, <3>1 DEF Held, Among
  <2> QED
    BY <1>4, <2>1, <2>2, <2>3
<1>6. Typed'
  BY <1>1, <1>2, <1>3, <1>4, <1>5 DEF Typed
<1>7. Plain'
  BY <1>1, <1>2, <1>4 DEF Plain
<1>8. Apart' /\ Ordered'
  BY <1>1, <1>5 DEF Apart, Ordered
<1>9. Divided'
  BY <1>1, <1>2, <1>3, <1>5 DEF Divided
<1>10. Bounded'
  <2>1. Len(given) \in Nat /\ want \in Nat
    BY <1>1, CountsAssumption DEF Typed, All
  <2> QED
    BY <1>1, <1>2, <1>4, <2>1 DEF Bounded, Enough
<1>11. Done'
  <2> SUFFICES ASSUME failed = 0, pc' = "done"
               PROVE  Len(given) = IF want = All \/ want > Cardinality(Mains)
                                   THEN Cardinality(Mains) ELSE want
    BY <1>1 DEF Done
  <2>1. want # All /\ Len(given) >= want
    BY <1>4 DEF Enough
  <2>2. Len(given) \in Nat /\ Cardinality(Mains) \in Nat /\ Len(given) <= Cardinality(Mains)
    BY <1>1, KeysCount DEF Once
  <2>3. want \in Nat /\ Len(given) <= want
    BY <1>1, <2>1, CountsAssumption DEF Typed, All, Bounded
  <2> QED
    BY <2>1, <2>2, <2>3
<1> QED
  BY <1>3, <1>6, <1>7, <1>8, <1>9, <1>10, <1>11

LEMMA FetchSingleKeeps ==
  ASSUME RowsInv, FetchSingle
  PROVE  RowsInv'
<1> USE DEF RowsInv
<1>1. /\ pc = "fetch" /\ pc' = "call" /\ ~VariableRowCount /\ ~Ended /\ Typed
      /\ UNCHANGED query /\ UNCHANGED <<results, last, failed, want>>
  BY DEF FetchSingle, query
<1>2. PICK row \in Candidates : left' = left \ {row} /\ Give(<<row>>)
  BY DEF FetchSingle
<1> DEFINE k == Key(row)
<1>3. /\ row \in left /\ row \in Rows /\ k \in Mains /\ row \in Joined(k)
      /\ Stack(<<row>>, k)
  BY <1>1, <1>2, Chooses
<1> HIDE DEF k
<1>4. /\ Prefetched' = Prefetched /\ Rows' = Rows /\ VariableRowCount' = VariableRowCount
      /\ (\A l : Joined(l)' = Joined(l)) /\ prefetch' = prefetch /\ related' = related
  BY <1>1, SameQuery DEF query
<1>5. results = <<>> /\ last = Nothing /\ Held = {} /\ Held' = {}
  BY <1>1 DEF Plain, Held, Among
<1>6. failed = 0 => k \notin Keys
  BY <1>3 DEF Divided
<1>7. Whole'
  BY <1>1, <1>4 DEF Whole, VariableRowCount
<1>8. /\ given' \in Seq(Records') /\ Len(given') = Len(given) + 1 /\ Keys' = Keys \cup {k}
      /\ \A n \in DOMAIN given' : given'[n].key \in Mains
      /\ OwnParts' /\ Once'
  BY <1>1, <1>2, <1>3, <1>6, Gives
<1>9. Typed'
  BY <1>1, <1>2, <1>4, <1>8 DEF Typed
<1>10. Plain' /\ Apart' /\ Ordered'
  BY <1>1, <1>5 DEF Plain, Apart, Ordered
<1>11. Divided'
  <2> SUFFICES ASSUME failed = 0, NEW l \in Mains
               PROVE  IF l \in Keys' THEN Joined(l) \cap (left' \cup Held') = {}
                      ELSE Joined(l) \subseteq left' \cup Held'
    BY <1>1, <1>4 DEF Divided
  <2>1. CASE l = k
    BY <1>1, <1>2, <1>3, <1>5, <1>8, <2>1, OneRow
  <2>2. CASE l # k
    <3>1. row \notin Joined(l)
      BY <1>1, <2>2, RowFacts DEF k
    <3> QED
      BY <1>2, <1>5, <1>8, <2>2, <3>1 DEF Divided
  <2> QED
    BY <2>1, <2>2
<1>12. Bounded'
  <2>1. Len(given) \in Nat /\ want \in Nat
    BY <1>1, CountsAssumption DEF Typed, All
  <2>2. want # All => Len(given) < want
    BY <1>1, <2>1 DEF Ended, Enough
  <2> QED
    BY <1>1, <1>8, <2>1, <2>2 DEF Bounded
<1>13. Done'
  BY <1>1 DEF Done
<1> QED
  BY <1>7, <1>8, <1>9, <1>10, <1>11, <1>12, <1>13

LEMMA FetchSameKeeps ==
  ASSUME RowsInv, FetchSame
  PROVE  RowsInv'
<1> USE DEF RowsInv
<1>1. /\ pc = "fetch" /\ pc' = "fetch" /\ VariableRowCount /\ Typed
      /\ UNCHANGED query /\ UNCHANGED <<last, given, failed, want>>
  BY DEF FetchSame, query
<1>2. PICK row \in Candidates : /\ results # <<>> => Key(results[1]) = Key(row)
                                /\ left' = left \ {row} /\ results' = Append(results, row)
  BY DEF FetchSame
<1>3. row \in left /\ row \in Rows /\ \A r \in left : Key(row) <= Key(r)
  BY <1>1, Chooses
<1>4. /\ Prefetched' = Prefetched /\ Rows' = Rows /\ VariableRowCount' = VariableRowCount
      /\ (\A l : Joined(l)' = Joined(l)) /\ prefetch' = prefetch /\ related' = related
  BY <1>1, SameQuery DEF query
<1>5. given' \in Seq(Records') /\ Keys' = Keys /\ OwnParts' /\ Once' /\ Whole'
  BY <1>1, GivesNone
<1>6. /\ results \in Seq(Rows) /\ results' \in Seq(Rows) /\ Len(results) \in Nat
      /\ DOMAIN results = 1 .. Len(results) /\ DOMAIN results' = 1 .. (Len(results) + 1)
      /\ \A n \in 1 .. Len(results) : results'[n] = results[n]
      /\ results'[Len(results) + 1] = row
  BY <1>1, <1>2, <1>3 DEF Typed
<1>7. \A n \in DOMAIN results' : n \in DOMAIN results \/ n = Len(results) + 1
  BY <1>6
<1>8. Held' = Held \cup {row} /\ row \notin Held
  <2>1. Held = Among(results) /\ Held' = Among(results')
    BY <1>1 DEF Held
  <2>2. Len(results) + 1 \in DOMAIN results' /\ DOMAIN results \subseteq DOMAIN results'
    BY <1>6
  <2>3. Among(results') = Among(results) \cup {row}
    BY <1>6, <1>7, <2>2 DEF Among
  <2> QED
    BY <1>3, <2>1, <2>3 DEF Apart
<1>9. \A n \in DOMAIN results : results[n] \in Held
  BY <1>1 DEF Held, Among
<1>10. \A n \in DOMAIN results' : Key(results'[n]) = Key(results'[1])
  <2>1. CASE results = <<>>
    BY <1>6, <1>7, <2>1
  <2>2. CASE results # <<>>
    <3>1. 1 \in DOMAIN results
      BY <1>6, <2>2
    <3> QED
      BY <1>2, <1>6, <1>7, <2>2, <3>1 DEF Typed
  <2> QED
    BY <2>1, <2>2
<1>11. Typed'
  BY <1>1, <1>2, <1>4, <1>5, <1>6, <1>10 DEF Typed
<1>12. Plain'
  BY <1>1, <1>4 DEF Plain
<1>13. Apart'
  <2>1. \A m, n \in DOMAIN results' : results'[m] = results'[n] => m = n
    BY <1>1, <1>6, <1>7, <1>8, <1>9 DEF Apart
  <2> QED
    BY <1>2, <1>8, <2>1 DEF Apart
<1>14. Ordered'
  BY <1>2, <1>3, <1>8 DEF Ordered
<1>15. Divided'
  <2>1. left' \cup Held' = left \cup Held
    BY <1>2, <1>3, <1>8
  <2> QED
    BY <1>1, <1>4, <1>5, <2>1 DEF Divided
<1>16. Bounded' /\ Done'
  BY <1>1, <1>4 DEF Bounded, Done
<1> QED
  BY <1>5, <1>11, <1>12, <1>13, <1>14, <1>15, <1>16

LEMMA FetchOtherKeeps ==
  ASSUME RowsInv, FetchOther
  PROVE  RowsInv'
<1> USE DEF RowsInv
<1>1. /\ pc = "fetch" /\ pc' = "call" /\ VariableRowCount /\ Typed /\ Give(results)
      /\ UNCHANGED query /\ UNCHANGED <<results, failed, want>>
  BY DEF FetchOther, query
<1>2. PICK row \in Candidates : /\ results # <<>> /\ Key(results[1]) # Key(row)
                                /\ left' = left \ {row} /\ last' = row
  BY DEF FetchOther
<1> DEFINE k == Key(results[1])
<1>3. /\ row \in left /\ row \in Rows /\ row # Nothing
      /\ Key(row) \in Mains /\ \A r \in left : Key(row) <= Key(r)
  BY <1>1, Chooses
<1>4. /\ Prefetched' = Prefetched /\ Rows' = Rows /\ VariableRowCount' = VariableRowCount
      /\ (\A l : Joined(l)' = Joined(l)) /\ prefetch' = prefetch /\ related' = related
  BY <1>1, SameQuery DEF query
<1>5. k \in Mains /\ Stack(results, k) /\ results[1] \in Held /\ \A h \in Held : Key(h) = k
  BY <1>1, <1>2, HeldRows
<1>6. k <= Key(row) /\ Key(row) # k
  BY <1>2, <1>3, <1>5 DEF Ordered
<1> HIDE DEF k
<1>7. \A r \in Joined(k) : Key(r) = k
  BY <1>1, <1>5, RowFacts
<1>8. Joined(k) \cap left = {}
  <2> SUFFICES ASSUME NEW r \in Joined(k), r \in left PROVE FALSE
    OBVIOUS
  <2>1. Key(row) <= k
    BY <1>3, <1>7
  <2>2. k \in Nat /\ Key(row) \in Nat
    BY <1>3, <1>5, KeysAssumption
  <2> QED
    BY <1>6, <2>1, <2>2
<1>9. Held = Among(results) /\ Held' = {row}
  BY <1>1, <1>2, <1>3 DEF Held
<1>10. results[1] \in Joined(k) /\ (failed = 0 => k \notin Keys)
  <2>1. results[1] \in Joined(k)
    BY <1>5 DEF Stack
  <2> QED
    BY <1>5, <2>1 DEF Divided
<1>11. failed = 0 => Joined(k) \subseteq Among(results)
  BY <1>5, <1>8, <1>9, <1>10 DEF Divided
<1>12. /\ given' \in Seq(Records') /\ Len(given') = Len(given) + 1 /\ Keys' = Keys \cup {k}
       /\ \A n \in DOMAIN given' : given'[n].key \in Mains
       /\ OwnParts' /\ Once' /\ Whole'
  BY <1>1, <1>5, <1>10, <1>11, Gives
<1>13. Typed'
  BY <1>1, <1>2, <1>3, <1>4, <1>12 DEF Typed
<1>14. Plain' /\ Apart' /\ Ordered'
  BY <1>1, <1>2, <1>3, <1>4, <1>9 DEF Plain, Apart, Ordered
<1>15. Divided'
  <2> SUFFICES ASSUME failed = 0, NEW l \in Mains
               PROVE  IF l \in Keys' THEN Joined(l) \cap (left' \cup Held') = {}
                      ELSE Joined(l) \subseteq left' \cup Held'
    BY <1>1, <1>4 DEF Divided
  <2>1. left' \cup Held' = left
    BY <1>2, <1>3, <1>9
  <2>2. CASE l = k
    BY <1>8, <1>12, <2>1, <2>2
  <2>3. CASE l # k
    <3>1. Joined(l) \cap Held = {}
      BY <1>1, <1>5, <2>3, RowFacts
    <3> QED
      BY <1>12, <2>1, <2>3, <3>1 DEF Divided
  <2> QED
    BY <2>2, <2>3
<1>16. Bounded'
  <2>1. Len(given) \in Nat /\ want \in Nat
    BY <1>1, CountsAssumption DEF Typed, All
  <2> QED
    BY <1>1, <1>12, <2>1 DEF Bounded
<1>17. Done'
  BY <1>1 DEF Done
<1> QED
  BY <1>12, <1>13, <1>14, <1>15, <1>16, <1>17

\* fetch answers nil: what follows from its rows alone.
LEMMA OverKeeps ==
  ASSUME RowsInv, pc = "fetch", Over, left' \subseteq Rows, failed' \in 0 .. Faults,
         failed' = 0 => failed = 0 /\ (VariableRowCount => left = {})
  PROVE  /\ Typed' /\ Plain' /\ Apart' /\ Ordered' /\ Bounded' /\ OwnParts' /\ Once' /\ Whole'
         /\ Held' = {} /\ UNCHANGED query /\ (\A l : Joined(l)' = Joined(l))
         /\ results # <<>> => /\ pc' = "call" /\ Keys' = Keys \cup {Key(results[1])}
                              /\ Stack(results, Key(results[1])) /\ VariableRowCount
         /\ results = <<>> => pc' = "done" /\ Keys' = Keys /\ Held = {} /\ UNCHANGED given
<1> USE DEF RowsInv
<1>1. last' = Nothing /\ UNCHANGED query /\ UNCHANGED results /\ want' = want /\ Typed
  BY DEF Over, query
<1>2. /\ Prefetched' = Prefetched /\ Rows' = Rows /\ VariableRowCount' = VariableRowCount
      /\ (\A l : Joined(l)' = Joined(l)) /\ prefetch' = prefetch /\ related' = related
  BY <1>1, SameQuery DEF query
<1>3. CASE results # <<>>
  <2> DEFINE k == Key(results[1])
  <2>1. pc' = "call" /\ Give(results) /\ VariableRowCount
    BY <1>3 DEF Over, Plain
  <2>2. k \in Mains /\ Stack(results, k) /\ results[1] \in Held /\ results[1] \in Joined(k)
    BY <1>3, HeldRows DEF Stack
  <2> HIDE DEF k
  <2>3. failed' = 0 => k \notin Keys
    BY <2>2 DEF Divided
  <2>4. failed' = 0 => Joined(k) \subseteq Among(results)
    BY <2>1, <2>2, <2>3 DEF Divided, Held
  <2>5. /\ given' \in Seq(Records') /\ Len(given') = Len(given) + 1 /\ Keys' = Keys \cup {k}
        /\ \A n \in DOMAIN given' : given'[n].key \in Mains
        /\ OwnParts' /\ Once' /\ Whole'
    BY <1>1, <2>1, <2>2, <2>3, <2>4, Gives
  <2>6. Typed'
    BY <1>1, <1>2, <2>1, <2>5 DEF Typed
  <2>7. Held' = {}
    BY <1>1, <2>1 DEF Held
  <2>8. Plain' /\ Apart' /\ Ordered'
    BY <1>2, <2>1, <2>7 DEF Plain, Apart, Ordered
  <2>9. Bounded'
    <3>1. Len(given) \in Nat /\ want \in Nat
      BY <1>1, CountsAssumption DEF Typed, All
    <3> QED
      BY <1>1, <2>1, <2>5, <3>1 DEF Bounded
  <2> QED
    BY <1>1, <1>2, <1>3, <2>1, <2>2, <2>5, <2>6, <2>7, <2>8, <2>9 DEF k
<1>4. CASE results = <<>>
  <2>1. pc' = "done" /\ UNCHANGED given
    BY <1>4 DEF Over
  <2>2. given' \in Seq(Records') /\ Keys' = Keys /\ OwnParts' /\ Once' /\ Whole'
    BY <1>1, <2>1, GivesNone
  <2>3. Typed'
    BY <1>1, <1>2, <2>1, <2>2 DEF Typed
  <2>4. Held' = {} /\ Held = {}
    BY <1>1, <1>4, <2>1 DEF Held, Among
  <2>5. Plain' /\ Apart' /\ Ordered' /\ Bounded'
    BY <1>1, <1>2, <1>4, <2>1, <2>4 DEF Plain, Apart, Ordered, Bounded
  <2> QED
    BY <1>1, <1>2, <1>4, <2>1, <2>2, <2>3, <2>4, <2>5
<1> QED
  BY <1>3, <1>4

LEMMA FetchEndKeeps ==
  ASSUME RowsInv, FetchEnd
  PROVE  RowsInv'
<1> USE DEF RowsInv
<1>1. /\ pc = "fetch" /\ Ended /\ Over /\ left' = left /\ failed' = failed
      /\ left' \subseteq Rows /\ failed' \in 0 .. Faults /\ Typed
  BY DEF FetchEnd, Typed
<1>2. VariableRowCount => left = {}
  BY <1>1 DEF Ended
<1>3. /\ Typed' /\ Plain' /\ Apart' /\ Ordered' /\ Bounded' /\ OwnParts' /\ Once' /\ Whole'
      /\ Held' = {} /\ UNCHANGED query /\ (\A l : Joined(l)' = Joined(l))
      /\ results # <<>> => /\ pc' = "call" /\ Keys' = Keys \cup {Key(results[1])}
                           /\ Stack(results, Key(results[1])) /\ VariableRowCount
      /\ results = <<>> => pc' = "done" /\ Keys' = Keys /\ Held = {} /\ UNCHANGED given
  BY <1>1, <1>2, OverKeeps
<1>4. CASE results # <<>>
  <2>1. \A h \in Held : Key(h) = Key(results[1])
    BY <1>1, <1>4, HeldRows
  <2>2. ASSUME NEW l \in Mains, failed = 0, l # Key(results[1]) PROVE Joined(l) \cap Held = {}
    BY <1>1, <2>1, <2>2, RowFacts
  <2>3. Divided'
    BY <1>1, <1>2, <1>3, <1>4, <2>2 DEF Divided
  <2>4. Done'
    BY <1>3, <1>4 DEF Done
  <2> QED
    BY <1>3, <2>3, <2>4
<1>5. CASE results = <<>>
  <2>1. Divided'
    BY <1>1, <1>3, <1>5 DEF Divided
  <2>2. Done'
    <3> SUFFICES ASSUME failed = 0
                 PROVE  Len(given) = IF want = All \/ want > Cardinality(Mains)
                                     THEN Cardinality(Mains) ELSE want
      BY <1>1, <1>3, <1>5 DEF Done, query
    <3>1. /\ Len(given) \in Nat /\ Cardinality(Mains) \in Nat /\ Len(given) <= Cardinality(Mains)
          /\ Mains \subseteq Keys => Len(given) = Cardinality(Mains)
      BY <1>1, KeysCount DEF Once
    <3>2. want \in Nat /\ (want # All => Len(given) <= want)
      BY <1>1, CountsAssumption DEF Typed, All, Bounded
    <3>3. CASE left = {}
      <4>1. ASSUME NEW l \in Mains PROVE l \in Keys
        <5>1. Joined(l) # {}
          BY <1>1, RowExists
        <5> QED
          BY <1>3, <1>5, <3>3, <5>1 DEF Divided
      <4> QED
        BY <3>1, <3>2, <4>1
    <3>4. CASE Enough
      BY <3>1, <3>2, <3>4 DEF Enough
    <3> QED
      BY <1>1, <3>3, <3>4 DEF Ended
  <2> QED
    BY <1>3, <2>1, <2>2
<1> QED
  BY <1>4, <1>5

LEMMA FetchFailsKeeps ==
  ASSUME RowsInv, FetchFails
  PROVE  RowsInv'
<1> USE DEF RowsInv
<1>1. /\ pc = "fetch" /\ failed < Faults /\ failed' = failed + 1 /\ left' \in {left, Rows}
      /\ Over /\ Typed
  BY DEF FetchFails
<1>2. failed' \in 0 .. Faults /\ failed' # 0
  BY <1>1, FaultsAssumption DEF Typed
<1>3. left' \subseteq Rows
  BY <1>1 DEF Typed
<1>4. /\ Typed' /\ Plain' /\ Apart' /\ Ordered' /\ Bounded' /\ OwnParts' /\ Once' /\ Whole'
  BY <1>1, <1>2, <1>3, OverKeeps
<1>5. Divided' /\ Done'
  BY <1>2 DEF Divided, Done
<1> QED
  BY <1>4, <1>5

LEMMA StutterKeeps ==
  ASSUME RowsInv, UNCHANGED vars
  PROVE  RowsInv'
<1> USE DEF RowsInv
<1>1. UNCHANGED query /\ UNCHANGED <<left, want, pc, results, last, given, failed>> /\ Typed
  BY DEF vars, query
<1>2. /\ Prefetched' = Prefetched /\ Rows' = Rows /\ VariableRowCount' = VariableRowCount
      /\ (\A l : Joined(l)' = Joined(l)) /\ prefetch' = prefetch /\ related' = related
  BY <1>1, SameQuery DEF query
<1>3. given' \in Seq(Records') /\ Keys' = Keys /\ OwnParts' /\ Once' /\ Whole'
  BY <1>1, GivesNone
<1>4. Held' = Held
  BY <1>1 DEF Held
<1>5. Typed'
  BY <1>1, <1>2, <1>3 DEF Typed
<1>6. Plain' /\ Apart' /\ Ordered' /\ Divided' /\ Bounded' /\ Done'
  BY <1>1, <1>2, <1>3, <1>4 DEF Plain, Apart, Ordered, Divided, Bounded, Done
<1> QED
  BY <1>3, <1>5, <1>6

LEMMA RowsInvariant == Spec => []RowsInv
<1>1. RowsInv /\ [Next]_vars => RowsInv'
  BY CallKeeps, FetchSingleKeeps, FetchSameKeeps, FetchOtherKeeps, FetchEndKeeps,
     FetchFailsKeeps, StutterKeeps DEF Next
<1> QED
  BY <1>1, InitInv, PTL DEF Spec

-----------------------------------------------------------------------------
(* The theorems.                                                            *)

\* The variables keep their types: what is held are rows of one record.
THEOREM ResultsTyped == Spec => []TypeOK
<1>1. RowsInv => TypeOK
  <2> SUFFICES ASSUME RowsInv PROVE TypeOK
    OBVIOUS
  <2>1. Typed
    BY DEF RowsInv
  <2>2. Rows \subseteq Row
    BY <2>1, RowsOf
  <2>3. results \in Seq(Row)
    BY <2>1, <2>2 DEF Typed
  <2> QED
    BY <2>1, <2>2, <2>3 DEF Typed, TypeOK
<1> QED
  BY <1>1, RowsInvariant, PTL

\* Whatever is prefetched and however fetches fail, the parts of a record are its
\* own related ones, none of a has_many twice (dbix.lua:303-386).
THEOREM PartsTheirOwn == Spec => []OwnParts
<1>1. RowsInv => OwnParts
  BY DEF RowsInv
<1> QED
  BY <1>1, RowsInvariant, PTL

\* As long as no fetch fails, every record is given once, with all of its has_many,
\* and take gives as many as there are or are wanted (dbix.lua:303-326, 393-425).
THEOREM RecordsWholeOnce == Spec => []EachWholeOnce
<1>1. RowsInv => EachWholeOnce
  BY DEF RowsInv, EachWholeOnce, Once, Whole, Done
<1> QED
  BY <1>1, RowsInvariant, PTL
=============================================================================
