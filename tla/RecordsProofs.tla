---------------------------- MODULE RecordsProofs ----------------------------
(* Proofs about Records, for every number of records, columns and rows. *)
EXTENDS Records, TLAPS

\* What a statement writes is a value of the database.
LEMMA ImageTyped ==
  ASSUME TypeOK, NEW r \in Records
  PROVE  Image(r) \in [Columns -> Values \ {False}]
<1>1. row[r] \in [Columns -> Values]
  BY DEF TypeOK
<1> QED
  BY <1>1 DEF Image, Values, Nil, False

LEMMA TranslatedTyped ==
  ASSUME NEW v \in Values
  PROVE  /\ Translated(v) \in Values \ {False}
         /\ v # False => Translated(v) = v
BY DEF Translated, Values, False, Zero

\* The update of a row, column by column.
LEMMA WriteEffect ==
  ASSUME TypeOK, NEW r \in Records, Write(r)
  PROVE  /\ stored' = stored
         /\ table' \in [Keys -> [Columns -> Values \ {False}]]
         /\ writer' \in [Keys -> [Columns -> Records \cup {None}]]
         /\ unsaved' \in [Records -> SUBSET Columns]
         /\ \A k \in Keys, c \in Columns :
              LET hit == k = key[r] /\ k \in stored /\ c \in Params(r)
              IN /\ table'[k][c] = IF hit THEN Translated(row[r][c]) ELSE table[k][c]
                 /\ writer'[k][c] = IF hit THEN r ELSE writer[k][c]
         /\ \A q \in Records :
              unsaved'[q] = IF q = r /\ key[r] = home[r] /\ key[r] \in stored
                            THEN {c \in unsaved[r] : row[r][c] = Nil} ELSE unsaved[q]
<1> DEFINE new == [c \in Columns |-> Translated(row[r][c])]
           all == [c \in Columns |-> r]
           k0 == key[r]
<1>1. /\ table \in [Keys -> [Columns -> Values \ {False}]]
      /\ writer \in [Keys -> [Columns -> Records \cup {None}]]
      /\ unsaved \in [Records -> SUBSET Columns]
      /\ row[r] \in [Columns -> Values] /\ stored \subseteq Keys
  BY DEF TypeOK
<1>2. new \in [Columns -> Values \ {False}]
  BY <1>1, TranslatedTyped
<1>3. /\ stored' = stored
      /\ table' = IF k0 \notin stored THEN table
                  ELSE [table EXCEPT ![k0] = [c \in Columns |->
                          IF c \in Params(r) THEN new[c] ELSE table[k0][c]]]
      /\ writer' = IF k0 \notin stored THEN writer
                   ELSE [writer EXCEPT ![k0] = [c \in Columns |->
                           IF c \in Params(r) THEN all[c] ELSE writer[k0][c]]]
      /\ unsaved' = IF k0 = home[r] /\ k0 \in stored
                    THEN [unsaved EXCEPT ![r] = {c \in unsaved[r] : row[r][c] = Nil}]
                    ELSE unsaved
  BY DEF Write
<1>4. unsaved' \in [Records -> SUBSET Columns]
  BY <1>1, <1>3
<1>5. \A q \in Records :
        unsaved'[q] = IF q = r /\ k0 = home[r] /\ k0 \in stored
                      THEN {c \in unsaved[r] : row[r][c] = Nil} ELSE unsaved[q]
  BY <1>1, <1>3
<1>6. \A c \in Columns : new[c] = Translated(row[r][c]) /\ all[c] = r
  OBVIOUS
<1> HIDE DEF new, all, k0
<1>7. CASE k0 \notin stored
  <2>1. table' = table /\ writer' = writer
    BY <1>3, <1>7
  <2> QED
    BY <1>1, <1>3, <1>4, <1>5, <1>7, <2>1 DEF k0
<1>8. CASE k0 \in stored
  <2> DEFINE t == [c \in Columns |-> IF c \in Params(r) THEN new[c] ELSE table[k0][c]]
             w == [c \in Columns |-> IF c \in Params(r) THEN all[c] ELSE writer[k0][c]]
  <2>1. k0 \in Keys
    BY <1>1, <1>8
  <2>2. t \in [Columns -> Values \ {False}]
    BY <1>1, <1>2, <2>1
  <2>3. w \in [Columns -> Records \cup {None}]
    BY <1>1, <1>6, <2>1
  <2>4. \A c \in Columns :
          /\ t[c] = IF c \in Params(r) THEN Translated(row[r][c]) ELSE table[k0][c]
          /\ w[c] = IF c \in Params(r) THEN r ELSE writer[k0][c]
    BY <1>6
  <2>5. table' = [table EXCEPT ![k0] = t] /\ writer' = [writer EXCEPT ![k0] = w]
    BY <1>3, <1>8
  <2> HIDE DEF t, w
  <2>6. /\ table' \in [Keys -> [Columns -> Values \ {False}]]
        /\ writer' \in [Keys -> [Columns -> Records \cup {None}]]
        /\ \A k \in Keys : /\ table'[k] = IF k = k0 THEN t ELSE table[k]
                           /\ writer'[k] = IF k = k0 THEN w ELSE writer[k]
    BY <1>1, <2>1, <2>2, <2>3, <2>5
  <2> QED
    BY <1>3, <1>4, <1>5, <1>8, <2>4, <2>6 DEF k0
<1> QED
  BY <1>7, <1>8

\* An insert, for the key that it gets.
InsertAt(r, told, k) ==
  /\ k \in Keys /\ k \notin stored
  /\ stored' = stored \cup {k}
  /\ table' = [table EXCEPT ![k] = Image(r)]
  /\ key' = IF told THEN [key EXCEPT ![r] = k] ELSE key
  /\ dirty' = IF told THEN [dirty EXCEPT ![r] = {}] ELSE dirty
  /\ home' = [home EXCEPT ![r] = k]
  /\ writer' = [writer EXCEPT ![k] = [c \in Columns |-> r]]

LEMMA InsertEffect ==
  ASSUME TypeOK, NEW r \in Records, Insert(r)
  PROVE  /\ \E told \in BOOLEAN, k \in Keys : InsertAt(r, told, k)
         /\ unsaved' = [unsaved EXCEPT ![r] = {}] /\ UNCHANGED <<row, live>>
<1>1. PICK told \in Reports,
           k \in IF key[r] = NoKey THEN {n \in NextKeys : \A m \in NextKeys : n <= m}
                                   ELSE {key[r]} \ stored :
        /\ stored' = stored \cup {k}
        /\ table' = [table EXCEPT ![k] = Image(r)]
        /\ key' = IF told THEN [key EXCEPT ![r] = k] ELSE key
        /\ dirty' = IF told THEN [dirty EXCEPT ![r] = {}] ELSE dirty
        /\ home' = [home EXCEPT ![r] = k]
        /\ writer' = [writer EXCEPT ![k] = [c \in Columns |-> r]]
  BY Zenon DEF Insert
<1>2. k \in Keys /\ k \notin stored
  <2>1. CASE key[r] = NoKey
    <3>1. k \in NextKeys
      BY <2>1
    <3> QED
      BY <3>1 DEF NextKeys, Keys
  <2>2. CASE key[r] # NoKey
    BY <2>2 DEF TypeOK
  <2> QED
    BY <2>1, <2>2
<1>3. told \in BOOLEAN
  BY FlagAssumption
<1>4. InsertAt(r, told, k)
  BY <1>1, <1>2 DEF InsertAt
<1> QED
  BY <1>2, <1>3, <1>4, Zenon DEF Insert

-----------------------------------------------------------------------------
LEMMA TypeInit == Init => TypeOK
<1> SUFFICES ASSUME Init PROVE TypeOK
  OBVIOUS
<1>1. NoRow \in [Columns -> Values \ {False}] /\ NoWriter \in [Columns -> Records \cup {None}]
  BY DEF NoRow, NoWriter, Values, Nil, False
<1> QED
  BY <1>1 DEF Init, TypeOK

LEMMA TypeNext == TypeOK /\ [Next]_vars => TypeOK'
<1> SUFFICES ASSUME TypeOK, [Next]_vars PROVE TypeOK'
  OBVIOUS
<1>1. /\ stored \subseteq Keys /\ table \in [Keys -> [Columns -> Values \ {False}]]
      /\ key \in [Records -> Keys \cup {NoKey}] /\ row \in [Records -> [Columns -> Values]]
      /\ dirty \in [Records -> SUBSET Columns] /\ live \subseteq Records
      /\ home \in [Records -> Keys \cup {NoKey}]
      /\ unsaved \in [Records -> SUBSET Columns]
      /\ writer \in [Keys -> [Columns -> Records \cup {None}]]
  BY DEF TypeOK
<1>2. CASE UNCHANGED vars
  BY <1>1, <1>2 DEF vars, TypeOK
<1>3. ASSUME NEW r \in Records, NEW k \in Keys, Fetch(r, k) PROVE TypeOK'
  <2>1. table[k] \in [Columns -> Values]
    BY <1>1
  <2> QED
    BY <1>1, <1>3, <2>1 DEF Fetch, database, TypeOK
<1>4. ASSUME NEW r \in Records, NEW k \in Keys, Rekey(r, k) PROVE TypeOK'
  BY <1>1, <1>4 DEF Rekey, database, TypeOK
<1>5. ASSUME NEW r \in Records, NEW image \in Images, Shadow(r, image) PROVE TypeOK'
  <2>1. image \in [Columns -> Values]
    BY DEF Images
  <2> QED
    BY <1>1, <1>5, <2>1 DEF Shadow, database, TypeOK
<1>6. ASSUME NEW r \in Records, NEW c \in Columns, NEW v \in Assignable[c], Assign(r, c, v)
      PROVE  TypeOK'
  <2>1. v \in Values
    BY DEF Values
  <2>2. [row[r] EXCEPT ![c] = v] \in [Columns -> Values]
    BY <1>1, <2>1
  <2>3. row' = [row EXCEPT ![r] = [row[r] EXCEPT ![c] = v]]
    BY <1>1, <1>6 DEF Assign
  <2>4. row' \in [Records -> [Columns -> Values]]
    BY <1>1, <2>2, <2>3
  <2> QED
    BY <1>1, <1>6, <2>4 DEF Assign, database, TypeOK
<1>7. ASSUME NEW r \in Records, Insert(r) PROVE TypeOK'
  <2>1. PICK told \in BOOLEAN, k \in Keys : InsertAt(r, told, k)
    BY <1>7, InsertEffect
  <2>2. /\ table' \in [Keys -> [Columns -> Values \ {False}]]
        /\ writer' \in [Keys -> [Columns -> Records \cup {None}]]
    BY <1>1, <2>1, ImageTyped DEF InsertAt
  <2>3. unsaved' = [unsaved EXCEPT ![r] = {}] /\ UNCHANGED <<row, live>>
    BY <1>7, InsertEffect
  <2>4. /\ key' \in [Records -> Keys \cup {NoKey}]
        /\ dirty' \in [Records -> SUBSET Columns]
        /\ home' \in [Records -> Keys \cup {NoKey}]
        /\ stored' \subseteq Keys
    BY <1>1, <2>1 DEF InsertAt
  <2> QED
    BY <1>1, <2>2, <2>3, <2>4 DEF TypeOK
<1>8. ASSUME NEW r \in Records, Update(r) PROVE TypeOK'
  <2>1. Write(r) /\ UNCHANGED <<key, row, dirty, live, home>>
    BY <1>8 DEF Update
  <2> QED
    BY <1>1, <2>1, WriteEffect DEF TypeOK
<1>9. ASSUME NEW r \in Records, Delete(r) PROVE TypeOK'
  <2>1. NoRow \in [Columns -> Values \ {False}] /\ NoWriter \in [Columns -> Records \cup {None}]
    BY DEF NoRow, NoWriter, Values, Nil, False
  <2> QED
    BY <1>1, <1>9, <2>1 DEF Delete, TypeOK
<1> QED
  BY <1>2, <1>3, <1>4, <1>5, <1>6, <1>7, <1>8, <1>9 DEF Next

\* Records, the table and their history keep their types, in every use
\* (dbix.lua:436-529).
THEOREM RecordsTyped == Spec => []TypeOK
BY TypeInit, TypeNext, PTL DEF Spec

-----------------------------------------------------------------------------
LEMMA ForgottenNext == TypeOK /\ NothingForgotten /\ [Next]_vars => NothingForgotten'
<1> SUFFICES ASSUME TypeOK, NothingForgotten, [Next]_vars, NEW q \in Records
             PROVE  unsaved'[q] \subseteq dirty'[q]
  BY DEF NothingForgotten
<1>1. /\ dirty \in [Records -> SUBSET Columns] /\ unsaved \in [Records -> SUBSET Columns]
      /\ unsaved[q] \subseteq dirty[q]
  BY DEF TypeOK, NothingForgotten
<1>2. CASE UNCHANGED <<unsaved, dirty>>
  BY <1>1, <1>2
<1>3. ASSUME NEW r \in Records, NEW c \in Columns, NEW v \in Assignable[c], Assign(r, c, v)
      PROVE  unsaved'[q] \subseteq dirty'[q]
  BY <1>1, <1>3 DEF Assign
<1>4. ASSUME NEW r \in Records, Insert(r) PROVE unsaved'[q] \subseteq dirty'[q]
  <2>1. PICK told \in BOOLEAN, k \in Keys : InsertAt(r, told, k)
    BY <1>4, InsertEffect
  <2>2. unsaved' = [unsaved EXCEPT ![r] = {}]
    BY <1>4, InsertEffect
  <2>3. q # r => dirty'[q] = dirty[q]
    BY <1>1, <2>1 DEF InsertAt
  <2> QED
    BY <1>1, <2>2, <2>3
<1>5. ASSUME NEW r \in Records, Update(r) PROVE unsaved'[q] \subseteq dirty'[q]
  <2>1. dirty' = dirty /\ unsaved'[q] \subseteq unsaved[q]
    BY <1>5, WriteEffect DEF Update
  <2> QED
    BY <1>1, <2>1
<1> QED
  BY <1>2, <1>3, <1>4, <1>5 DEF Next, vars, Fetch, Shadow, Rekey, Delete

\* An assigned column is in the statements of the record until one of them has
\* written it to the record's row, whatever fails or misses in between
\* (dbix.lua:465-466, 488-491, 505-510).
THEOREM NoColumnForgotten == Spec => []NothingForgotten
<1>1. Init => NothingForgotten
  BY DEF Init, NothingForgotten
<1> QED
  BY <1>1, TypeInit, TypeNext, ForgottenNext, PTL DEF Spec

-----------------------------------------------------------------------------
\* A record that has not been made stands for no row.
Unmade == \A r \in Records : r \notin live => home[r] = NoKey

LEMMA UnmadeNext == TypeOK /\ Unmade /\ [Next]_vars => Unmade'
<1> SUFFICES ASSUME TypeOK, Unmade, [Next]_vars, NEW q \in Records, q \notin live'
             PROVE  home'[q] = NoKey
  BY DEF Unmade
<1>1. home \in [Records -> Keys \cup {NoKey}] /\ (q \notin live => home[q] = NoKey)
  BY DEF TypeOK, Unmade
<1>2. CASE UNCHANGED <<home, live>>
  BY <1>1, <1>2
<1>3. ASSUME NEW r \in Records, NEW k \in Keys, Fetch(r, k) PROVE home'[q] = NoKey
  BY <1>1, <1>3 DEF Fetch
<1>4. ASSUME NEW r \in Records, NEW image \in Images, Shadow(r, image) PROVE home'[q] = NoKey
  BY <1>1, <1>4 DEF Shadow
<1>5. ASSUME NEW r \in Records, Insert(r) PROVE home'[q] = NoKey
  <2>1. PICK told \in BOOLEAN, k \in Keys : InsertAt(r, told, k)
    BY <1>5, InsertEffect
  <2>2. q # r /\ live' = live
    BY <1>5, InsertEffect DEF Insert
  <2> QED
    BY <1>1, <2>1, <2>2 DEF InsertAt
<1> QED
  BY <1>2, <1>3, <1>4, <1>5 DEF Next, vars, Rekey, Assign, Update, Delete

\* Saved alone is not inductive: an update writes a column that was assigned only
\* because the column is still flagged.
SavedInv == TypeOK /\ NothingForgotten /\ Unmade /\ Saved

LEMMA SavedNext == SavedInv /\ [Next]_vars => Saved'
<1> SUFFICES ASSUME SavedInv, [Next]_vars, NEW q \in Records, home'[q] \in stored',
                    NEW c \in Columns, c \notin unsaved'[q],
                    writer'[home'[q]][c] = q, row'[q][c] # False
             PROVE  table'[home'[q]][c] = Translated(row'[q][c])
  BY DEF Saved
<1> DEFINE h == home[q]
           Goal == table'[home'[q]][c] = Translated(row'[q][c])
<1>1. /\ stored \subseteq Keys /\ table \in [Keys -> [Columns -> Values \ {False}]]
      /\ key \in [Records -> Keys \cup {NoKey}] /\ row \in [Records -> [Columns -> Values]]
      /\ home \in [Records -> Keys \cup {NoKey}]
      /\ unsaved \in [Records -> SUBSET Columns] /\ dirty \in [Records -> SUBSET Columns]
      /\ writer \in [Keys -> [Columns -> Records \cup {None}]]
      /\ unsaved[q] \subseteq dirty[q]
      /\ q \notin live => h = NoKey
      /\ TypeOK
  BY DEF SavedInv, TypeOK, NothingForgotten, Unmade
<1>2. h \in stored /\ c \notin unsaved[q] /\ writer[h][c] = q /\ row[q][c] # False
        => table[h][c] = Translated(row[q][c])
  BY DEF SavedInv, Saved
<1>3. NoKey \notin stored
  BY <1>1 DEF NoKey, Keys
<1> HIDE DEF h
<1>4. CASE UNCHANGED <<stored, table, home, unsaved, writer, row>>
  BY <1>2, <1>4 DEF h
<1>5. ASSUME NEW r \in Records, NEW k \in Keys, Fetch(r, k) PROVE Goal
  <2>1. UNCHANGED <<stored, table, unsaved, writer>>
    BY <1>5 DEF Fetch, database
  <2>2. CASE q = r
    <3>1. home'[q] = k /\ row'[q] = table[k]
      BY <1>1, <1>5, <2>2 DEF Fetch
    <3>2. table[k][c] \in Values \ {False}
      BY <1>1
    <3> QED
      BY <2>1, <3>1, <3>2, TranslatedTyped
  <2>3. CASE q # r
    <3>1. home'[q] = h /\ row'[q] = row[q]
      BY <1>1, <1>5, <2>3 DEF Fetch, h
    <3> QED
      BY <1>2, <2>1, <3>1
  <2> QED
    BY <2>2, <2>3
<1>6. ASSUME NEW r \in Records, NEW image \in Images, Shadow(r, image) PROVE Goal
  <2>1. UNCHANGED <<stored, table, home, unsaved, writer>>
    BY <1>6 DEF Shadow, database
  <2>2. q # r
    <3>1. q = r => h = NoKey
      BY <1>1, <1>6 DEF Shadow
    <3> QED
      BY <1>3, <2>1, <3>1 DEF h
  <2>3. row'[q] = row[q]
    BY <1>1, <1>6, <2>2 DEF Shadow
  <2> QED
    BY <1>2, <2>1, <2>3 DEF h
<1>7. ASSUME NEW r \in Records, NEW d \in Columns, NEW v \in Assignable[d], Assign(r, d, v)
      PROVE  Goal
  <2>1. UNCHANGED <<stored, table, home, writer>>
    BY <1>7 DEF Assign, database
  <2>2. /\ unsaved' = [unsaved EXCEPT ![r] = unsaved[r] \cup {d}]
        /\ row' = [row EXCEPT ![r] = [row[r] EXCEPT ![d] = v]]
    BY <1>1, <1>7 DEF Assign
  <2>3. c \notin unsaved[q] /\ (q = r => c # d)
    BY <1>1, <2>2
  <2>4. row'[q][c] = row[q][c]
    BY <1>1, <2>2, <2>3
  <2> QED
    BY <1>2, <2>1, <2>3, <2>4 DEF h
<1>8. ASSUME NEW r \in Records, Insert(r) PROVE Goal
  <2>1. PICK told \in BOOLEAN, k \in Keys : InsertAt(r, told, k)
    BY <1>1, <1>8, InsertEffect
  <2>2. unsaved' = [unsaved EXCEPT ![r] = {}] /\ row' = row
    BY <1>1, <1>8, InsertEffect
  <2>3. /\ stored' = stored \cup {k} /\ k \notin stored
        /\ table' = [table EXCEPT ![k] = Image(r)]
        /\ home' = [home EXCEPT ![r] = k]
        /\ writer' = [writer EXCEPT ![k] = [x \in Columns |-> r]]
    BY <2>1 DEF InsertAt
  <2>4. CASE q = r
    <3>1. home'[q] = k /\ table'[k] = Image(q)
      BY <1>1, <2>3, <2>4
    <3>2. Image(q)[c] = row[q][c] /\ row[q][c] \in Values
      BY <1>1, <2>2 DEF Image
    <3> QED
      BY <2>2, <3>1, <3>2, TranslatedTyped
  <2>5. CASE q # r
    <3>1. home'[q] = h /\ unsaved'[q] = unsaved[q]
      BY <1>1, <2>2, <2>3, <2>5 DEF h
    <3>2. h # k
      <4>1. writer'[k][c] = r
        BY <1>1, <2>3
      <4> QED
        BY <2>5, <3>1, <4>1
    <3>3. h \in stored /\ table'[h] = table[h] /\ writer'[h] = writer[h]
      BY <1>1, <2>3, <3>1, <3>2
    <3> QED
      BY <1>2, <2>2, <3>1, <3>3
  <2> QED
    BY <2>4, <2>5
<1>9. ASSUME NEW r \in Records, Update(r) PROVE Goal
  <2>1. Write(r) /\ UNCHANGED <<row, home>>
    BY <1>9 DEF Update
  <2>2. stored' = stored /\ h \in Keys /\ h \in stored
    BY <1>1, <2>1, WriteEffect DEF h
  <2> DEFINE hit == h = key[r] /\ h \in stored /\ c \in Params(r)
  <2>3. /\ table'[h][c] = IF hit THEN Translated(row[r][c]) ELSE table[h][c]
        /\ writer'[h][c] = IF hit THEN r ELSE writer[h][c]
        /\ unsaved'[q] = IF q = r /\ key[r] = home[r] /\ key[r] \in stored
                         THEN {x \in unsaved[r] : row[r][x] = Nil} ELSE unsaved[q]
    <3>1. \A k \in Keys, x \in Columns :
            LET hitk == k = key[r] /\ k \in stored /\ x \in Params(r)
            IN /\ table'[k][x] = IF hitk THEN Translated(row[r][x]) ELSE table[k][x]
               /\ writer'[k][x] = IF hitk THEN r ELSE writer[k][x]
      BY <1>1, <2>1, WriteEffect
    <3>2. unsaved'[q] = IF q = r /\ key[r] = home[r] /\ key[r] \in stored
                        THEN {x \in unsaved[r] : row[r][x] = Nil} ELSE unsaved[q]
      BY <1>1, <2>1, WriteEffect
    <3> QED
      BY <2>2, <3>1, <3>2
  <2>4. CASE hit
    BY <2>1, <2>3, <2>4 DEF h
  <2>5. CASE ~hit
    <3>1. table'[h][c] = table[h][c] /\ writer[h][c] = q
      BY <2>1, <2>3, <2>5 DEF h
    <3>2. c \notin unsaved[q]
      <4>1. CASE q = r /\ key[r] = h
        <5>1. c \notin Params(r)
          BY <2>2, <2>5, <4>1
        <5>2. c \in dirty[r] => row[r][c] = Nil
          BY <5>1 DEF Params
        <5>3. c \in unsaved[r] => row[r][c] # Nil
          BY <2>2, <2>3, <4>1 DEF h
        <5> QED
          BY <1>1, <4>1, <5>2, <5>3
      <4>2. CASE ~(q = r /\ key[r] = h)
        BY <2>3, <4>2 DEF h
      <4> QED
        BY <4>1, <4>2
    <3> QED
      BY <1>2, <2>1, <2>2, <3>1, <3>2 DEF h
  <2> QED
    BY <2>4, <2>5
<1>10. ASSUME NEW r \in Records, Delete(r) PROVE Goal
  <2>1. UNCHANGED <<row, home, unsaved>> /\ stored' = stored \ {key[r]}
    BY <1>10 DEF Delete
  <2>2. h \in stored /\ h \in Keys /\ h # key[r]
    BY <1>1, <2>1 DEF h
  <2>3. table'[h] = table[h] /\ writer'[h] = writer[h]
    BY <1>10, <2>2 DEF Delete
  <2> QED
    BY <1>2, <2>1, <2>2, <2>3 DEF h
<1> QED
  BY <1>4, <1>5, <1>6, <1>7, <1>8, <1>9, <1>10 DEF Next, vars, Rekey, database

\* What a record wrote last is what it holds, for all records of all rows, with
\* keys assigned or not learnt and rows deleted (dbix.lua:474-529).
THEOREM RecordsSaved == Spec => []Saved
<1>1. Init => SavedInv
  <2>1. Init => NothingForgotten /\ Unmade /\ Saved
    BY DEF Init, NothingForgotten, Unmade, Saved
  <2> QED
    BY <2>1, TypeInit DEF SavedInv
<1>2. SavedInv /\ [Next]_vars => SavedInv'
  BY TypeNext, ForgottenNext, UnmadeNext, SavedNext DEF SavedInv
<1>3. SavedInv => Saved
  BY DEF SavedInv
<1> QED
  BY <1>1, <1>2, <1>3, PTL DEF Spec
=============================================================================
