------------------------------- MODULE Records -------------------------------
(***************************************************************************)
(* The records of dbix (result of src/wtk/dbix.lua: new, __newindex,       *)
(* insert, update, delete), several of which may stand for the same row    *)
(* because several jobs have fetched it.  Every record is a row image in   *)
(* memory with a set of dirty columns; a method runs its one statement     *)
(* atomically against the database, which is external.                     *)
(*                                                                         *)
(* update(params) assigns params and goes on, without yielding, as         *)
(* update(): here it is Assign, then Update.                               *)
(***************************************************************************)
EXTENDS Naturals, FiniteSets

CONSTANTS
  Records,     \* the result objects
  Columns,     \* the columns other than the primary key
  Rows,        \* bound: primary keys are 1..Rows
  Assignable,  \* of a column: what the program assigns to it
  Rekeys,      \* it assigns to the primary key as well
  Reports,     \* whether the driver may answer an INSERT with last_insert_id, or
               \* without (postgres)
  None         \* no record

\* Lua's nil, which is NULL in the database, and Lua's false, which is 0 there
\* and comes back as the number.
Nil == "nil"
False == "false"
Zero == "zero"
NoKey == 0

ASSUME RowsAssumption == Rows \in Nat
ASSUME NoneAssumption == None \notin Records
ASSUME FlagAssumption == Rekeys \in BOOLEAN /\ Reports \subseteq BOOLEAN

Keys == 1..Rows
Values == (UNION {Assignable[c] : c \in Columns}) \cup {Nil, Zero}

\* translate_value, and what the driver makes of it when it is fetched.
Translated(v) == IF v = False THEN Zero ELSE v

VARIABLES
  stored,   \* the keys of the table
  table,    \* of a key: its columns
  key,      \* the primary key in self._row
  row,      \* the other columns in self._row
  dirty,    \* self._dirty
  live,     \* the records that have been made
  \* History, which no action depends on:
  home,     \* the row a record was read from or inserted as
  unsaved,  \* columns assigned since the last insert, or the last update that reached
            \* that row and in which they were not nil
  writer    \* of a key and a column: the record that wrote it last

vars == <<stored, table, key, row, dirty, live, home, unsaved, writer>>
database == <<stored, table>>

NoRow == [c \in Columns |-> Nil]
NoWriter == [c \in Columns |-> None]

Init ==
  /\ stored = {} /\ table = [k \in Keys |-> NoRow]
  /\ key = [r \in Records |-> NoKey]
  /\ row = [r \in Records |-> NoRow]
  /\ dirty = [r \in Records |-> {}] /\ live = {}
  /\ home = [r \in Records |-> NoKey]
  /\ unsaved = [r \in Records |-> {}]
  /\ writer = [k \in Keys |-> NoWriter]

-----------------------------------------------------------------------------
\* result.new for a row of the database.
Fetch(r, k) ==
  /\ r \notin live /\ k \in stored
  /\ live' = live \cup {r}
  /\ key' = [key EXCEPT ![r] = k] /\ home' = [home EXCEPT ![r] = k]
  /\ row' = [row EXCEPT ![r] = table[k]]
  /\ UNCHANGED <<database, dirty, unsaved, writer>>

\* resultset:shadow, a record that is not in the database, with no key given.
Shadow(r, image) ==
  /\ r \notin live
  /\ live' = live \cup {r}
  /\ row' = [row EXCEPT ![r] = image]
  /\ UNCHANGED <<database, key, dirty, home, unsaved, writer>>

\* Mutant of Assign: only a column that had no value is flagged.
AssignFlagsNewOnly(r, c, v) ==
  /\ r \in live
  /\ row' = [row EXCEPT ![r][c] = v]
  /\ dirty' = [dirty EXCEPT ![r] = IF row[r][c] = Nil THEN @ \cup {c} ELSE @]
  /\ unsaved' = [unsaved EXCEPT ![r] = @ \cup {c}]
  /\ UNCHANGED <<database, key, live, home, writer>>

\* __newindex.
Assign(r, c, v) ==
  /\ r \in live
  /\ row' = [row EXCEPT ![r][c] = v]
  /\ dirty' = [dirty EXCEPT ![r] = @ \cup {c}]
  /\ unsaved' = [unsaved EXCEPT ![r] = @ \cup {c}]
  /\ UNCHANGED <<database, key, live, home, writer>>

\* The same for the primary key, whose being dirty adds nothing to a statement.
Rekey(r, k) ==
  /\ Rekeys /\ r \in live
  /\ key' = [key EXCEPT ![r] = k]
  /\ UNCHANGED <<database, row, dirty, live, home, unsaved, writer>>

\* Mutant of Image: false reaches the database as it is.
ImageKeepsFalse(r) == row[r]

\* The columns INSERT is given, the others being NULL: not those that are false.
Image(r) == [c \in Columns |-> IF row[r][c] = False THEN Nil ELSE row[r][c]]

\* The key of a new row without one.
NextKeys == {k \in Keys : \A s \in stored : s < k}

\* Without last_insert_id the record does not learn its key, and stays dirty.
\* A duplicate key is an error of query, which leaves everything as it is.
Insert(r) ==
  /\ r \in live
  /\ \E told \in Reports : \E k \in IF key[r] = NoKey THEN {n \in NextKeys : \A m \in NextKeys : n <= m}
                                ELSE {key[r]} \ stored :
       /\ stored' = stored \cup {k}
       /\ table' = [table EXCEPT ![k] = Image(r)]
       /\ key' = IF told THEN [key EXCEPT ![r] = k] ELSE key
       /\ dirty' = IF told THEN [dirty EXCEPT ![r] = {}] ELSE dirty
       /\ home' = [home EXCEPT ![r] = k]
       /\ writer' = [writer EXCEPT ![k] = [c \in Columns |-> r]]
  /\ unsaved' = [unsaved EXCEPT ![r] = {}]
  /\ UNCHANGED <<row, live>>

\* Dirty columns that are nil are no fields of params.
Params(r) == {c \in dirty[r] : row[r][c] # Nil}

\* The statement of update: it names the key the record has now, and may find no
\* row.
Write(r) ==
  LET Over(old, new) == IF key[r] \notin stored THEN old
                        ELSE [old EXCEPT ![key[r]] = [c \in Columns |->
                               IF c \in Params(r) THEN new[c] ELSE @[c]]]
  IN /\ table' = Over(table, [c \in Columns |-> Translated(row[r][c])])
     /\ writer' = Over(writer, [c \in Columns |-> r])
     /\ unsaved' = IF key[r] = home[r] /\ key[r] \in stored
                   THEN [unsaved EXCEPT ![r] = {c \in @ : row[r][c] = Nil}] ELSE unsaved
     /\ UNCHANGED stored

\* Mutant of Update: _dirty is reset before the statement has succeeded.
UpdateClearsFirst(r) ==
  /\ r \in live /\ Params(r) # {}
  /\ dirty' = [dirty EXCEPT ![r] = {}]
  /\ \/ UNCHANGED <<database, unsaved, writer>>
     \/ Write(r)
  /\ UNCHANGED <<key, row, live, home>>

\* update() that returns.  self.dirty = {} does not touch self._dirty.  An update
\* of nothing but nil is a syntax error; one that raises leaves all as it is.
Update(r) ==
  /\ r \in live /\ Params(r) # {}
  /\ Write(r)
  /\ UNCHANGED <<key, row, dirty, live, home>>

Delete(r) ==
  /\ r \in live
  /\ stored' = stored \ {key[r]}
  /\ table' = [k \in Keys |-> IF k = key[r] THEN NoRow ELSE table[k]]
  /\ writer' = [k \in Keys |-> IF k = key[r] THEN NoWriter ELSE writer[k]]
  /\ UNCHANGED <<key, row, dirty, live, home, unsaved>>

\* What a record may be made of.
Images == {image \in [Columns -> Values \ {Zero}] :
             \A c \in Columns : image[c] \in Assignable[c] \cup {Nil}}

Next == \E r \in Records :
  \/ \E k \in Keys : Fetch(r, k) \/ Rekey(r, k)
  \/ \E image \in Images : Shadow(r, image)
  \/ \E c \in Columns : \E v \in Assignable[c] : Assign(r, c, v)
  \/ Insert(r) \/ Update(r) \/ Delete(r)

Spec == Init /\ [][Next]_vars

-----------------------------------------------------------------------------
TypeOK ==
  /\ stored \subseteq Keys /\ table \in [Keys -> [Columns -> Values \ {False}]]
  /\ key \in [Records -> Keys \cup {NoKey}] /\ row \in [Records -> [Columns -> Values]]
  /\ dirty \in [Records -> SUBSET Columns] /\ live \subseteq Records
  /\ home \in [Records -> Keys \cup {NoKey}]
  /\ unsaved \in [Records -> SUBSET Columns]
  /\ writer \in [Keys -> [Columns -> Records \cup {None}]]

\* The row of a record holds what the record holds, in the columns that the
\* record wrote last, once an insert or an update that reached the row has
\* followed their assignment, whatever happened to its key in between; but for a
\* column that is false, which INSERT leaves out, or nil, which UPDATE does
\* (dbix.lua:474-518).
Saved ==
  \A r \in Records : home[r] \in stored =>
    \A c \in Columns \ unsaved[r] :
      writer[home[r]][c] = r /\ row[r][c] # False =>
        table[home[r]][c] = Translated(row[r][c])

\* A column that was assigned stays flagged until a statement has written it to
\* the row of the record, however many of them raise or find no row before
\* (dbix.lua:465-466, 488-491, 505-510).
NothingForgotten == \A r \in Records : unsaved[r] \subseteq dirty[r]

\* A record overwrites what another has written only in columns that were
\* assigned since its own last update (dbix.lua:505-510).
NoLostUpdate ==
  [][\A k \in Keys, c \in Columns :
       LET w == writer'[k][c] IN
         w # writer[k][c] /\ k \in stored \cap stored' => c \in unsaved[w]]_vars
=============================================================================
