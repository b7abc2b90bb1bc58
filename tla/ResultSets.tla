----------------------------- MODULE ResultSets -----------------------------
(***************************************************************************)
(* The iteration of a result set with prefetched relationships             *)
(* (src/wtk/dbix.lua: prefetch, each, each_iteration,                      *)
(* each_multirow_iteration, offset_of_prefetch, merge_results, all, take   *)
(* and first): the flat rows of one joined statement become records that   *)
(* hold their related records.  A row is a sequence of columns, where the  *)
(* merging counts in it.                                                   *)
(*                                                                         *)
(* The database is external: it joins, and chooses the order of the rows   *)
(* as far as the statement leaves it open.  Tables have a primary key and  *)
(* no inflate.                                                             *)
(***************************************************************************)
EXTENDS Naturals, Sequences, FiniteSets, Positions

CONSTANTS
  Mains,       \* the primary keys of the table that is searched, numbers
  Others,      \* those of the tables that are prefetched
  Prefetches,  \* the lists of relationships that are prefetched
  Counts,      \* what take is called with; first is take(1)
  Faults       \* bound: fetches that fail, and answer nil like the end

Null == 0          \* a column without a value, which is nil in Lua
Nothing == <<>>    \* no row, and a related record that is nil
All == 0           \* no count
Width == 2         \* #columns of each table: the primary key, and another that,
                   \* to be recognised, has the same value

Single == {"belongs_to", "might_belong", "has_one"}

\* The lists for which the code keeps what it promises.  Two has_many give every
\* record of one once for each of the other, and a might_belong is taken for
\* there if the first column after its own is (dbix.lua:353, 375).
Sound(list) ==
  /\ \A i, j \in DOMAIN list : list[i] = "has_many" /\ list[j] = "has_many" => i = j
  /\ \A i \in DOMAIN list : list[i] = "might_belong" => i = Len(list)

ASSUME KeysAssumption ==
  /\ IsFiniteSet(Mains) /\ IsFiniteSet(Others)
  /\ Mains \cup Others \subseteq Nat \ {Null}
ASSUME PrefetchAssumption ==
  /\ Prefetches \subseteq Seq(Single \cup {"has_many"})
  /\ \A list \in Prefetches : Sound(list)
ASSUME CountsAssumption == Counts \subseteq Nat \ {0}
ASSUME FaultsAssumption == Faults \in Nat

VARIABLES
  prefetch,  \* rs._prefetch
  related,   \* of a position in it and a primary key: the keys of the related records
  left,      \* the rows the statement has still to give
  want,      \* how many records the caller takes
  pc,        \* "call" the iterator, "fetch" in it, "done"
  results,   \* the rows of the record that is being put together
  last,      \* a.last_result
  given,     \* the records the caller has got
  failed     \* how many fetches have failed

vars == <<prefetch, related, left, want, pc, results, last, given, failed>>
query == <<prefetch, related, want>>

Prefetched == DOMAIN prefetch
VariableRowCount == \E i \in Prefetched : prefetch[i] = "has_many"
Key(row) == row[1]

-----------------------------------------------------------------------------
\* To which records those of the table can be related: the foreign keys hold, and
\* a record belongs to one record of the other table.
Relations(type) ==
  {of \in [Mains -> SUBSET Others] :
    /\ type \in {"belongs_to", "has_one"} => \A k \in Mains : Cardinality(of[k]) = 1
    /\ type = "might_belong" => \A k \in Mains : Cardinality(of[k]) <= 1
    /\ type \in {"has_one", "has_many"} =>
         \A k, l \in Mains : k # l => of[k] \cap of[l] = {}}

\* One row for each choice of related records; LEFT JOIN gives NULLs for none.
Joined(k) ==
  LET Choices == {c \in [Prefetched -> Others \cup {Null}] : \A i \in Prefetched :
                    c[i] \in (IF related[i][k] = {} THEN {Null} ELSE related[i][k])}
      Joins(c, j) == LET i == (j - 1) \div Width IN IF i = 0 THEN k ELSE c[i]
  IN {[j \in 1..(Width * (1 + Len(prefetch))) |-> Joins(c, j)] : c \in Choices}

Rows == UNION {Joined(k) : k \in Mains}

Init ==
  /\ prefetch \in Prefetches
  /\ related \in [DOMAIN prefetch -> UNION {Relations(prefetch[i]) : i \in DOMAIN prefetch}]
  /\ \A i \in DOMAIN prefetch : related[i] \in Relations(prefetch[i])
  /\ left = Rows
  /\ want \in Counts \cup {All}
  /\ pc = "call" /\ results = <<>> /\ last = Nothing /\ given = <<>> /\ failed = 0

-----------------------------------------------------------------------------
\* Mutant of Offset: the columns of the table itself are not counted.
OffsetInPrefetch(i) == 1 + Width * (i - 1)

\* offset_of_prefetch.
Offset(i) == 1 + Width + Width * (i - 1)

\* Beyond its last column a row is nil.
Column(row, j) == IF j \in DOMAIN row THEN row[j] ELSE Null
Values(row, i, n) == [c \in 1..n |-> Column(row, Offset(i) + c - 1)]
IsNil(values) == \A c \in DOMAIN values : values[c] = Null

\* A might_belong of NULLs is nil.  One column too many is read.
One(row, i) ==
  LET values == Values(row, i, Width + 1)
  IN IF prefetch[i] = "might_belong" /\ IsNil(values) THEN Nothing ELSE values

\* ipairs ends at the first row without one; only neighbours are compared.
Many(rows, i) ==
  LET There(n) == ~IsNil(Values(rows[n], i, Width))
      Whole == {n \in DOMAIN rows : \A p \in 1..n : There(p)}
      New == {n \in Whole : n = 1 \/ Values(rows[n - 1], i, Width)[1]
                                       # Values(rows[n], i, Width)[1]}
  IN [s \in 1..Cardinality(New) |-> Values(rows[Kth(New, s)], i, Width)]

\* merge_results of at least one row.
Merged(rows) ==
  [key |-> Key(rows[1]),
   parts |-> [i \in Prefetched |-> IF prefetch[i] = "has_many" THEN Many(rows, i)
                                  ELSE One(rows[1], i)]]

-----------------------------------------------------------------------------
\* take(n) without has_many is LIMIT n, and with it a loop that breaks.
Enough == want # All /\ Len(given) >= want
Ended == left = {} \/ (~VariableRowCount /\ Enough)

\* The database's choice of the next row: prefetch orders by the primary key for
\* the sake of has_many.
Candidates == IF VariableRowCount
              THEN {r \in left : \A s \in left : Key(r) <= Key(s)} ELSE left

Give(rows) == given' = Append(given, Merged(rows))

\* The caller's loop: the iterator is called, starting with the row that it read
\* too many, or the loop is left.
Call ==
  /\ pc = "call"
  /\ IF VariableRowCount /\ Enough
     THEN pc' = "done" /\ UNCHANGED results
     ELSE pc' = "fetch" /\ results' = IF last # Nothing THEN <<last>> ELSE <<>>
  /\ UNCHANGED <<query, left, last, given, failed>>

\* each_iteration.
FetchSingle ==
  /\ pc = "fetch" /\ ~VariableRowCount /\ ~Ended
  /\ \E row \in Candidates : left' = left \ {row} /\ Give(<<row>>)
  /\ pc' = "call"
  /\ UNCHANGED <<query, results, last, failed>>

\* Mutant of FetchOther: the row that was read too many is dropped.
FetchOtherDropped ==
  /\ pc = "fetch" /\ VariableRowCount
  /\ \E row \in Candidates :
       /\ results # <<>> /\ Key(results[1]) # Key(row)
       /\ left' = left \ {row} /\ last' = Nothing
  /\ Give(results) /\ pc' = "call"
  /\ UNCHANGED <<query, results, failed>>

\* Mutant of FetchSame: primary keys are not compared.
FetchSameAny ==
  /\ pc = "fetch" /\ VariableRowCount
  /\ \E row \in Candidates :
       /\ left' = left \ {row} /\ results' = Append(results, row)
  /\ UNCHANGED <<query, pc, last, given, failed>>

\* each_multirow_iteration reads a row of the same record, and goes on ...
FetchSame ==
  /\ pc = "fetch" /\ VariableRowCount
  /\ \E row \in Candidates :
       /\ results # <<>> => Key(results[1]) = Key(row)
       /\ left' = left \ {row} /\ results' = Append(results, row)
  /\ UNCHANGED <<query, pc, last, given, failed>>

\* ... or the first of the next one, which is kept for the next call.
FetchOther ==
  /\ pc = "fetch" /\ VariableRowCount
  /\ \E row \in Candidates :
       /\ results # <<>> /\ Key(results[1]) # Key(row)
       /\ left' = left \ {row} /\ last' = row
  /\ Give(results) /\ pc' = "call"
  /\ UNCHANGED <<query, results, failed>>

\* fetch answers nil: what has been read is the last record, and one more call
\* finds nothing.
Over ==
  /\ last' = Nothing
  /\ IF results # <<>> THEN Give(results) /\ pc' = "call"
     ELSE UNCHANGED given /\ pc' = "done"
  /\ UNCHANGED <<query, results>>

FetchEnd == pc = "fetch" /\ Ended /\ Over /\ UNCHANGED <<left, failed>>

\* The error that fetch answers with nil is not looked at.  The next fetch goes on
\* (MySQL), or runs the statement again (sqlite3_step after an error).
FetchFails ==
  /\ pc = "fetch" /\ failed < Faults
  /\ failed' = failed + 1 /\ left' \in {left, Rows}
  /\ Over

Next == Call \/ FetchSingle \/ FetchSame \/ FetchOther \/ FetchEnd \/ FetchFails

Spec == Init /\ [][Next]_vars

-----------------------------------------------------------------------------
Row == [1..(Width * (1 + Len(prefetch))) -> Mains \cup Others \cup {Null}]

TypeOK ==
  /\ prefetch \in Prefetches
  /\ related \in [Prefetched -> [Mains -> SUBSET Others]]
  /\ left \subseteq Row
  /\ want \in Counts \cup {All}
  /\ pc \in {"call", "fetch", "done"}
  /\ results \in Seq(Row) /\ last \in Row \cup {Nothing}
  /\ \A n \in DOMAIN results : Key(results[n]) = Key(results[1])
  /\ \A n \in DOMAIN given : given[n].key \in Mains
  /\ failed \in 0..Faults

\* A part of a record is a record that is related to it, with its own columns:
\* nil only for a might_belong that is not there, none of its has_many twice, and
\* none of the next record's, even when fetches fail (dbix.lua:303-386).
OwnParts ==
  \A n \in DOMAIN given : \A i \in Prefetched :
    LET part == given[n].parts[i]
        mine == related[i][given[n].key]
    IN IF prefetch[i] \in Single
       THEN IF mine = {} THEN part = Nothing
            ELSE part # Nothing /\ part[1] \in mine /\ part[2] = part[1]
       ELSE /\ \A s \in DOMAIN part : part[s][1] \in mine /\ part[s][2] = part[s][1]
            /\ \A s, t \in DOMAIN part : part[s] = part[t] => s = t

\* As long as no fetch fails, every record is given once, with all the records of
\* its has_many; the one whose rows are still being read when the caller has had
\* enough excepted, take(n) gives n or all there are (dbix.lua:303-326, 393-425).
EachWholeOnce ==
  failed = 0 =>
    /\ \A n, p \in DOMAIN given : given[n].key = given[p].key => n = p
    /\ \A n \in DOMAIN given : \A i \in Prefetched : prefetch[i] = "has_many" =>
         Len(given[n].parts[i]) = Cardinality(related[i][given[n].key])
    /\ pc = "done" => LET all == Cardinality(Mains) IN
         Len(given) = IF want = All \/ want > all THEN all ELSE want
=============================================================================
