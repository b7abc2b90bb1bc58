---------------------------- MODULE MCResultSets ----------------------------
(* Small instances of ResultSets for TLC. *)
EXTENDS ResultSets

\* Nothing prefetched, each relationship alone, and lists of two and of three.
Lists == {
  <<>>, <<"belongs_to">>, <<"has_one">>, <<"might_belong">>, <<"has_many">>,
  <<"belongs_to", "might_belong">>, <<"has_many", "might_belong">>,
  <<"belongs_to", "has_many">>, <<"has_one", "has_one", "has_many">>}
=============================================================================
