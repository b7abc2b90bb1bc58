------------------------------- MODULE MCRecords -------------------------------
(* Small instances of Records for TLC. *)
EXTENDS Records, TLC

CONSTANTS a, b

Symmetry == Permutations(Records)

\* A column with a text, which may be NULL, and a boolean one.
TextAndFlag == a :> {"x", "y"} @@ b :> {"false"}

\* Two columns with texts.
Texts == a :> {"x", "y"} @@ b :> {"x", "y"}
=============================================================================
