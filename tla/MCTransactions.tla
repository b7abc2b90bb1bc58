---------------------------- MODULE MCTransactions ----------------------------
(* Small instances of Transactions for TLC. *)
EXTENDS Transactions
=============================================================================
