--------------------------- MODULE MCTransactions ---------------------------
(* Instances of Transactions for TLC: two request tasks, and a task that one *)
(* of them creates inside a transaction.                                     *)
EXTENDS Transactions

CONSTANTS a, b, helper

MCMaxUses == [t \in Tasks |-> IF t = a THEN 2 ELSE 1]
MCParent == [child \in Children |-> a]
=============================================================================
