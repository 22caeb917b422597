------------------------------ MODULE MCBackup ------------------------------
(* A small instance of Backup for TLC: requests are interchangeable.       *)
EXTENDS Backup, TLC

Symmetry == Permutations(Requests)
=============================================================================
