------------------------------ MODULE MCLedger ------------------------------
(***************************************************************************)
(* Instances of Ledger for TLC: an allowance of two cents, and amounts     *)
(* below, at and between whole cents.                                      *)
(***************************************************************************)
EXTENDS Ledger, TLC

Interchangeable ==
    Permutations(Requests) \cup Permutations(Keys) \cup Permutations(Identities)
=============================================================================
