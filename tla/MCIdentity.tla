------------------------------ MODULE MCIdentity ------------------------------
(* Instances of Identity for TLC. *)
EXTENDS Identity, TLC

Interchangeable == Permutations(Procs) \cup Permutations(Accounts)
=============================================================================
