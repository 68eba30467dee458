---------------------------- MODULE MCTrustStore ----------------------------
(* Instances of TrustStore for TLC. *)
EXTENDS TrustStore, TLC

Interchangeable == Permutations(Threads)
=============================================================================
