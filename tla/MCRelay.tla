------------------------------- MODULE MCRelay -------------------------------
(* Instances of Relay for TLC. *)
EXTENDS Relay, TLC

Interchangeable ==
    Permutations(Devices) \cup Permutations(Groups) \cup Permutations(Conns)
=============================================================================
