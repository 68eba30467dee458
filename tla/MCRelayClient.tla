---------------------------- MODULE MCRelayClient ----------------------------
(* Instances of RelayClient for TLC. *)
EXTENDS RelayClient, TLC

Interchangeable ==
    Permutations(Devices) \cup Permutations(Groups) \cup Permutations(Conns)
=============================================================================
