----------------------------- MODULE MCBootstrap -----------------------------
(* Instances of Bootstrap for TLC. *)
EXTENDS Bootstrap, TLC

Interchangeable == Permutations(Pids) \cup Permutations(Cmds)
=============================================================================
