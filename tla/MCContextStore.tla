--------------------------- MODULE MCContextStore ---------------------------
(* Instances of ContextStore for TLC. *)
EXTENDS ContextStoreHistory, TLC

CONSTANTS t1, t2, c1, c2, v1, v2, v3, g1, g2, g3, unlabelled, named

\* Every version has a tag of its own.
TagDistinct ==
    [v \in Versions |-> CASE v = v1 -> g1 [] v = v2 -> g2 [] OTHER -> g3]
\* The first 8 hex digits of two version ids agree.
TagClash == [v \in Versions |-> IF v \in {v1, v2} THEN g1 ELSE g3]

Interchangeable ==
    Permutations(Threads) \cup Permutations(Contexts) \cup Permutations(Versions)
=============================================================================
