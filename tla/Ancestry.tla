------------------------------ MODULE Ancestry ------------------------------
(***************************************************************************)
(* The pure functions of sync/protocol.py on a context's version map: the  *)
(* parent each version id has, None for a root.                            *)
(***************************************************************************)
EXTENDS Naturals, FiniteSets

CONSTANT None

\* version_map.get(v)
ParentIn(map, v) == IF v \in DOMAIN map THEN map[v] ELSE None

\* Variant of is_ancestor: the descendant itself does not count.
is_proper_ancestor(candidate, descendant, map) ==
    LET Steps == 0 .. Cardinality(DOMAIN map)
        Walk[n \in Steps] ==
            IF n = 0 THEN descendant
            ELSE IF Walk[n - 1] = None THEN None ELSE ParentIn(map, Walk[n - 1])
    IN  \E n \in Steps \ {0} : Walk[n] = candidate

\* The walk from a descendant visits each id of the map at most once before
\* it ends at None or comes back to an id it has visited.
is_ancestor(candidate, descendant, map) ==
    LET Steps == 0 .. Cardinality(DOMAIN map)
        Walk[n \in Steps] ==
            IF n = 0 THEN descendant
            ELSE IF Walk[n - 1] = None THEN None ELSE ParentIn(map, Walk[n - 1])
    IN  \E n \in Steps : Walk[n] = candidate

detect_conflict(local, remote, map) ==
    ~is_ancestor(local, remote, map) /\ ~is_ancestor(remote, local, map)
=============================================================================
