---------------------------- MODULE ConflictCheck ----------------------------
(***************************************************************************)
(* detect_conflict as it runs: is_ancestor's loop walks up the parents of  *)
(* the remote version looking for the local one, and if that fails, up the *)
(* parents of the local version looking for the remote one.                *)
(***************************************************************************)
EXTENDS Ancestry

CONSTANT Ids    \* version ids

\* A version map is a dict, so it is finite.
ASSUME IdsAssumption == None \notin Ids /\ IsFiniteSet(Ids)

VARIABLES
    local, remote,  \* the two versions compared
    map,            \* version_map
    phase,          \* whose parents are walked, or "done"
    current,        \* is_ancestor's current and visited
    visited,
    conflict        \* the answer, once there is one

vars == <<local, remote, map, phase, current, visited, conflict>>

TypeOK ==
    /\ local \in Ids /\ remote \in Ids
    /\ map \in [Ids -> Ids \cup {None}]
    /\ phase \in {"remote_chain", "local_chain", "done"}
    /\ current \in Ids \cup {None}
    /\ visited \subseteq Ids
    /\ conflict \in BOOLEAN

\* An id the map lacks and an id whose parent is None look the same to the
\* walk, so every map is given as a total one.
Init ==
    /\ local \in Ids /\ remote \in Ids
    /\ map \in [Ids -> Ids \cup {None}]
    /\ phase = "remote_chain"
    /\ current = remote
    /\ visited = {}
    /\ conflict = FALSE

Start == IF phase = "remote_chain" THEN remote ELSE local
Candidate == IF phase = "remote_chain" THEN local ELSE remote

Walking == phase # "done" /\ current # None /\ current \notin visited

\* Variant of Advance: visited is not kept up.
AdvanceUnmarked ==
    /\ Walking /\ current # Candidate
    /\ current' = ParentIn(map, current)
    /\ UNCHANGED <<local, remote, map, phase, visited, conflict>>

Advance ==
    /\ Walking /\ current # Candidate
    /\ visited' = visited \cup {current}
    /\ current' = ParentIn(map, current)
    /\ UNCHANGED <<local, remote, map, phase, conflict>>

Found ==
    /\ Walking /\ current = Candidate
    /\ phase' = "done" /\ conflict' = FALSE
    /\ UNCHANGED <<local, remote, map, current, visited>>

\* Variant of Exhausted: only one direction is tried.
ExhaustedOnce ==
    /\ phase # "done" /\ (current = None \/ current \in visited)
    /\ phase' = "done" /\ conflict' = TRUE
    /\ UNCHANGED <<local, remote, map, current, visited>>

\* The walk ended at a root, or the cycle guard broke it off.
Exhausted ==
    /\ phase # "done" /\ (current = None \/ current \in visited)
    /\ IF phase = "remote_chain"
       THEN /\ phase' = "local_chain" /\ current' = local /\ visited' = {}
            /\ UNCHANGED conflict
       ELSE /\ phase' = "done" /\ conflict' = TRUE
            /\ UNCHANGED <<current, visited>>
    /\ UNCHANGED <<local, remote, map>>

Next == Advance \/ Found \/ Exhausted

Spec == Init /\ [][Next]_vars
\* A function call runs to its end.
FairSpec == Spec /\ WF_vars(Next)

-----------------------------------------------------------------------------
(* Properties. *)

\* a is d or an ancestor of d: it is in every set of versions that has d and,
\* with a version, its parent.
ClosedUnderParents(S) == \A v \in S : map[v] # None => map[v] \in S
Reaches(d, a) ==
    \A S \in SUBSET Ids : ClosedUnderParents(S) /\ d \in S => a \in S

\* A conflict is reported exactly when neither version is the other or an
\* ancestor of it, on any map, one with a cycle included.
ConflictMeansUnrelated ==
    phase = "done" =>
        (conflict <=> ~Reaches(remote, local) /\ ~Reaches(local, remote))

\* The loop and the function the other modules use agree.
AnswerIsDetectConflict ==
    phase = "done" => (conflict <=> detect_conflict(local, remote, map))

\* The walk ends, on a map with a cycle too.
VerdictReached == <>(phase = "done")
=============================================================================
