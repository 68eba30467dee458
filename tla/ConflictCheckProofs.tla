------------------------- MODULE ConflictCheckProofs -------------------------
(***************************************************************************)
(* detect_conflict is right on every version map, of any size and shape.   *)
(***************************************************************************)
EXTENDS ConflictCheck, AncestryProofs

-----------------------------------------------------------------------------
(* The inductive invariant: what has been visited is exactly what the      *)
(* start must reach, and the candidate is not among it.                    *)

\* Whatever is visited, and the version to visit next, is reached from the
\* start of the walk.
VisitedReached ==
    phase # "done" => \A v \in visited \cup ({current} \ {None}) : Reaches(Start, v)

\* The visited versions miss only the current one to be closed under parents.
VisitedClosed ==
    phase # "done" =>
        /\ \A v \in visited : map[v] # None => map[v] \in visited \cup {current}
        /\ Start \in visited \cup {current}

CandidateUnseen == phase # "done" => Candidate \notin visited

\* The second walk begins only when the first has shown its half.
FirstHalf == phase = "local_chain" => ~Reaches(remote, local)

IInv ==
    /\ TypeOK
    /\ VisitedReached
    /\ VisitedClosed
    /\ CandidateUnseen
    /\ FirstHalf
    /\ ConflictMeansUnrelated

-----------------------------------------------------------------------------
(* Facts about Reaches. *)

\* Every version reaches itself.
LEMMA ReachesItself == \A v \in Ids : Reaches(v, v)
  BY DEF Reaches

\* What reaches a version reaches its parent.
LEMMA ReachesParent ==
  ASSUME NEW d, NEW v \in Ids, Reaches(d, v), map[v] # None
  PROVE  Reaches(d, map[v])
  BY DEF Reaches, ClosedUnderParents

\* A walk that has ended without meeting the candidate has shown that the
\* start does not reach it: what it visited is the set to prove it.
LEMMA WalkEnded ==
  ASSUME IInv, phase # "done", current = None \/ current \in visited
  PROVE  ~Reaches(Start, Candidate)
<1>1. Start \in Ids
  BY DEF IInv, TypeOK, Start
<1>2. ClosedUnderParents(visited) /\ Start \in visited
  BY <1>1, IdsAssumption DEF IInv, TypeOK, VisitedClosed, ClosedUnderParents
<1>3. Candidate \notin visited /\ visited \in SUBSET Ids
  BY DEF IInv, TypeOK, CandidateUnseen
<1> QED
  BY <1>2, <1>3 DEF Reaches

-----------------------------------------------------------------------------

\* Before its first walk the check satisfies the invariant.
THEOREM InitIInv == Init => IInv
<1> SUFFICES ASSUME Init PROVE IInv
  OBVIOUS
<1>1. TypeOK
  BY DEF Init, TypeOK
<1>2. Reaches(remote, remote)
  BY ReachesItself DEF Init
<1> QED
  BY <1>1, <1>2 DEF Init, IInv, VisitedReached, VisitedClosed, CandidateUnseen,
                    FirstHalf, ConflictMeansUnrelated, Start, Candidate

\* No turn of the two loops of detect_conflict breaks the invariant.
THEOREM NextIInv == IInv /\ [Next]_vars => IInv'
<1> SUFFICES ASSUME IInv, [Next]_vars PROVE IInv'
  OBVIOUS
<1>1. CASE Advance
  <2>1. current \in Ids /\ Reaches(Start, current) /\ phase # "done"
    BY <1>1 DEF IInv, TypeOK, VisitedReached, Advance, Walking
  <2>2. TypeOK' /\ current' = map[current]
    BY <1>1, <2>1 DEF IInv, TypeOK, Advance, ParentIn
  <2>3. \A d, a : Reaches(d, a)' <=> Reaches(d, a)
    BY <1>1 DEF Advance, Reaches, ClosedUnderParents
  <2>4. Start' = Start /\ Candidate' = Candidate
    BY <1>1 DEF Advance, Start, Candidate
  <2>5. map[current] # None => Reaches(Start, map[current])
    BY <2>1, ReachesParent
  <2>6. VisitedReached'
    <3>1. \A v \in visited \cup {current} : Reaches(Start, v)
      BY <2>1 DEF IInv, VisitedReached
    <3> QED
      BY <1>1, <2>2, <2>3, <2>4, <2>5, <3>1 DEF Advance, VisitedReached
  <2>7. VisitedClosed'
    BY <1>1, <2>1, <2>2, <2>4 DEF IInv, TypeOK, VisitedClosed, Advance
  <2>8. CandidateUnseen'
    BY <1>1, <2>1, <2>4 DEF IInv, CandidateUnseen, Advance
  <2>9. FirstHalf' /\ ConflictMeansUnrelated'
    BY <1>1, <2>1, <2>3 DEF IInv, FirstHalf, ConflictMeansUnrelated, Advance
  <2> QED
    BY <2>2, <2>6, <2>7, <2>8, <2>9 DEF IInv
<1>2. CASE Found
  <2>1. TypeOK' /\ phase' = "done" /\ ~conflict'
    BY <1>2 DEF IInv, TypeOK, Found
  <2>2. Reaches(Start, Candidate)
    BY <1>2 DEF IInv, TypeOK, VisitedReached, Found, Walking
  <2>3. Reaches(remote, local) \/ Reaches(local, remote)
    BY <2>2 DEF Start, Candidate
  <2>4. \A d, a : Reaches(d, a)' <=> Reaches(d, a)
    BY <1>2 DEF Found, Reaches, ClosedUnderParents
  <2> QED
    BY <1>2, <2>1, <2>3, <2>4 DEF IInv, VisitedReached, VisitedClosed,
        CandidateUnseen, FirstHalf, ConflictMeansUnrelated, Found
<1>3. CASE Exhausted
  <2>1. ~Reaches(Start, Candidate)
    BY <1>3, WalkEnded DEF Exhausted
  <2>2. \A d, a : Reaches(d, a)' <=> Reaches(d, a)
    BY <1>3 DEF Exhausted, Reaches, ClosedUnderParents
  <2>3. CASE phase = "remote_chain"
    <3>1. /\ TypeOK' /\ phase' = "local_chain"
          /\ current' = local /\ visited' = {}
          /\ local' = local /\ remote' = remote
      BY <1>3, <2>3 DEF IInv, TypeOK, Exhausted
    <3>2. ~Reaches(remote, local)'
      BY <2>1, <2>2, <2>3, <3>1 DEF Start, Candidate
    <3>3. Reaches(local, local)'
      BY DEF Reaches
    <3> QED
      BY <3>1, <3>2, <3>3 DEF IInv, VisitedReached, VisitedClosed,
        CandidateUnseen, FirstHalf, ConflictMeansUnrelated, Start, Candidate
  <2>4. CASE phase = "local_chain"
    <3>1. TypeOK' /\ phase' = "done" /\ conflict'
      BY <1>3, <2>4 DEF IInv, TypeOK, Exhausted
    <3>2. ~Reaches(local, remote) /\ ~Reaches(remote, local)
      BY <2>1, <2>4 DEF IInv, FirstHalf, Start, Candidate
    <3> QED
      BY <1>3, <2>2, <3>1, <3>2 DEF IInv, VisitedReached, VisitedClosed,
        CandidateUnseen, FirstHalf, ConflictMeansUnrelated, Exhausted
  <2> QED
    BY <1>3, <2>3, <2>4 DEF IInv, TypeOK, Exhausted
<1>4. CASE UNCHANGED vars
  BY <1>4 DEF vars, IInv, TypeOK, VisitedReached, VisitedClosed, CandidateUnseen,
              FirstHalf, ConflictMeansUnrelated, Start, Candidate, Reaches,
              ClosedUnderParents
<1> QED
  BY <1>1, <1>2, <1>3, <1>4 DEF Next

-----------------------------------------------------------------------------

\* The answer of detect_conflict is the definition's, for every map.
THEOREM AnswerCorrect == Spec => []ConflictMeansUnrelated
<1>1. IInv => ConflictMeansUnrelated
  BY DEF IInv
<1> QED
  BY <1>1, InitIInv, NextIInv, PTL DEF Spec

\* is_ancestor tells what a version reaches.
LEMMA AncestorIsReached ==
  ASSUME TypeOK, NEW d \in Ids, NEW a \in Ids
  PROVE  is_ancestor(a, d, map) <=> Reaches(d, a)
<1>1. /\ map \in [Ids -> Ids \cup {None}] /\ DOMAIN map = Ids
      /\ None \notin Ids /\ IsFiniteSet(Ids)
  BY IdsAssumption DEF TypeOK
<1>2. ASSUME is_ancestor(a, d, map), NEW S \in SUBSET Ids,
             ClosedUnderParents(S), d \in S
      PROVE  a \in S
  <2>1. \A v \in S : ParentIn(map, v) # None => ParentIn(map, v) \in S
    BY <1>1, <1>2 DEF ParentIn, ClosedUnderParents
  <2>2. a # None
    BY <1>1
  <2> QED BY <1>1, <1>2, <2>1, <2>2, AncestorInClosed
<1>3. ASSUME Reaches(d, a)
      PROVE  is_ancestor(a, d, map)
  <2>1. \A S \in SUBSET Ids :
            d \in S /\ (\A v \in S : map[v] # None => map[v] \in S) => a \in S
    BY <1>3 DEF Reaches, ClosedUnderParents
  <2> QED BY <1>1, <2>1, ClosedIsAncestor
<1> QED BY <1>2, <1>3 DEF Reaches

\* The loops of detect_conflict answer as the function does that the sync
\* engine is modelled with.
THEOREM LoopIsFunction == Spec => []AnswerIsDetectConflict
<1>1. IInv => AnswerIsDetectConflict
  <2> SUFFICES ASSUME IInv, phase = "done"
               PROVE  conflict <=> detect_conflict(local, remote, map)
    BY DEF AnswerIsDetectConflict
  <2>1. TypeOK /\ local \in Ids /\ remote \in Ids
    BY DEF IInv, TypeOK
  <2>2. conflict <=> ~Reaches(remote, local) /\ ~Reaches(local, remote)
    BY DEF IInv, ConflictMeansUnrelated
  <2>3. /\ is_ancestor(local, remote, map) <=> Reaches(remote, local)
        /\ is_ancestor(remote, local, map) <=> Reaches(local, remote)
    BY <2>1, AncestorIsReached
  <2> QED BY <2>2, <2>3 DEF detect_conflict
<1> QED
  BY <1>1, InitIInv, NextIInv, PTL DEF Spec

\* The variables keep their types.
THEOREM TypeCorrect == Spec => []TypeOK
<1>1. IInv => TypeOK
  BY DEF IInv
<1> QED
  BY <1>1, InitIInv, NextIInv, PTL DEF Spec
=============================================================================
