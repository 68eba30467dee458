--------------------------- MODULE AncestryProofs ---------------------------
(***************************************************************************)
(* What is_ancestor computes, on any finite version map: the versions that *)
(* each set closed under parents has, if it has the descendant.            *)
(***************************************************************************)
EXTENDS Ancestry, Integers, FiniteSetTheorems, WellFoundedInduction, TLAPS

-----------------------------------------------------------------------------
(* Least elements, for arguments by a least counterexample. *)

Less == {p \in Nat \X Nat : p[1] < p[2]}

\* A nonempty set of naturals has a least element.
LEMMA LeastElement ==
  ASSUME NEW S \in SUBSET Nat, S # {}
  PROVE  \E n \in S : \A m \in S : n <= m
<1>1. IsWellFoundedOn(Less, Nat)
  <2>1. OpToRel(<, Nat) = Less
    BY DEF OpToRel, Less
  <2> QED BY <2>1, NatLessThanWellFounded
<1>2. PICK n \in S : \A m \in S : ~(<<m, n>> \in Less)
  BY <1>1, WFMin
<1>3. ASSUME NEW m \in S
      PROVE  n <= m
  <2>1. m \in Nat /\ n \in Nat /\ <<m, n>> \notin Less
    BY <1>2
  <2> QED BY <2>1 DEF Less
<1> QED BY <1>3

\* A set that has 0 and, with a number below k, the next one, has all up to k.
LEMMA UpTo ==
  ASSUME NEW k \in Nat, NEW S, 0 \in S, \A n \in 0 .. k - 1 : n \in S => n + 1 \in S
  PROVE  0 .. k \subseteq S
<1> DEFINE Bad == (0 .. k) \ S
<1> SUFFICES ASSUME Bad # {}
             PROVE  FALSE
  OBVIOUS
<1>1. PICK n \in Bad : \A m \in Bad : n <= m
  <2>1. Bad \in SUBSET Nat
    OBVIOUS
  <2> HIDE DEF Bad
  <2> QED BY <2>1, LeastElement
<1>2. n \in 0 .. k /\ n \notin S /\ n # 0
  OBVIOUS
<1>3. n - 1 \in 0 .. k - 1 /\ ~(n <= n - 1) /\ n - 1 + 1 = n
  BY <1>2
<1>4. n - 1 \in S
  BY <1>1, <1>3
<1> QED BY <1>2, <1>3, <1>4

-----------------------------------------------------------------------------
(* The walk. *)

\* current = version_map.get(current), None being the end.
Up(v, map) == IF v = None THEN None ELSE ParentIn(map, v)
Walks(W, d, map, k) ==
    /\ W = [n \in 0 .. k |-> W[n]]
    /\ W[0] = d
    /\ \A n \in 1 .. k : W[n] = Up(W[n - 1], map)

\* Each version of a walk has the next one for its parent.
LEMMA WalkStep ==
  ASSUME NEW map, NEW d, NEW k \in Nat, NEW W, Walks(W, d, map, k)
  PROVE  \A n \in 0 .. k - 1 : W[n + 1] = Up(W[n], map)
<1> TAKE n \in 0 .. k - 1
<1>1. PICK m \in 1 .. k : m = n + 1 /\ m - 1 = n
  OBVIOUS
<1>2. W[m] = Up(W[m - 1], map)
  BY DEF Walks
<1> QED BY <1>1, <1>2

\* There is a walk of any length.
LEMMA WalkExists ==
  ASSUME NEW map, NEW d, NEW k \in Nat
  PROVE  \E W : Walks(W, d, map, k)
<1> DEFINE Some == {n \in Nat : \E W : Walks(W, d, map, n)}
<1>1. 0 \in Some
  <2> DEFINE W == [n \in 0 .. 0 |-> d]
  <2>1. Walks(W, d, map, 0)
    BY DEF Walks
  <2> QED BY <2>1
<1>2. ASSUME NEW n \in 0 .. k - 1, n \in Some
      PROVE  n + 1 \in Some
  <2>1. PICK W : Walks(W, d, map, n)
    BY <1>2
  <2> DEFINE V == [m \in 0 .. n + 1 |-> IF m = n + 1 THEN Up(W[n], map) ELSE W[m]]
  <2>2. V[0] = d /\ V = [m \in 0 .. n + 1 |-> V[m]]
    BY <2>1 DEF Walks
  <2>3. ASSUME NEW m \in 1 .. n + 1
        PROVE  V[m] = Up(V[m - 1], map)
    <3>1. m - 1 \in 0 .. n /\ V[m - 1] = W[m - 1]
      OBVIOUS
    <3>2. CASE m = n + 1
      BY <3>1, <3>2
    <3>3. CASE m # n + 1
      <4>1. m \in 1 .. n /\ V[m] = W[m]
        BY <3>3
      <4> QED BY <2>1, <3>1, <4>1 DEF Walks
    <3> QED BY <3>2, <3>3
  <2> HIDE DEF V
  <2>4. Walks(V, d, map, n + 1)
    BY <2>2, <2>3 DEF Walks
  <2> QED BY <2>4
<1> HIDE DEF Some
<1>3. 0 .. k \subseteq Some
  BY <1>1, <1>2, UpTo
<1> QED BY <1>3 DEF Some

\* is_ancestor is about a walk over as many steps as the map has entries.
LEMMA AncestorByWalk ==
  ASSUME NEW map, NEW d, Cardinality(DOMAIN map) \in Nat
  PROVE  \E W : /\ Walks(W, d, map, Cardinality(DOMAIN map))
                /\ \A a : is_ancestor(a, d, map) <=>
                        \E n \in 0 .. Cardinality(DOMAIN map) : W[n] = a
<1> DEFINE k == Cardinality(DOMAIN map)
           Steps == 0 .. k
           Walk[n \in Steps] ==
               IF n = 0 THEN d
               ELSE IF Walk[n - 1] = None THEN None ELSE ParentIn(map, Walk[n - 1])
<1>1. PICK W : Walks(W, d, map, k)
  BY WalkExists
<1>2. W = [n \in Steps |->
            IF n = 0 THEN d ELSE IF W[n - 1] = None THEN None ELSE ParentIn(map, W[n - 1])]
  <2>1. ASSUME NEW n \in Steps
        PROVE  W[n] = IF n = 0 THEN d
                      ELSE IF W[n - 1] = None THEN None ELSE ParentIn(map, W[n - 1])
    <3>1. n = 0 \/ n \in 1 .. k
      OBVIOUS
    <3> QED BY <1>1, <3>1 DEF Walks, Up
  <2> QED BY <1>1, <2>1 DEF Walks
<1>3. Walk = [n \in Steps |->
            IF n = 0 THEN d
            ELSE IF Walk[n - 1] = None THEN None ELSE ParentIn(map, Walk[n - 1])]
  BY <1>2
<1>4. \A a : is_ancestor(a, d, map) <=> \E n \in Steps : Walk[n] = a
  BY DEF is_ancestor
<1> HIDE DEF Walk
<1>5. Walks(Walk, d, map, k)
  <2>1. \A n \in Steps : Walk[n] =
            IF n = 0 THEN d
            ELSE IF Walk[n - 1] = None THEN None ELSE ParentIn(map, Walk[n - 1])
    BY <1>3
  <2>2. Walk = [n \in Steps |-> Walk[n]]
    BY <1>3
  <2>3. 0 \in Steps /\ \A n \in 1 .. k : n \in Steps /\ n # 0
    OBVIOUS
  <2> QED BY <2>1, <2>2, <2>3 DEF Walks, Up
<1> QED BY <1>4, <1>5

-----------------------------------------------------------------------------
(* What is_ancestor means. *)

\* An ancestor is in every set that has the descendant and is closed under
\* parents.
LEMMA AncestorInClosed ==
  ASSUME NEW map, IsFiniteSet(DOMAIN map), NEW d, NEW a, a # None,
         is_ancestor(a, d, map),
         NEW S, d \in S, \A v \in S : ParentIn(map, v) # None => ParentIn(map, v) \in S
  PROVE  a \in S
<1> DEFINE k == Cardinality(DOMAIN map)
<1>1. k \in Nat
  BY FS_CardinalityType
<1>2. PICK W : /\ Walks(W, d, map, k)
               /\ \A b : is_ancestor(b, d, map) <=> \E n \in 0 .. k : W[n] = b
  BY <1>1, AncestorByWalk
<1> HIDE DEF k
<1> DEFINE Good == {n \in Nat : W[n] \in S \cup {None}}
<1>3. 0 \in Good
  BY <1>2 DEF Walks
<1>4. ASSUME NEW n \in 0 .. k - 1, n \in Good
      PROVE  n + 1 \in Good
  <2>1. n \in Nat /\ n + 1 \in Nat /\ W[n] \in S \cup {None}
    BY <1>1, <1>4
  <2>2. W[n + 1] = Up(W[n], map)
    BY <1>1, <1>2, WalkStep
  <2> QED BY <2>1, <2>2 DEF Up
<1> HIDE DEF Good
<1>5. 0 .. k \subseteq Good
  BY <1>1, <1>3, <1>4, UpTo
<1>6. PICK n \in 0 .. k : W[n] = a
  BY <1>2
<1>7. n \in Good
  BY <1>5
<1> QED BY <1>6, <1>7 DEF Good

\* The first k + 1 versions of a walk over a map with k entries, if it has not
\* ended, have one twice: from there on it goes in a circle.
LEMMA WalkCloses ==
  ASSUME NEW Ids, IsFiniteSet(Ids), None \notin Ids,
         NEW map \in [Ids -> Ids \cup {None}], NEW d \in Ids,
         NEW k, k = Cardinality(Ids), NEW W, Walks(W, d, map, k),
         W[k] # None
  PROVE  \E n \in 0 .. k - 1 : W[n] = W[k]
<1>1. k \in Nat
  BY FS_CardinalityType
<1>2. \A n \in 0 .. k - 1 : W[n + 1] = Up(W[n], map)
  <2> TAKE n \in 0 .. k - 1
  <2>1. PICK m \in 1 .. k : m = n + 1 /\ m - 1 = n
    BY <1>1
  <2>2. W[m] = Up(W[m - 1], map)
    BY DEF Walks
  <2> QED BY <2>1, <2>2
<1>3. \A n \in 0 .. k : W[n] \in Ids
  <2> DEFINE In == {n \in Nat : W[n] \in Ids \cup {None}}
             Left == {n \in Nat : W[k - n] # None}
  <2>1. 0 .. k \subseteq In
    <3>1. 0 \in In
      BY DEF Walks
    <3>2. ASSUME NEW n \in 0 .. k - 1, n \in In
          PROVE  n + 1 \in In
      <4>1. n \in Nat /\ n + 1 \in Nat /\ W[n] \in Ids \cup {None}
        BY <1>1, <3>2
      <4>2. W[n + 1] = Up(W[n], map)
        BY <1>2
      <4> QED BY <4>1, <4>2 DEF Up, ParentIn
    <3> HIDE DEF In
    <3> QED BY <1>1, <3>1, <3>2, UpTo
  <2>2. 0 .. k \subseteq Left
    <3>1. 0 \in Left
      BY <1>1
    <3>2. ASSUME NEW n \in 0 .. k - 1, n \in Left
          PROVE  n + 1 \in Left
      <4>1. k - (n + 1) \in 0 .. k - 1 /\ k - (n + 1) + 1 = k - n
        BY <1>1
      <4>2. W[k - n] = Up(W[k - (n + 1)], map)
        BY <1>2, <4>1
      <4> QED BY <3>2, <4>2 DEF Up
    <3> HIDE DEF Left
    <3> QED BY <1>1, <3>1, <3>2, UpTo
  <2> TAKE n \in 0 .. k
  <2>3. k - n \in 0 .. k /\ k - (k - n) = n
    BY <1>1
  <2> QED BY <2>1, <2>2, <2>3
<1>4. PICK x \in 0 .. k, y \in 0 .. k : x # y /\ W[x] = W[y]
  <2> DEFINE T == 0 .. k
  <2>1. IsFiniteSet(T) /\ Cardinality(T) = k + 1
    <3>1. 0 \in Int /\ k \in Int /\ ~(0 > k) /\ k - 0 + 1 = k + 1
      BY <1>1
    <3> QED BY <3>1, FS_Interval
  <2>2. W \in [T -> Ids]
    BY <1>3 DEF Walks
  <2>3. Cardinality(Ids) < Cardinality(T)
    BY <1>1, <2>1
  <2> HIDE DEF T
  <2>4. \E x, y \in T : x # y /\ W[x] = W[y]
    BY <2>1, <2>2, <2>3, FS_PigeonHole
  <2> QED BY <2>4 DEF T
<1>5. PICK i \in 0 .. k, j \in 0 .. k : i < j /\ W[i] = W[j]
  <2>1. x < y \/ y < x
    BY <1>1, <1>4
  <2> QED BY <1>4, <2>1
<1> DEFINE Same == {n \in Nat : W[i + n] = W[j + n]}
<1>6. 0 .. k - j \subseteq Same
  <2>1. 0 \in Same
    BY <1>5
  <2>2. ASSUME NEW n \in 0 .. (k - j) - 1, n \in Same
        PROVE  n + 1 \in Same
    <3>1. /\ i + n \in 0 .. k - 1 /\ i + n + 1 = i + (n + 1)
          /\ j + n \in 0 .. k - 1 /\ j + n + 1 = j + (n + 1) /\ n + 1 \in Nat
      BY <1>1, <1>5
    <3>2. W[i + n + 1] = W[j + n + 1]
      BY <1>2, <2>2, <3>1
    <3> QED BY <3>1, <3>2
  <2>3. k - j \in Nat
    BY <1>1
  <2> HIDE DEF Same
  <2> QED BY <2>1, <2>2, <2>3, UpTo
<1>7. k - j \in 0 .. k - j /\ j + (k - j) = k /\ i + (k - j) \in 0 .. k - 1
  BY <1>1, <1>5
<1> QED BY <1>6, <1>7

\* A version that each closed set with the descendant has is an ancestor.
LEMMA ClosedIsAncestor ==
  ASSUME NEW Ids, IsFiniteSet(Ids), None \notin Ids,
         NEW map \in [Ids -> Ids \cup {None}], NEW d \in Ids, NEW a,
         \A S \in SUBSET Ids :
            d \in S /\ (\A v \in S : map[v] # None => map[v] \in S) => a \in S
  PROVE  is_ancestor(a, d, map)
<1> DEFINE k == Cardinality(Ids)
<1>1. k \in Nat /\ DOMAIN map = Ids
  BY FS_CardinalityType
<1>2. PICK W : /\ Walks(W, d, map, k)
               /\ \A b : is_ancestor(b, d, map) <=> \E n \in 0 .. k : W[n] = b
  BY <1>1, AncestorByWalk
<1> DEFINE Seen == {W[n] : n \in 0 .. k} \cap Ids
<1>3. d \in Seen
  <2>1. 0 \in 0 .. k /\ W[0] = d
    BY <1>1, <1>2 DEF Walks
  <2> QED BY <2>1
<1>4. ASSUME NEW v \in Seen, map[v] # None
      PROVE  map[v] \in Seen
  <2>1. PICK n \in 0 .. k : W[n] = v
    OBVIOUS
  <2>2. PICK m \in 0 .. k - 1 : W[m] = v
    <3>1. CASE n = k
      <4>1. W[k] # None
        BY <2>1, <3>1
      <4>2. \E m \in 0 .. k - 1 : W[m] = W[k]
        <5> HIDE DEF Seen
        <5> QED BY <1>2, <4>1, WalkCloses
      <4> QED BY <2>1, <3>1, <4>2
    <3>2. CASE n # k
      <4>1. n \in 0 .. k - 1
        BY <1>1, <3>2
      <4> QED BY <2>1, <4>1
    <3> QED BY <3>1, <3>2
  <2>3. m + 1 \in 1 .. k /\ m + 1 - 1 = m /\ m + 1 \in 0 .. k
    BY <1>1
  <2>4. W[m + 1] = Up(v, map)
    <3> HIDE DEF k, Seen
    <3>1. \A i \in 0 .. k - 1 : W[i + 1] = Up(W[i], map)
      BY <1>1, <1>2, WalkStep
    <3> QED BY <2>2, <3>1
  <2>5. v \in Ids /\ v # None /\ map[v] \in Ids
    <3>1. v \in Ids
      OBVIOUS
    <3> HIDE DEF Seen
    <3> QED BY <1>4, <3>1
  <2>6. Up(v, map) = map[v]
    BY <1>1, <2>5 DEF Up, ParentIn
  <2> QED BY <2>3, <2>4, <2>5, <2>6
<1>5. a \in Seen
  <2>1. Seen \in SUBSET Ids
    OBVIOUS
  <2> HIDE DEF Seen
  <2> QED BY <1>3, <1>4, <2>1
<1> QED BY <1>2, <1>5

=============================================================================
