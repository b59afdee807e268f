------------------------ MODULE VersionVectors_proofs ------------------------
(***************************************************************************)
(* What the operations on version vectors do, component by component, and  *)
(* that the four relations are the pointwise order.                        *)
(***************************************************************************)
EXTENDS VersionVectors, TLAPS

\* Every component of a vector, kept or missing, is a natural number, and a
\* counter that is missing reads as 0.
LEMMA ComponentType ==
    ASSUME NEW v, IsVersionVector(v), NEW d
    PROVE  /\ Component(v, d) \in Nat
           /\ d \notin Devices => Component(v, d) = 0
BY DEF IsVersionVector, Component

\* Incrementing adds one to the counter of the device and to no other.
LEMMA IncrementComponents ==
    ASSUME NEW v, IsVersionVector(v), NEW d \in Devices
    PROVE  /\ IsVersionVector(IncrementVersionVector(v, d))
           /\ \A x : Component(IncrementVersionVector(v, d), x) =
                        IF x = d THEN Component(v, d) + 1 ELSE Component(v, x)
<1>1. Component(v, d) \in Nat
  BY ComponentType
<1>2. IsVersionVector(IncrementVersionVector(v, d))
  BY <1>1 DEF IsVersionVector, IncrementVersionVector
<1>3. ASSUME NEW x
      PROVE  Component(IncrementVersionVector(v, d), x) =
                IF x = d THEN Component(v, d) + 1 ELSE Component(v, x)
  BY DEF IncrementVersionVector, Component
<1> QED
  BY <1>2, <1>3

\* Merging takes the larger counter of each device.
LEMMA MergeComponents ==
    ASSUME NEW v, IsVersionVector(v), NEW w, IsVersionVector(w)
    PROVE  /\ IsVersionVector(MergeVersionVectors(v, w))
           /\ \A x : Component(MergeVersionVectors(v, w), x) =
                        Larger(Component(v, x), Component(w, x))
<1>1. \A x : Component(v, x) \in Nat /\ Component(w, x) \in Nat
  BY ComponentType
<1>2. \A x : Larger(Component(v, x), Component(w, x)) \in Nat
  BY <1>1 DEF Larger
<1>3. IsVersionVector(MergeVersionVectors(v, w))
  BY <1>2 DEF IsVersionVector, MergeVersionVectors
<1>4. ASSUME NEW x
      PROVE  Component(MergeVersionVectors(v, w), x) =
                Larger(Component(v, x), Component(w, x))
  BY <1>1 DEF MergeVersionVectors, Component, Larger
<1> QED
  BY <1>3, <1>4

\* The pointwise order on vectors.
AtMost(v, w) == \A d \in Devices : Component(v, d) <= Component(w, d)

\* compareVersionVectors decides the pointwise order: its four answers are
\* exactly the four ways in which two vectors can be related, although it
\* only visits the keys that one of the two vectors has.
THEOREM CompareIsPointwise ==
    ASSUME NEW v, IsVersionVector(v), NEW w, IsVersionVector(w)
    PROVE  /\ CompareVersionVectors(v, w) = "equal"
                <=> AtMost(v, w) /\ AtMost(w, v)
           /\ CompareVersionVectors(v, w) = "local_ahead"
                <=> AtMost(w, v) /\ ~AtMost(v, w)
           /\ CompareVersionVectors(v, w) = "remote_ahead"
                <=> AtMost(v, w) /\ ~AtMost(w, v)
           /\ CompareVersionVectors(v, w) = "broken"
                <=> ~AtMost(v, w) /\ ~AtMost(w, v)
<1> DEFINE keys == DOMAIN v \cup DOMAIN w
           vNewer == \E d \in keys : Component(v, d) > Component(w, d)
           wNewer == \E d \in keys : Component(w, d) > Component(v, d)
<1>1. \A d : Component(v, d) \in Nat /\ Component(w, d) \in Nat
  BY ComponentType
<1>2. keys \subseteq Devices
  BY DEF IsVersionVector
<1>3. \A d \in Devices \ keys : Component(v, d) = 0 /\ Component(w, d) = 0
  BY DEF Component
<1>4. vNewer <=> ~AtMost(v, w)
  BY <1>1, <1>2, <1>3 DEF AtMost
<1>5. wNewer <=> ~AtMost(w, v)
  BY <1>1, <1>2, <1>3 DEF AtMost
<1>6. CompareVersionVectors(v, w) =
        IF vNewer /\ wNewer THEN "broken"
        ELSE IF vNewer THEN "local_ahead"
        ELSE IF wNewer THEN "remote_ahead"
        ELSE "equal"
  BY DEF CompareVersionVectors
<1> HIDE DEF vNewer, wNewer
<1>7. CASE vNewer /\ wNewer
  BY <1>4, <1>5, <1>6, <1>7
<1>8. CASE vNewer /\ ~wNewer
  BY <1>4, <1>5, <1>6, <1>8
<1>9. CASE ~vNewer /\ wNewer
  BY <1>4, <1>5, <1>6, <1>9
<1>10. CASE ~vNewer /\ ~wNewer
  BY <1>4, <1>5, <1>6, <1>10
<1> QED
  BY <1>7, <1>8, <1>9, <1>10

\* A merge is above both vectors and below whatever is above both: merging
\* takes in every edit of either side and invents none.
THEOREM MergeIsLeastUpperBound ==
    ASSUME NEW v, IsVersionVector(v), NEW w, IsVersionVector(w),
           NEW u, IsVersionVector(u)
    PROVE  /\ AtMost(v, MergeVersionVectors(v, w))
           /\ AtMost(w, MergeVersionVectors(v, w))
           /\ AtMost(v, u) /\ AtMost(w, u) => AtMost(MergeVersionVectors(v, w), u)
<1>1. \A x : /\ Component(v, x) \in Nat
             /\ Component(w, x) \in Nat
             /\ Component(u, x) \in Nat
  BY ComponentType
<1>2. \A x : Component(MergeVersionVectors(v, w), x) =
                Larger(Component(v, x), Component(w, x))
  BY MergeComponents
<1> QED
  BY <1>1, <1>2 DEF AtMost, Larger

\* A resolution stamps its record ahead of both of the copies it resolved, so
\* every device that holds either of them sees it as newer.
THEOREM ResolutionIsAheadOfBoth ==
    ASSUME NEW v, IsVersionVector(v), NEW w, IsVersionVector(w),
           NEW d \in Devices
    PROVE  LET resolved == IncrementVersionVector(MergeVersionVectors(v, w), d)
           IN  /\ CompareVersionVectors(resolved, v) = "local_ahead"
               /\ CompareVersionVectors(resolved, w) = "local_ahead"
<1> DEFINE merged == MergeVersionVectors(v, w)
           resolved == IncrementVersionVector(merged, d)
<1>1. \A x : Component(v, x) \in Nat /\ Component(w, x) \in Nat
  BY ComponentType
<1>2. /\ IsVersionVector(merged)
      /\ \A x : Component(merged, x) = Larger(Component(v, x), Component(w, x))
  BY MergeComponents
<1> HIDE DEF merged
<1>3. /\ IsVersionVector(resolved)
      /\ \A x : Component(resolved, x) =
                  IF x = d THEN Component(merged, d) + 1 ELSE Component(merged, x)
  BY <1>2, IncrementComponents
<1> HIDE DEF resolved
<1>4. /\ AtMost(v, resolved) /\ ~AtMost(resolved, v)
      /\ AtMost(w, resolved) /\ ~AtMost(resolved, w)
  BY <1>1, <1>2, <1>3 DEF AtMost, Larger
<1>5. /\ CompareVersionVectors(resolved, v) = "local_ahead"
      /\ CompareVersionVectors(resolved, w) = "local_ahead"
  BY <1>3, <1>4, CompareIsPointwise
<1> QED
  BY <1>5 DEF resolved, merged
=============================================================================
