------------------------ MODULE CausalHistory_proofs ------------------------
(***************************************************************************)
(* The version vectors are a faithful clock, for any number of devices and *)
(* any length of history.  The inductive invariant is CountersNumberEdits. *)
(***************************************************************************)
EXTENDS CausalHistory, VersionVectors_proofs

IInv == TypeOK /\ CountersNumberEdits

\* The edits of two counted histories are included when the counters are.
LEMMA InclusionIsAtMost ==
    ASSUME NEW v, IsVersionVector(v), NEW w, IsVersionVector(w)
    PROVE  Counted(v) \subseteq Counted(w) <=> AtMost(v, w)
<1>1. \A x : Component(v, x) \in Nat /\ Component(w, x) \in Nat
  BY ComponentType
<1>2. ASSUME AtMost(v, w), NEW d \in Devices, NEW n \in 1 .. Component(v, d)
      PROVE  <<d, n>> \in Counted(w)
  <2>1. n \in 1 .. Component(w, d)
    BY <1>1, <1>2 DEF AtMost
  <2> QED
    BY <2>1 DEF Counted
<1>3. AtMost(v, w) => Counted(v) \subseteq Counted(w)
  BY <1>2 DEF Counted
<1>4. ASSUME Counted(v) \subseteq Counted(w), NEW d \in Devices
      PROVE  Component(v, d) <= Component(w, d)
  <2>1. CASE Component(v, d) = 0
    BY <1>1, <2>1
  <2>2. CASE Component(v, d) # 0
    <3>1. Component(v, d) \in 1 .. Component(v, d)
      BY <1>1, <2>2
    <3>2. <<d, Component(v, d)>> \in Counted(v)
      BY <3>1 DEF Counted
    <3>3. PICK e \in Devices : <<d, Component(v, d)>> \in {e} \X (1 .. Component(w, e))
      BY <1>4, <3>2 DEF Counted
    <3>4. Component(v, d) \in 1 .. Component(w, d)
      BY <3>3
    <3> QED
      BY <1>1, <3>4
  <2> QED
    BY <2>1, <2>2
<1> QED
  BY <1>3, <1>4 DEF AtMost

\* Members of a counted history.
LEMMA CountedMembers ==
    ASSUME NEW v, NEW edit
    PROVE  edit \in Counted(v) <=>
              \E d \in Devices : \E n \in 1 .. Component(v, d) : edit = <<d, n>>
BY DEF Counted

\* Incrementing the counter of a device adds its next edit, and nothing else.
LEMMA IncrementCounts ==
    ASSUME NEW v, IsVersionVector(v), NEW d \in Devices
    PROVE  Counted(IncrementVersionVector(v, d)) = Counted(v) \cup {NextEdit(d, v)}
<1> DEFINE u == IncrementVersionVector(v, d)
<1>1. \A x : Component(v, x) \in Nat
  BY ComponentType
<1>2. \A x : Component(u, x) =
                IF x = d THEN Component(v, d) + 1 ELSE Component(v, x)
  BY IncrementComponents
<1> HIDE DEF u
<1>3. ASSUME NEW e \in Devices, NEW n
      PROVE  n \in 1 .. Component(u, e)
                <=> n \in 1 .. Component(v, e) \/ (e = d /\ n = Component(v, d) + 1)
  BY <1>1, <1>2
<1>4. ASSUME NEW edit
      PROVE  edit \in Counted(u) <=> edit \in Counted(v) \/ edit = NextEdit(d, v)
  <2>1. edit \in Counted(u) <=>
           \E e \in Devices : \E n \in 1 .. Component(u, e) : edit = <<e, n>>
    BY CountedMembers
  <2>2. edit \in Counted(v) <=>
           \E e \in Devices : \E n \in 1 .. Component(v, e) : edit = <<e, n>>
    BY CountedMembers
  <2>3. Component(v, d) + 1 \in 1 .. Component(u, d)
    BY <1>1, <1>2
  <2> QED
    BY <1>3, <2>1, <2>2, <2>3 DEF NextEdit
<1> QED
  BY <1>4 DEF u

\* A merged vector counts the edits of both sides.
LEMMA MergeCounts ==
    ASSUME NEW v, IsVersionVector(v), NEW w, IsVersionVector(w)
    PROVE  Counted(MergeVersionVectors(v, w)) = Counted(v) \cup Counted(w)
<1> DEFINE u == MergeVersionVectors(v, w)
<1>1. \A x : Component(v, x) \in Nat /\ Component(w, x) \in Nat
  BY ComponentType
<1>2. \A x : Component(u, x) = Larger(Component(v, x), Component(w, x))
  BY MergeComponents
<1> HIDE DEF u
<1>3. ASSUME NEW e \in Devices, NEW n
      PROVE  n \in 1 .. Component(u, e)
                <=> n \in 1 .. Component(v, e) \/ n \in 1 .. Component(w, e)
  BY <1>1, <1>2 DEF Larger
<1>4. ASSUME NEW edit
      PROVE  edit \in Counted(u) <=> edit \in Counted(v) \/ edit \in Counted(w)
  BY <1>3, CountedMembers
<1> QED
  BY <1>4 DEF u

\* The invariant gives the order of any two copies.
LEMMA InvariantOrders == IInv => OrderReflectsHistory
<1> SUFFICES ASSUME IInv, NEW c \in Copies, NEW e \in Copies
             PROVE  LET relation == CompareVersionVectors(c.vector, e.vector)
                    IN  /\ relation = "equal" <=> c.history = e.history
                        /\ relation = "local_ahead" <=>
                             e.history \subseteq c.history /\ c.history # e.history
                        /\ relation = "remote_ahead" <=>
                             c.history \subseteq e.history /\ c.history # e.history
  BY DEF OrderReflectsHistory
<1>1. IsVersionVector(c.vector) /\ IsVersionVector(e.vector)
  BY DEF IInv, TypeOK, Copies, IsCopy
<1>2. c.history = Counted(c.vector) /\ e.history = Counted(e.vector)
  BY DEF IInv, CountersNumberEdits
<1>3. /\ c.history \subseteq e.history <=> AtMost(c.vector, e.vector)
      /\ e.history \subseteq c.history <=> AtMost(e.vector, c.vector)
  BY <1>1, <1>2, InclusionIsAtMost
<1>4. c.history = e.history <=>
        c.history \subseteq e.history /\ e.history \subseteq c.history
  OBVIOUS
<1> QED
  BY <1>1, <1>3, <1>4, CompareIsPointwise

\* What replacing one device's copy has to satisfy to keep the invariant.
LEMMA ReplaceCopy ==
    ASSUME IInv, NEW d \in Devices, NEW c, IsCopy(c),
           c.history = Counted(c.vector),
           \A x \in Devices \ {d} :
                Component(c.vector, x) <= Component(copy[x].vector, x),
           Component(copy[d].vector, d) <= Component(c.vector, d),
           copy' = [copy EXCEPT ![d] = c],
           published' = published
    PROVE  IInv'
<1>1. TypeOK'
  BY DEF IInv, TypeOK
<1>2. /\ copy'[d] = c
      /\ \A x \in Devices \ {d} : copy'[x] = copy[x]
  BY DEF IInv, TypeOK
<1>3. \A e \in Copies' : e = c \/ e \in Copies
  BY <1>2 DEF Copies
<1>4. \A e \in Copies' : e.history = Counted(e.vector)
  BY <1>3 DEF IInv, CountersNumberEdits
<1>5. ASSUME NEW x \in Devices, NEW e \in Copies'
      PROVE  Component(e.vector, x) <= Component(copy'[x].vector, x)
  <2>1. /\ Component(c.vector, x) \in Nat
        /\ Component(copy[x].vector, x) \in Nat
    BY ComponentType DEF IInv, TypeOK, IsCopy
  <2>2. CASE e = c
    BY <1>2, <2>1, <2>2
  <2>3. CASE e \in Copies
    <3>1. IsVersionVector(e.vector)
      BY <2>3 DEF IInv, TypeOK, Copies, IsCopy
    <3>2. Component(e.vector, x) \in Nat
      BY <3>1, ComponentType
    <3>3. Component(e.vector, x) <= Component(copy[x].vector, x)
      BY <2>3 DEF IInv, CountersNumberEdits
    <3> QED
      BY <1>2, <2>1, <3>2, <3>3
  <2> QED
    BY <1>3, <2>2, <2>3
<1> QED
  BY <1>1, <1>4, <1>5 DEF IInv, CountersNumberEdits

\* CountersNumberEdits (with the types) holds initially and every edit,
\* publication, adoption and resolution preserves it.
LEMMA InductiveInvariant == Spec => []IInv
<1>1. Init => IInv
  <2> SUFFICES ASSUME Init PROVE IInv
    OBVIOUS
  <2>1. /\ IsVersionVector(NoVersion)
        /\ \A d : Component(NoVersion, d) = 0
    BY DEF NoVersion, IsVersionVector, Component
  <2>2. TypeOK
    BY <2>1 DEF Init, TypeOK, IsCopy
  <2>3. Counted(NoVersion) = {}
    BY <2>1, CountedMembers
  <2>4. \A c \in Copies : c.vector = NoVersion /\ c.history = {}
    BY DEF Init, Copies
  <2>5. \A d \in Devices : copy[d].vector = NoVersion
    BY DEF Init
  <2>6. \A c \in Copies : c.history = Counted(c.vector)
    BY <2>3, <2>4
  <2>7. ASSUME NEW d \in Devices, NEW c \in Copies
        PROVE  Component(c.vector, d) <= Component(copy[d].vector, d)
    <3>1. Component(c.vector, d) = 0 /\ Component(copy[d].vector, d) = 0
      BY <2>1, <2>4, <2>5
    <3> QED
      BY <3>1
  <2> QED
    BY <2>2, <2>6, <2>7 DEF IInv, CountersNumberEdits
<1>2. IInv /\ [Next]_vars => IInv'
  <2> SUFFICES ASSUME IInv, [Next]_vars PROVE IInv'
    OBVIOUS
  <2> USE DEF IInv, TypeOK
  <2>1. ASSUME NEW d \in Devices, Edit(d)
        PROVE  IInv'
    <3> DEFINE v == copy[d].vector
               c == [vector  |-> IncrementVersionVector(v, d),
                     history |-> copy[d].history \cup {NextEdit(d, v)}]
    <3>1. /\ copy' = [copy EXCEPT ![d] = c]
          /\ published' = published
      BY <2>1 DEF Edit
    <3>2. /\ IsCopy(copy[d])
          /\ IsVersionVector(v)
      BY DEF IsCopy
    <3>3. \A x : Component(v, x) \in Nat
      BY <3>2, ComponentType
    <3>4. /\ IsVersionVector(c.vector)
          /\ \A x : Component(c.vector, x) =
                      IF x = d THEN Component(v, d) + 1 ELSE Component(v, x)
      BY <3>2, IncrementComponents
    <3>5. NextEdit(d, v) \in Edits
      BY <3>3 DEF NextEdit, Edits
    <3>6. IsCopy(c)
      BY <3>2, <3>4, <3>5 DEF IsCopy
    <3>7. copy[d].history = Counted(v)
      BY DEF CountersNumberEdits, Copies
    <3>8. c.history = Counted(c.vector)
      BY <3>2, <3>7, IncrementCounts
    <3>9. \A x \in Devices : Component(v, x) <= Component(copy[x].vector, x)
      BY DEF CountersNumberEdits, Copies
    <3>10. Component(copy[d].vector, d) <= Component(c.vector, d)
      BY <3>3, <3>4
    <3>11. \A x \in Devices \ {d} :
              Component(c.vector, x) <= Component(copy[x].vector, x)
      BY <3>4, <3>9
    <3> HIDE DEF c, IInv, TypeOK
    <3> QED
      BY <3>1, <3>6, <3>8, <3>10, <3>11, ReplaceCopy
  <2>2. ASSUME NEW d \in Devices, Publish(d)
        PROVE  IInv'
    <3>1. copy' = copy /\ published' = published \cup {copy[d]}
      BY <2>2 DEF Publish
    <3>2. Copies' = Copies
      BY <3>1 DEF Copies
    <3> QED
      BY <3>1, <3>2 DEF CountersNumberEdits
  <2>3. ASSUME NEW d \in Devices, NEW c \in published, Adopt(d, c)
        PROVE  IInv'
    <3>1. /\ IsVersionVector(copy[d].vector)
          /\ IsVersionVector(c.vector)
      BY DEF IsCopy
    <3>2. AtMost(copy[d].vector, c.vector)
      BY <2>3, <3>1, CompareIsPointwise DEF Adopt
    <3>3. c \in Copies
      BY DEF Copies
    <3>4. /\ c.history = Counted(c.vector)
          /\ \A x \in Devices : Component(c.vector, x) <= Component(copy[x].vector, x)
      BY <3>3 DEF CountersNumberEdits
    <3>5. Component(copy[d].vector, d) <= Component(c.vector, d)
      BY <3>2 DEF AtMost
    <3>6. /\ copy' = [copy EXCEPT ![d] = c]
          /\ published' = published
          /\ IsCopy(c)
      BY <2>3 DEF Adopt
    <3> HIDE DEF IInv, TypeOK
    <3> QED
      BY <3>4, <3>5, <3>6, ReplaceCopy
  <2>4. ASSUME NEW d \in Devices, NEW e \in published, Resolve(d, e)
        PROVE  IInv'
    <3> DEFINE v == copy[d].vector
               m == MergeVersionVectors(v, e.vector)
               c == [vector  |-> IncrementVersionVector(m, d),
                     history |-> copy[d].history \cup e.history \cup {NextEdit(d, m)}]
    <3>1. /\ copy' = [copy EXCEPT ![d] = c]
          /\ published' = published
      BY <2>4 DEF Resolve, ResolvedVersionVector
    <3>2. /\ IsCopy(copy[d])
          /\ IsCopy(e)
          /\ IsVersionVector(v)
          /\ IsVersionVector(e.vector)
      BY DEF IsCopy
    <3>3. \A x : Component(v, x) \in Nat /\ Component(e.vector, x) \in Nat
      BY <3>2, ComponentType
    <3>4. /\ IsVersionVector(m)
          /\ \A x : Component(m, x) = Larger(Component(v, x), Component(e.vector, x))
      BY <3>2, MergeComponents
    <3>5. /\ IsVersionVector(c.vector)
          /\ \A x : Component(c.vector, x) =
                      IF x = d THEN Component(m, d) + 1 ELSE Component(m, x)
      BY <3>4, IncrementComponents
    <3>6. NextEdit(d, m) \in Edits
      BY <3>3, <3>4 DEF NextEdit, Edits, Larger
    <3>7. IsCopy(c)
      BY <3>2, <3>5, <3>6 DEF IsCopy
    <3>8. /\ copy[d] \in Copies
          /\ e \in Copies
      BY DEF Copies
    <3>9. /\ copy[d].history = Counted(v)
          /\ e.history = Counted(e.vector)
      BY <3>8 DEF CountersNumberEdits
    <3>10. Counted(m) = Counted(v) \cup Counted(e.vector)
      BY <3>2, MergeCounts
    <3>11. Counted(c.vector) = Counted(m) \cup {NextEdit(d, m)}
      BY <3>4, IncrementCounts
    <3>12. c.history = Counted(c.vector)
      BY <3>9, <3>10, <3>11
    <3>13. \A x \in Devices : /\ Component(v, x) <= Component(copy[x].vector, x)
                              /\ Component(e.vector, x) <= Component(copy[x].vector, x)
      BY <3>8 DEF CountersNumberEdits
    <3>14. Component(copy[d].vector, d) <= Component(c.vector, d)
      BY <3>3, <3>4, <3>5 DEF Larger
    <3>15. \A x \in Devices \ {d} :
              Component(c.vector, x) <= Component(copy[x].vector, x)
      BY <3>4, <3>5, <3>13 DEF Larger
    <3> HIDE DEF c, IInv, TypeOK
    <3> QED
      BY <3>1, <3>7, <3>12, <3>14, <3>15, ReplaceCopy
  <2>5. CASE UNCHANGED vars
    BY <2>5 DEF vars, CountersNumberEdits, Copies
  <2> QED
    BY <2>1, <2>2, <2>3, <2>4, <2>5 DEF Next
<1> QED
  BY <1>1, <1>2, PTL DEF Spec

\* The types of the copies, for any number of devices.
THEOREM TypeCorrect == Spec => []TypeOK
BY InductiveInvariant, PTL DEF IInv

\* The counters are unique names for the edits.
THEOREM CountersAreUniqueNames == Spec => []CountersNumberEdits
BY InductiveInvariant, PTL DEF IInv

\* compareVersionVectors reports the causal order of any two copies that
\* devices can ever hold or publish.
THEOREM ComparisonIsCausal == Spec => []OrderReflectsHistory
BY InductiveInvariant, InvariantOrders, PTL

\* Adopting, resolving and editing keep every edit taken in before.
THEOREM NoEditIsLost == Spec => EditsAreNeverLost
<1>1. IInv /\ [Next]_vars
        => [\A d \in Devices : copy[d].history \subseteq copy'[d].history]_vars
  <2> SUFFICES ASSUME IInv, Next, NEW x \in Devices
               PROVE  copy[x].history \subseteq copy'[x].history
    BY DEF vars
  <2> USE DEF IInv, TypeOK
  <2>1. ASSUME NEW d \in Devices, Edit(d)
        PROVE  copy[x].history \subseteq copy'[x].history
    BY <2>1 DEF Edit
  <2>2. ASSUME NEW d \in Devices, Publish(d)
        PROVE  copy[x].history \subseteq copy'[x].history
    BY <2>2 DEF Publish
  <2>3. ASSUME NEW d \in Devices, NEW c \in published, Adopt(d, c)
        PROVE  copy[x].history \subseteq copy'[x].history
    <3>1. /\ copy[d] \in Copies
          /\ c \in Copies
      BY DEF Copies
    <3>2. CompareVersionVectors(copy[d].vector, c.vector) = "remote_ahead"
      BY <2>3 DEF Adopt
    <3>3. copy[d].history \subseteq c.history
      BY <3>1, <3>2, InvariantOrders DEF OrderReflectsHistory
    <3> QED
      BY <2>3, <3>3 DEF Adopt
  <2>4. ASSUME NEW d \in Devices, NEW c \in published, Resolve(d, c)
        PROVE  copy[x].history \subseteq copy'[x].history
    BY <2>4 DEF Resolve
  <2> QED
    BY <2>1, <2>2, <2>3, <2>4 DEF Next
<1> QED
  BY <1>1, InductiveInvariant, PTL DEF Spec, EditsAreNeverLost
=============================================================================
