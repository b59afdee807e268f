---------------------------- MODULE CausalHistory ----------------------------
(***************************************************************************)
(* What the version vectors promise.  Every device keeps its own copy of   *)
(* one versioned record (an entry, a folder, a tag, the vault snapshot),   *)
(* edits it, publishes copies of it and meets copies that others published *)
(* any time ago.  Each copy also carries the set of edits it was made from,*)
(* which the program does not store: the vectors are right when comparing  *)
(* them says what comparing those sets would say.                          *)
(***************************************************************************)
EXTENDS VersionVectors, FiniteSets

CONSTANT MaxEdits       \* bound: edits one device may make

ASSUME EditsAssumption == MaxEdits \in Nat

VARIABLES copy,         \* copy[d]: the vector and the edits of device d's record
          published     \* the copies some device uploaded, none ever withdrawn

vars == <<copy, published>>

Edits == Devices \X (Nat \ {0})

IsCopy(c) == /\ IsVersionVector(c.vector)
             /\ c.history \subseteq Edits
             /\ c = [vector |-> c.vector, history |-> c.history]

TypeOK == /\ DOMAIN copy = Devices
          /\ \A d \in Devices : IsCopy(copy[d])
          /\ \A c \in published : IsCopy(c)

NoVersion == [d \in {} |-> 0]

Init == /\ copy = [d \in Devices |-> [vector |-> NoVersion, history |-> {}]]
        /\ published = {}

\* The edit a device makes next: its own counter numbers its edits.
NextEdit(d, v) == <<d, Component(v, d) + 1>>

(***************************************************************************)
(* A mutation stamps the record with the increment of its current vector.  *)
(***************************************************************************)
Edit(d) ==
    /\ Component(copy[d].vector, d) < MaxEdits
    /\ copy' = [copy EXCEPT ![d] =
                  [vector  |-> IncrementVersionVector(@.vector, d),
                   history |-> @.history \cup {NextEdit(d, @.vector)}]]
    /\ UNCHANGED published

Publish(d) ==
    /\ published' = published \cup {copy[d]}
    /\ UNCHANGED copy

(***************************************************************************)
(* A copy that is ahead replaces the device's own verbatim.                *)
(***************************************************************************)
Adopt(d, c) ==
    /\ CompareVersionVectors(copy[d].vector, c.vector) = "remote_ahead"
    /\ copy' = [copy EXCEPT ![d] = c]
    /\ UNCHANGED published

(***************************************************************************)
(* A resolution, whatever side it takes or when it merges by hand, is an   *)
(* edit on top of both copies: stampResolvedVersionVector.                 *)
(***************************************************************************)
ResolvedVersionVector(local, remote, d) ==
    IncrementVersionVector(MergeVersionVectors(local, remote), d)

Resolve(d, c) ==
    /\ Component(copy[d].vector, d) < MaxEdits
    /\ copy' = [copy EXCEPT ![d] =
                  [vector  |-> ResolvedVersionVector(@.vector, c.vector, d),
                   history |-> @.history \cup c.history
                                 \cup {NextEdit(d, MergeVersionVectors(@.vector, c.vector))}]]
    /\ UNCHANGED published

Next == \E d \in Devices :
            \/ Edit(d)
            \/ Publish(d)
            \/ \E c \in published : Adopt(d, c) \/ Resolve(d, c)

Spec == Init /\ [][Next]_vars

Copies == {copy[d] : d \in Devices} \cup published

-----------------------------------------------------------------------------
(***************************************************************************)
(* Properties                                                              *)
(***************************************************************************)

\* The relation compareVersionVectors reports is the relation between the
\* edits behind the two copies: equal vectors never hide a different edit, a
\* copy that is ahead has every edit of the other, and "broken" is reported
\* exactly when each side has an edit that the other lacks.
OrderReflectsHistory ==
    \A c, e \in Copies :
        LET relation == CompareVersionVectors(c.vector, e.vector)
        IN  /\ relation = "equal" <=> c.history = e.history
            /\ relation = "local_ahead" <=>
                 e.history \subseteq c.history /\ c.history # e.history
            /\ relation = "remote_ahead" <=>
                 c.history \subseteq e.history /\ c.history # e.history

\* No step, adopting a remote copy verbatim included, drops an edit that the
\* device had taken in.
EditsAreNeverLost ==
    [][\A d \in Devices : copy[d].history \subseteq copy'[d].history]_vars

\* A copy holds exactly the edits its vector counts, and no copy, however it
\* travelled, knows more edits of a device than the device itself made.  This
\* is what makes the counters unique names for edits although the devices hand
\* them out without talking to each other.
Counted(v) == UNION {{d} \X (1 .. Component(v, d)) : d \in Devices}

CountersNumberEdits ==
    /\ \A c \in Copies : c.history = Counted(c.vector)
    /\ \A d \in Devices, c \in Copies :
          Component(c.vector, d) <= Component(copy[d].vector, d)
=============================================================================
