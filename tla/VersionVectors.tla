--------------------------- MODULE VersionVectors ---------------------------
(***************************************************************************)
(* The version vectors that order vault snapshots, entries, folders and    *)
(* tags (domain/versioning/version-vector.utils.ts).  A vector is a plain  *)
(* object from device ids to counters, here a function whose domain is the *)
(* set of keys the object has; a key that is missing reads as 0.           *)
(***************************************************************************)
EXTENDS Integers

CONSTANT Devices

\* A vector has counters for some of the devices.
IsVersionVector(v) == /\ DOMAIN v \subseteq Devices
                      /\ v \in [DOMAIN v -> Nat]

\* versionVector[deviceId] ?? 0
Component(v, d) == IF d \in DOMAIN v THEN v[d] ELSE 0

Larger(m, n) == IF m >= n THEN m ELSE n

\* Seeded faults are named for what they get wrong and stand before the
\* definition they replace; the specification uses none of them.
IncrementVersionVectorDown(v, d) ==
    [x \in DOMAIN v \cup {d} |-> IF x = d THEN Component(v, d) - 1 ELSE v[x]]

IncrementVersionVector(v, d) ==
    [x \in DOMAIN v \cup {d} |-> IF x = d THEN Component(v, d) + 1 ELSE v[x]]

MergeLocalKeysOnly(local, remote) ==
    [x \in DOMAIN local |-> Larger(local[x], Component(remote, x))]

MergeVersionVectors(local, remote) ==
    [x \in DOMAIN local \cup DOMAIN remote |->
        Larger(Component(local, x), Component(remote, x))]

\* Some component of candidate exceeds that of baseline.
IsVersionVectorAheadOf(candidate, baseline) ==
    \E d \in DOMAIN candidate : Component(candidate, d) > Component(baseline, d)

VersionVectorRelations == {"equal", "local_ahead", "remote_ahead", "broken"}

CompareLocalKeysOnly(local, remote) ==
    LET ahead  == \E d \in DOMAIN local : local[d] > Component(remote, d)
        behind == \E d \in DOMAIN local : Component(remote, d) > local[d]
    IN  IF ahead /\ behind THEN "broken"
        ELSE IF ahead THEN "local_ahead"
        ELSE IF behind THEN "remote_ahead" ELSE "equal"

CompareRemoteFirst(local, remote) ==
    IF IsVersionVectorAheadOf(remote, local) THEN "remote_ahead"
    ELSE IF IsVersionVectorAheadOf(local, remote) THEN "local_ahead" ELSE "equal"

CompareVersionVectors(local, remote) ==
    LET keys == DOMAIN local \cup DOMAIN remote
        localHasNewerComponent ==
            \E d \in keys : Component(local, d) > Component(remote, d)
        remoteHasNewerComponent ==
            \E d \in keys : Component(remote, d) > Component(local, d)
    IN  IF localHasNewerComponent /\ remoteHasNewerComponent THEN "broken"
        ELSE IF localHasNewerComponent THEN "local_ahead"
        ELSE IF remoteHasNewerComponent THEN "remote_ahead"
        ELSE "equal"
=============================================================================
