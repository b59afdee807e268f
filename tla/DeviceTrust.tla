---------------------------- MODULE DeviceTrust ----------------------------
(***************************************************************************)
(* Which devices a vault trusts (services/trust, use-cases/device-trust and *)
(* use-cases/sync/complete-provider-credential-revocation.ts).  The trust  *)
(* chain of a vault travels inside its snapshot: a certificate adds one    *)
(* device, or removes one and rotates the vault key.  Devices that missed  *)
(* certificates consume the whole suffix they missed.  A revocation also   *)
(* replaces the credential of the storage; the user deletes the old one    *)
(* outside the program, and until a device has seen it rejected a marker   *)
(* in the vault keeps the next revocation out.                             *)
(*                                                                         *)
(* An operation is two steps: its checks with the write to the local       *)
(* store, then the conditional upload.  What happens between the requests  *)
(* of an upload is module SnapshotSync.  Left out: cryptography (a         *)
(* signature or digest that verifies is equality), sessions, removal of    *)
(* the synchronization, credentials the user enters that are not those of  *)
(* the last rotation.                                                      *)
(***************************************************************************)
EXTENDS VersionVectors, Sequences, FiniteSets, SequencesExt

CONSTANTS
    None,       \* no snapshot, no marker, no upload
    Members,    \* the devices trusted when the history starts
    MaxDepth,   \* bound: snapshots one after the other; a mishap takes two,
                \* and one for every edit
    MaxEdits,   \* bound: edits of the vault's content
    MaxMishaps  \* bound: operations that begin while another device uploads,
                \* and uploads whose outcome becomes unknown

ASSUME MembersAssumption == Members \subseteq Devices /\ Members # {}
ASSUME BoundsAssumption == /\ MaxDepth \in Nat /\ MaxEdits \in Nat
                           /\ MaxMishaps \in Nat

VARIABLES
    remote,     \* the snapshot in the remote object
    local,      \* device -> the snapshot in its local store, or None
    rec,        \* device -> its credentials: current, and those it replaced
    upload,     \* device -> the upload of its snapshot that is not settled
    approval,   \* device -> the snapshot it was given to enroll with
    live,       \* the credentials the storage accepts
    rotations,  \* revocations ever prepared: the last key and credential
    mishaps     \* how many of the bounded mishaps happened

vars == <<remote, local, rec, upload, approval, live, rotations, mishaps>>

-----------------------------------------------------------------------------
(* A snapshot: its version vector and creator, the chain of certificates,  *)
(* the vault key it is encrypted with and the devices it has an envelope   *)
(* for, the device profiles, the marker of a revocation whose credential   *)
(* may still work, and the content, of which one entry's vector stands for *)
(* all.  cred is the credential that came with the key.                    *)

Zero == [d \in Devices |-> 0]
Missing == [st |-> "missing", vv |-> Zero]

Vector == [Devices -> Nat]
Profile == [st : {"missing", "active", "deleted"}, vv : Vector]
Certificate == [devs : SUBSET Devices, gen : Nat, by : Devices \cup {None}]
Marker == [ids : SUBSET Devices, gen : Nat]
Snapshot == [vv : Vector, by : Devices, chain : Seq(Certificate),
             key : Nat, cred : Nat, slots : SUBSET Devices,
             profiles : [Devices -> Profile], marker : Marker \cup {None},
             content : Vector]

\* The credentials a device keeps, and the upload of its snapshot: what it
\* replaces, and the snapshot and record to go back to when it is refused.
Replaced == [cred : Nat, ids : SUBSET Devices, gen : Nat]
Record == [cur : Nat, prev : Replaced \cup {None}]
Upload == [st : {"sending", "resending", "unknown"}, exp : Snapshot,
           back : Snapshot \cup {None}, backRec : Record \cup {None},
           serves : Devices \cup {None}]

ASSUME NoneAssumption ==
    None \notin Devices \cup Marker \cup Snapshot \cup Replaced \cup Record
                       \cup Upload

LastCertificate(s) == s.chain[Len(s.chain)]
Trusted(s) == LastCertificate(s).devs
EverTrusted(s) == UNION {s.chain[i].devs : i \in DOMAIN s.chain}
Revoked(s) == EverTrusted(s) \ Trusted(s)
KeyGeneration(s) == LastCertificate(s).gen

Added(s, i) == s.chain[i].devs \ s.chain[i - 1].devs
Removed(s, i) == s.chain[i - 1].devs \ s.chain[i].devs

\* verifyTrustChain: every certificate adds one device, or removes some with a
\* new key, and is by a device that the one before trusts.
IsEnrollment(s, i) == /\ Cardinality(Added(s, i)) = 1 /\ Removed(s, i) = {}
                      /\ s.chain[i].gen = s.chain[i - 1].gen
IsRevocation(s, i) == /\ Added(s, i) = {} /\ Removed(s, i) # {}
                      /\ s.chain[i].gen = s.chain[i - 1].gen + 1
                      /\ s.chain[i].by \in s.chain[i].devs
ValidChain(s) == \A i \in 2 .. Len(s.chain) :
    /\ s.chain[i].by \in s.chain[i - 1].devs
    /\ IsEnrollment(s, i) \/ IsRevocation(s, i)

\* verifySnapshot: signed by a trusted device, one envelope for each.
ValidSnapshot(s) ==
    ValidChain(s) /\ s.by \in Trusted(s) /\ s.slots = Trusted(s)

\* requireTrustDescendsFrom
Descends(s, base) == IsPrefix(base.chain, s.chain)

\* The transitions a device at snapshot l has not seen of snapshot s.
Suffix(l, s) == Len(l.chain) + 1 .. Len(s.chain)
Enrolled(l, s) == UNION {Added(s, i) : i \in Suffix(l, s)}
RevokedSince(l, s) == UNION {Removed(s, i) : i \in Suffix(l, s)}

Behind(l, s) == CompareVersionVectors(l.vv, s.vv) = "remote_ahead"

-----------------------------------------------------------------------------
(* Device profiles: missing until the device has enrolled, then active,    *)
(* deleted once it is revoked.                                             *)

\* addDeviceProfileToVault, revokeDeviceProfileFromVault
AddProfile(profiles, d) ==
    [profiles EXCEPT ![d] = [st |-> "active",
                             vv |-> IncrementVersionVector(Zero, d)]]
Tombstone(profile, by) ==
    [st |-> "deleted", vv |-> IncrementVersionVector(profile.vv, by)]
RevokeProfile(profiles, by, d) ==
    IF profiles[d].st = "active"
    THEN [profiles EXCEPT ![d] = Tombstone(profiles[d], by)] ELSE profiles

\* requireDeviceProfilesMatchTrust
ProfilesMatchTrust(s) == \A d \in Devices :
    /\ s.profiles[d].st = "active" => d \in Trusted(s)
    /\ s.profiles[d].st = "deleted" => d \in Revoked(s)

\* findChangedDeviceProfiles: an unchanged profile needs no review, and one
\* whose relation is broken ends the operation.
ChangedProfiles(mine, s) == {d \in Devices : mine[d] # s.profiles[d]}
Reviewable(mine, s) == \A d \in ChangedProfiles(mine, s) :
    \/ mine[d].st = "missing"
    \/ /\ s.profiles[d].st # "missing"
       /\ CompareVersionVectors(mine[d].vv, s.profiles[d].vv) = "remote_ahead"

\* stampDeviceProfileState: what was reviewed gets the vector of both sides
\* and a step of the device that resolved it.
StampedProfiles(mine, s, by) ==
    [d \in Devices |->
        IF mine[d] = s.profiles[d] THEN mine[d]
        ELSE [s.profiles[d] EXCEPT !.vv =
                IncrementVersionVector(MergeVersionVectors(mine[d].vv, @), by)]]

\* buildEnrollmentBaseline: an added device is new to this vault.
EnrollmentsConsistent(l, s) == \A d \in Enrolled(l, s) :
    /\ l.profiles[d].st = "missing"
    /\ s.profiles[d].st # (IF d \in Trusted(s) THEN "deleted" ELSE "active")

\* buildTrustTransitionBaseline: the tombstone of a revoked device is the one
\* this device would have written.
TombstoneExpected(l, s, i) == \A d \in Removed(s, i) :
    l.profiles[d].st = "active" =>
        s.profiles[d] = Tombstone(l.profiles[d], s.chain[i].by)
RevocationsConsistent(l, s) == \A i \in Suffix(l, s) : \A d \in Removed(s, i) :
    /\ s.profiles[d].st # "active" /\ l.profiles[d].st # "deleted"
    /\ TombstoneExpected(l, s, i)

\* The profiles of the devices the suffix is about are not up for review.
Baseline(l, s) == [d \in Devices |->
    IF d \in Enrolled(l, s) \cup RevokedSince(l, s)
    THEN s.profiles[d] ELSE l.profiles[d]]

-----------------------------------------------------------------------------
(* What a device at snapshot l requires of the remote snapshot s before it *)
(* follows it, in each of the three flows.                                 *)

Verified(l, s) == /\ Behind(l, s) /\ ValidSnapshot(s) /\ Descends(s, l)
                  /\ ProfilesMatchTrust(l) /\ ProfilesMatchTrust(s)

\* Normal sync may take a marker away, and neither set nor replace one.
MarkerMustBeSame(l, s) == s.marker = l.marker             \* seeded fault
MarkerMayFollow(l, s) == s.marker = l.marker \/ s.marker = None

\* prepare-sync-review.ts and apply-sync-resolution.ts
CanReview(l, s) ==
    /\ s.chain = l.chain /\ s.slots = l.slots /\ s.key = l.key
    /\ Verified(l, s) /\ MarkerMayFollow(l, s) /\ Reviewable(l.profiles, s)

\* device-enrollment-consumption.service.ts
CanConsumeEnrollments(l, s) ==
    /\ s.chain # l.chain /\ Verified(l, s)
    /\ \A i \in Suffix(l, s) : IsEnrollment(s, i)
    /\ s.slots = l.slots \cup Enrolled(l, s) /\ s.key = l.key
    /\ MarkerMayFollow(l, s)
    /\ EnrollmentsConsistent(l, s) /\ Reviewable(Baseline(l, s), s)

\* A marker is the one of the last transition.
MarkerOfLastRevocation(s) == s.marker # None =>
    /\ IsRevocation(s, Len(s.chain))
    /\ s.marker = [ids |-> Removed(s, Len(s.chain)), gen |-> KeyGeneration(s)]

\* device-revocation-consumption.service.ts; the tombstones come last.
MayConsumeRevocations(d, l, s) ==
    /\ \E i \in Suffix(l, s) : IsRevocation(s, i)
    /\ Verified(l, s)
    /\ \A i \in Suffix(l, s) : Cardinality(Removed(s, i)) <= 1
    /\ d \in Trusted(s) /\ d \in s.slots
    /\ MarkerOfLastRevocation(s) /\ EnrollmentsConsistent(l, s)
CanConsumeRevocations(d, l, s) ==
    /\ MayConsumeRevocations(d, l, s)
    /\ RevocationsConsistent(l, s) /\ Reviewable(Baseline(l, s), s)

-----------------------------------------------------------------------------
NoUpload(d) == upload[d] = None
InFlight(d) == ~NoUpload(d) /\ upload[d].st \in {"sending", "resending"}

\* prepareLocalMutation: nothing unsettled, a credential the storage accepts,
\* and the remote snapshot is the one this device has.
UpToDate(d) == /\ local[d] # None /\ NoUpload(d)
               /\ rec[d].cur \in live /\ local[d] = remote

\* A device makes snapshot s out of base and stores it with record r.
Successor(d, base) == [base EXCEPT !.vv = IncrementVersionVector(@, d), !.by = d]
Depth(s) == FoldFunction(LAMBDA m, n : m + n, 0, s.vv)
Edits(s) == FoldFunction(LAMBDA m, n : m + n, 0, s.content)
WithinBounds(s) == /\ mishaps' <= MaxMishaps
                   /\ Depth(s) + mishaps' * (2 + Edits(s)) <= MaxDepth

Persist(d, s, r, serves) ==
    /\ mishaps' = mishaps + (IF \E x \in Devices : InFlight(x) THEN 1 ELSE 0)
    /\ WithinBounds(s)
    /\ local' = [local EXCEPT ![d] = s]
    /\ rec' = [rec EXCEPT ![d] = r]
    /\ upload' = [upload EXCEPT ![d] =
                    [st |-> "sending", exp |-> remote, back |-> local[d],
                     backRec |-> rec[d], serves |-> serves]]

\* A device takes the remote snapshot as it is, with record r.
Adopt(d, r) == /\ local' = [local EXCEPT ![d] = remote]
               /\ rec' = [rec EXCEPT ![d] = r]
               /\ upload' = [upload EXCEPT ![d] = None]

\* The vault when all members have the snapshot that m made.
FirstSnapshot(m) ==
    [vv |-> [Zero EXCEPT ![m] = 1], by |-> m,
     chain |-> <<[devs |-> Members, gen |-> 1, by |-> None]>>,
     key |-> 1, cred |-> 1, slots |-> Members,
     profiles |-> [d \in Devices |->
        IF d \in Members
        THEN [st |-> "active", vv |-> IncrementVersionVector(Zero, d)]
        ELSE Missing],
     marker |-> None, content |-> Zero]

Init ==
    \E first \in {FirstSnapshot(m) : m \in Members} :
        /\ remote = first
        /\ local = [d \in Devices |-> IF d \in Members
                        THEN first ELSE None]
        /\ rec = [d \in Devices |-> IF d \in Members
                    THEN [cur |-> 1, prev |-> None] ELSE None]
        /\ upload = [d \in Devices |-> None]
        /\ approval = [d \in Devices |-> None]
        /\ live = {1}
        /\ rotations = 1
        /\ mishaps = 0

\* An edit of the vault (vault-mutation.service.ts).
Edit(d) ==
    /\ UpToDate(d)
    /\ Edits(local[d]) < MaxEdits
    /\ Persist(d, [Successor(d, local[d]) EXCEPT
                     !.content = IncrementVersionVector(@, d)], rec[d], None)
    /\ UNCHANGED <<remote, approval, live, rotations>>

-----------------------------------------------------------------------------
(* Enrollment.                                                             *)

\* requireProviderCredentialRevocationComplete
RevocationComplete(d) == local[d].marker = None /\ rec[d].prev = None

\* initialize-device-enrollment.ts: a new identity, never one that was revoked.
AuthorizeEnrollment(d) ==
    /\ UpToDate(d) /\ RevocationComplete(d)
    /\ \E new \in Devices \ EverTrusted(local[d]) :
           LET s == local[d]
           IN  Persist(d, [Successor(d, s) EXCEPT
                    !.chain = Append(@, [devs |-> Trusted(s) \cup {new},
                                         gen |-> KeyGeneration(s), by |-> d]),
                    !.slots = @ \cup {new}], rec[d], new)
    /\ UNCHANGED <<remote, approval, live, rotations>>

\* A device that is trusted already is given the snapshot as it is.
ApproveAgain(d) ==
    /\ UpToDate(d)
    /\ \E new \in Trusted(local[d]) :
           /\ local[new] = None
           /\ approval[new] # local[d]
           /\ approval' = [approval EXCEPT ![new] = local[d]]
    /\ UNCHANGED <<remote, local, rec, upload, live, rotations, mishaps>>

\* device-enrollment-approval.service.ts: the snapshot the device was given
\* trusts it and has an envelope it can open.
OpensApproval(d) ==
    /\ approval[d] # None
    /\ ValidSnapshot(approval[d])
    /\ d \in Trusted(approval[d]) /\ d \in approval[d].slots

\* perform-device-enrollment.ts: the approved snapshot must still be the
\* remote one; the user enters the credential of the last rotation.
PerformEnrollment(d) ==
    /\ local[d] = None /\ OpensApproval(d) /\ approval[d] = remote
    /\ remote.profiles[d].st = "missing"
    /\ remote.cred \in live
    /\ Persist(d, [Successor(d, remote) EXCEPT
                     !.profiles = AddProfile(@, d)],
               [cur |-> remote.cred, prev |-> None], None)
    /\ UNCHANGED <<remote, approval, live, rotations>>

-----------------------------------------------------------------------------
(* Following the remote snapshot.                                          *)

\* With nothing to review, or only remote states chosen, normal sync takes
\* the snapshot over; a choice for the local state of something that exists
\* on both sides makes a snapshot of its own.
KeepsLocal(l, s) == \/ l.content # s.content
                    \/ \E d \in ChangedProfiles(l.profiles, s) :
                           l.profiles[d].st # "missing"

HasReviews(l, s) == \/ l.content # s.content
                    \/ ChangedProfiles(Baseline(l, s), s) # {}

\* What is resolved is the remote vault, but for reviewed things stamped, and
\* the remote chain, key and envelopes.
Resolved(d, l, s) ==
    [s EXCEPT !.vv = IncrementVersionVector(MergeVersionVectors(l.vv, @), d),
              !.by = d,
              !.profiles = StampedProfiles(Baseline(l, s), s, d),
              !.content = IF l.content = @ THEN @ ELSE
                  IncrementVersionVector(MergeVersionVectors(l.content, @), d)]

MayFollow(d) == /\ local[d] # None
                /\ ~NoUpload(d) => upload[d].st = "unknown"

AdoptRemote(d) ==
    /\ MayFollow(d) /\ rec[d].cur \in live
    /\ CanReview(local[d], remote)
    /\ Adopt(d, rec[d])
    /\ UNCHANGED <<remote, approval, live, rotations, mishaps>>

ResolveRemote(d) ==
    /\ MayFollow(d) /\ rec[d].cur \in live
    /\ KeepsLocal(local[d], remote) /\ CanReview(local[d], remote)
    /\ Persist(d, Resolved(d, local[d], remote), rec[d], None)
    /\ UNCHANGED <<remote, approval, live, rotations>>

\* consume-device-enrollment.ts
ConsumeEnrollments(d) ==
    /\ MayFollow(d) /\ rec[d].cur \in live
    /\ CanConsumeEnrollments(local[d], remote)
    /\ IF HasReviews(local[d], remote)
       THEN Persist(d, Resolved(d, local[d], remote), rec[d], None)
       ELSE Adopt(d, rec[d]) /\ UNCHANGED mishaps
    /\ UNCHANGED <<remote, approval, live, rotations>>

\* consume-device-revocation.ts: the user enters the credential of the last
\* rotation; the one it replaces must not be followed by a third.
ConsumeRevocations(d) ==
    /\ MayFollow(d)
    /\ remote.cred \in live /\ remote.cred # rec[d].cur
    /\ rec[d].prev # None => rec[d].prev.cred \notin live
    /\ CanConsumeRevocations(d, local[d], remote)
    /\ LET r == [cur |-> remote.cred,
                 prev |-> [cred |-> rec[d].cur,
                           ids |-> RevokedSince(local[d], remote),
                           gen |-> KeyGeneration(remote)]]
       IN  IF HasReviews(local[d], remote)
           THEN Persist(d, Resolved(d, local[d], remote), r, None)
           ELSE Adopt(d, r) /\ UNCHANGED mishaps
    /\ UNCHANGED <<remote, approval, live, rotations>>

-----------------------------------------------------------------------------
(* Revocation.                                                             *)

\* revoke-device.ts: a new key with envelopes for the survivors, the
\* tombstone, the marker, and the new credential with the one it replaces.
RevokeKeepingKey(d) ==                              \* seeded fault
    LET s == local[d]
        n == rotations + 1
    IN  /\ UpToDate(d) /\ RevocationComplete(d)
        /\ rotations' = n /\ live' = live \cup {n}
        /\ \E old \in Trusted(s) \ {d} :
               LET survivors == Trusted(s) \ {old}
                   marker == [ids |-> {old}, gen |-> KeyGeneration(s) + 1]
               IN  Persist(d, [Successor(d, s) EXCEPT
                        !.chain = Append(@, [devs |-> survivors,
                                             gen |-> marker.gen, by |-> d]),
                        !.slots = survivors, !.cred = n,
                        !.profiles = RevokeProfile(@, d, old),
                        !.marker = marker],
                      [cur |-> n,
                       prev |-> [cred |-> rec[d].cur, ids |-> {old},
                                 gen |-> marker.gen]],
                      None)
        /\ UNCHANGED <<remote, approval>>

Revoke(d) ==
    LET s == local[d]
        n == rotations + 1
    IN  /\ UpToDate(d) /\ RevocationComplete(d)
        /\ rotations' = n /\ live' = live \cup {n}
        /\ \E old \in Trusted(s) \ {d} :
               LET survivors == Trusted(s) \ {old}
                   marker == [ids |-> {old}, gen |-> KeyGeneration(s) + 1]
               IN  Persist(d, [Successor(d, s) EXCEPT
                        !.chain = Append(@, [devs |-> survivors,
                                             gen |-> marker.gen, by |-> d]),
                        !.slots = survivors, !.key = n, !.cred = n,
                        !.profiles = RevokeProfile(@, d, old),
                        !.marker = marker],
                      [cur |-> n,
                       prev |-> [cred |-> rec[d].cur, ids |-> {old},
                                 gen |-> marker.gen]],
                      None)
        /\ UNCHANGED <<remote, approval>>

\* The marker in the vault is about the very rotation this device records.
AnyMarkerMatches(d) == local[d].marker # None            \* seeded fault
SharedMarkerMatches(d) ==
    local[d].marker = [ids |-> rec[d].prev.ids, gen |-> rec[d].prev.gen]

MayComplete(d) == /\ local[d] # None /\ NoUpload(d)
                  /\ rec[d].prev # None
                  /\ rec[d].prev.gen = KeyGeneration(local[d])
                  /\ rec[d].prev.cred \notin live

\* complete-provider-credential-revocation.ts: this device saw the old
\* credential rejected.  Its own record is complete, and so is the vault's
\* marker when it is about the same rotation.
CompleteOwn(d) ==
    /\ MayComplete(d) /\ ~SharedMarkerMatches(d)
    /\ rec' = [rec EXCEPT ![d].prev = None]
    /\ UNCHANGED <<remote, local, upload, approval, live, rotations, mishaps>>

CompleteShared(d) ==
    /\ MayComplete(d) /\ SharedMarkerMatches(d) /\ UpToDate(d)
    /\ Persist(d, [Successor(d, local[d]) EXCEPT !.marker = None],
               [rec[d] EXCEPT !.prev = None], None)
    /\ UNCHANGED <<remote, approval, live, rotations>>

\* The user deletes a credential that was replaced (not in the program).
DeleteCredential(c) ==
    /\ c \in live /\ c < remote.cred
    /\ live' = live \ {c}
    /\ UNCHANGED <<remote, local, rec, upload, approval, rotations, mishaps>>

-----------------------------------------------------------------------------
(* The upload: a compare-and-set of the remote object.                     *)

\* Whoever an authorization was for gets the snapshot once its upload is
\* complete, and also when its outcome is unknown.
Hands(d) == approval' = IF upload[d].serves = None THEN approval
                        ELSE [approval EXCEPT ![upload[d].serves] = local[d]]

ConditionIgnored(d) == TRUE                              \* seeded fault
ConditionHolds(d) == remote = upload[d].exp

Complete(d) ==
    /\ InFlight(d)
    /\ ConditionHolds(d)
    /\ remote' = local[d]
    /\ upload' = [upload EXCEPT ![d] = None]
    /\ Hands(d)
    /\ UNCHANGED <<local, rec, live, rotations, mishaps>>

\* No answer: the snapshot stays, whether it was written or not.
Lose(d) ==
    /\ InFlight(d)
    /\ mishaps' = mishaps + 1 /\ WithinBounds(local[d])
    /\ \/ ConditionHolds(d) /\ remote' = local[d]
       \/ UNCHANGED remote
    /\ upload' = [upload EXCEPT ![d].st = "unknown"]
    /\ Hands(d)
    /\ UNCHANGED <<local, rec, live, rotations>>

\* Refused: the device goes back to the snapshot and record it had; a new
\* device discards the vault it was about to have.
RefusedKeepingRecord(d) ==                               \* seeded fault
    /\ ~NoUpload(d) /\ upload[d].st = "sending"
    /\ ~ConditionHolds(d)
    /\ local' = [local EXCEPT ![d] = upload[d].back]
    /\ upload' = [upload EXCEPT ![d] = None]
    /\ UNCHANGED <<remote, rec, approval, live, rotations, mishaps>>

Refused(d) ==
    /\ ~NoUpload(d) /\ upload[d].st = "sending"
    /\ ~ConditionHolds(d)
    /\ local' = [local EXCEPT ![d] = upload[d].back]
    /\ rec' = [rec EXCEPT ![d] = upload[d].backRec]
    /\ upload' = [upload EXCEPT ![d] = None]
    /\ UNCHANGED <<remote, approval, live, rotations, mishaps>>

\* sync-upload.ts: the outcome of an earlier upload is looked up.
Reconcile(d) ==
    /\ ~NoUpload(d) /\ upload[d].st = "unknown"
    /\ rec[d].cur \in live
    /\ \/ /\ remote = local[d]
          /\ upload' = [upload EXCEPT ![d] = None]
       \/ /\ remote = upload[d].exp
          /\ upload' = [upload EXCEPT ![d].st = "resending"]
    /\ UNCHANGED <<remote, local, rec, approval, live, rotations, mishaps>>

\* A retry that is refused undoes nothing.
RetryRefused(d) ==
    /\ ~NoUpload(d) /\ upload[d].st = "resending"
    /\ ~ConditionHolds(d)
    /\ upload' = [upload EXCEPT ![d].st = "unknown"]
    /\ UNCHANGED <<remote, local, rec, approval, live, rotations, mishaps>>

Next ==
    \/ \E d \in Devices :
          \/ Edit(d)
          \/ PerformEnrollment(d)
          \/ AdoptRemote(d) \/ ResolveRemote(d)
          \/ ConsumeEnrollments(d) \/ ConsumeRevocations(d)
          \/ CompleteOwn(d) \/ CompleteShared(d)
          \/ Complete(d) \/ Lose(d) \/ Refused(d)
          \/ Reconcile(d) \/ RetryRefused(d)
          \/ AuthorizeEnrollment(d) \/ ApproveAgain(d) \/ Revoke(d)
    \/ \E c \in live : DeleteCredential(c)

Spec == Init /\ [][Next]_vars

-----------------------------------------------------------------------------
(* Properties.                                                             *)

\* A snapshot that a device could hold now.
IsSnapshot(s) == /\ s \in Snapshot /\ s.chain # <<>>
                 /\ s.key \in 1 .. rotations /\ s.cred \in 1 .. rotations

\* Every variable holds a value of its kind; a device has credentials exactly
\* when it has a vault.
TypeOK ==
    /\ IsSnapshot(remote)
    /\ \A d \in Devices :
          /\ local[d] = None \/ IsSnapshot(local[d])
          /\ approval[d] = None \/ IsSnapshot(approval[d])
          /\ rec[d] \in Record \cup {None}
          /\ upload[d] \in Upload \cup {None}
          /\ (rec[d] = None) = (local[d] = None)
          /\ rec[d] # None => rec[d].cur \in 1 .. rotations
          /\ upload[d] # None => local[d] # None
    /\ live \subseteq 1 .. rotations
    /\ rotations \in Nat /\ mishaps \in 0 .. MaxMishaps

\* The remote snapshot is only ever replaced by a device that it trusts, with
\* a chain that continues its own: a device that was revoked while it was
\* working never writes again, and no certificate is lost, whoever resolves
\* or consumes what others changed in the meantime.
TrustOnlyContinues ==
    [][remote' # remote => /\ remote'.by \in Trusted(remote)
                           /\ IsPrefix(remote.chain, remote'.chain)]_vars

\* A device that was revoked has no key of the vault as it is now, whatever
\* it did while it was being revoked (DEVICE-004).
RevokedHoldNoKey ==
    \A d \in Revoked(remote) : local[d] # None => local[d].key # remote.key

\* Once the vault says that the storage has withdrawn the credentials of those
\* who were revoked, no revoked device holds a credential that still works.
\* A device that cannot tell if its own upload was made may have been given a
\* credential that the vault never knew.
CompleteMeansRevoked ==
    remote.marker = None => \A d \in Revoked(remote) :
        local[d] # None /\ NoUpload(d) =>
            /\ rec[d].cur \notin live
            /\ rec[d].prev # None => rec[d].prev.cred \notin live

\* A replaced credential is remembered together with the rotation of the
\* snapshot that is stored: otherwise its completion is refused for good.
ReplacedWithThisRotation ==
    \A d \in Devices : local[d] # None /\ rec[d].prev # None =>
        rec[d].prev.gen = KeyGeneration(local[d])

NeedsToFollow(d) == /\ local[d] # None
                    /\ d \in Trusted(remote) /\ Behind(local[d], remote)
CanFollow(d) == \/ CanReview(local[d], remote)
                \/ CanConsumeEnrollments(local[d], remote)
                \/ CanConsumeRevocations(d, local[d], remote)

\* A trusted device that is behind can always take the remote snapshot over
\* (DEVICE-006; "This lets an offline survivor process the current object").
FollowersCanFollow == \A d \in Devices : NeedsToFollow(d) => CanFollow(d)

\* The profile of a device that was revoked had been stamped by a resolution
\* this device did not see.
MissedStamp(l, s) ==
    \E i \in Suffix(l, s) : \E x \in Removed(s, i) :
        /\ l.profiles[x].st = "active"
        /\ IsVersionVectorAheadOf(s.profiles[x].vv,
               Tombstone(l.profiles[x], s.chain[i].by).vv)

\* Whatever a trusted device missed - enrollments, revocations, resolutions,
\* completed revocations, in any order - it can follow, but for one case.
OnlyMissedStampsStop ==
    \A d \in Devices : NeedsToFollow(d) /\ ~CanFollow(d) =>
        /\ MayConsumeRevocations(d, local[d], remote)
        /\ MissedStamp(local[d], remote)
=============================================================================
