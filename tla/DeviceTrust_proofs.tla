------------------------- MODULE DeviceTrust_proofs -------------------------
(* The safety of device trust, for any devices, any number of enrollments    *)
(* and revocations, and uploads that overlap, are refused or whose outcome   *)
(* is unknown.  Three invariants are inductive, the others given the first:  *)
(*   - IInv: every snapshot that is anywhere has a chain that was built one  *)
(*     certificate at a time, snapshots with one key agree on who was        *)
(*     revoked, and a snapshot that is being uploaded continues the one it   *)
(*     is to replace;                                                        *)
(*   - LineInv: on the line of certificates to the remote snapshot, only the *)
(*     credential just before its own may still work;                        *)
(*   - FollowInv: every stored snapshot leads to the remote one, or waits    *)
(*     for its upload to be settled.                                         *)
(* Every step is of one of five kinds (StepKinds), and each kind is shown to *)
(* keep all three.                                                           *)
EXTENDS TrustChain_proofs

-----------------------------------------------------------------------------
(* The inductive invariant.                                                *)

\* The snapshots that are somewhere: in the remote object, in a local store,
\* with a new device, or what an upload replaces or goes back to.
Held(s) ==
    /\ s # None
    /\ \/ s = remote
       \/ \E d \in Devices :
             \/ s = local[d] \/ s = approval[d]
             \/ upload[d] # None /\ (s = upload[d].exp \/ s = upload[d].back)

\* The vaults a device has, with its credentials for each.
Holds(d, s, r) ==
    /\ s # None
    /\ \/ s = local[d] /\ r = rec[d]
       \/ /\ upload[d] # None
          /\ s = upload[d].back /\ r = upload[d].backRec

TypeInv ==
    /\ remote \in Snapshot
    /\ local \in [Devices -> Snapshot \cup {None}]
    /\ approval \in [Devices -> Snapshot \cup {None}]
    /\ rec \in [Devices -> Record \cup {None}]
    /\ upload \in [Devices -> Upload \cup {None}]
    /\ rotations \in Nat /\ live \subseteq 1 .. rotations
    /\ mishaps \in 0 .. MaxMishaps

\* Credentials come with a vault, and go with it.
PresenceInv == \A d \in Devices :
    /\ (rec[d] = None) <=> (local[d] = None)
    /\ upload[d] # None =>
          /\ local[d] # None
          /\ (upload[d].backRec = None) <=> (upload[d].back = None)

Sound(s) == /\ s.key \in 1 .. rotations /\ s.cred = s.key
            /\ Lineage(s.chain)
            /\ s.marker # None => One(s.marker.ids)
HeldInv == \A s \in Snapshot : Held(s) => Sound(s)

\* Two snapshots with one key agree on who was revoked: a key is never used on
\* both sides of a revocation.
SameFamily(s, t) == /\ Revoked(s) = Revoked(t)
                    /\ KeyGeneration(s) = KeyGeneration(t)
FamilyInv == \A s, t \in Snapshot :
    Held(s) /\ Held(t) /\ s.key = t.key => SameFamily(s, t)

\* A device is trusted by every vault it has, its current credential came with
\* the key, and the one it replaced was replaced by the last rotation.
Entitled(d, s, r) ==
    /\ d \in Trusted(s) /\ r.cur = s.key
    /\ r.prev # None => /\ r.prev.gen = KeyGeneration(s)
                        /\ r.prev.cred \in 1 .. rotations
HoldInv == \A d \in Devices, s \in Snapshot, r \in Record :
    Holds(d, s, r) => Entitled(d, s, r)

\* What device d makes of snapshot e, with record r: it keeps the key, or it
\* revokes, which no marker forbids.
KeepsKey(s, e, r) == /\ s.key = e.key /\ SameFamily(s, e)
                     /\ s.chain # e.chain => r.prev = None
                     /\ s.marker = e.marker \/ s.marker = None
Rotates(s, e, r) == /\ s.key # e.key
                    /\ KeyGeneration(s) = KeyGeneration(e) + 1
                    /\ e.marker = None /\ s.marker # None
                    /\ r.prev # None /\ r.prev.cred = e.key /\ One(r.prev.ids)
Continues(d, s, e, r) ==
    /\ IsPrefix(e.chain, s.chain)
    /\ \/ s.chain = e.chain
       \/ Len(s.chain) = Len(e.chain) + 1 /\ LastCertificate(s).by = d
    /\ KeepsKey(s, e, r) \/ Rotates(s, e, r)

\* A snapshot that is being uploaded continues the one it replaces, by a device
\* that one trusts; that one, and what is stored without an upload, is on the
\* line of certificates that leads to the remote snapshot.
OnLine(s) == IsPrefix(s.chain, remote.chain)
Uploads(d) ==
    /\ local[d].by = d /\ d \in Trusted(upload[d].exp)
    /\ Continues(d, local[d], upload[d].exp, rec[d])
    /\ OnLine(upload[d].exp)
    /\ upload[d].back # None => IsPrefix(upload[d].back.chain, upload[d].exp.chain)
UploadInv == \A d \in Devices : upload[d] # None => Uploads(d)
SettledInv == \A d \in Devices :
    upload[d] = None /\ local[d] # None => OnLine(local[d])

IInv == /\ TypeInv /\ PresenceInv /\ HeldInv /\ FamilyInv /\ HoldInv
        /\ UploadInv /\ SettledInv

-----------------------------------------------------------------------------
(* What follows from the invariant about the snapshots at hand.            *)

\* None is none of the values.
LEMMA NotNone == /\ \A s \in Snapshot : s # None
                 /\ \A r \in Record : r # None
                 /\ \A p \in Replaced : p # None
                 /\ \A u \in Upload : u # None
                 /\ \A m \in Marker : m # None
                 /\ \A d \in Devices : d # None
BY NoneAssumption

\* Of the remote snapshot.
LEMMA RemoteFacts ==
    ASSUME IInv
    PROVE  /\ remote \in Snapshot /\ Held(remote) /\ Sound(remote)
           /\ remote.chain \in Chains /\ remote.chain # <<>>
           /\ KeyGeneration(remote) \in Nat /\ OnLine(remote)
<1>1. remote \in Snapshot /\ Held(remote)
  BY NotNone DEF IInv, TypeInv, Held
<1>2. Sound(remote)
  BY <1>1 DEF IInv, HeldInv
<1>3. remote.chain # <<>>
  BY <1>2 DEF Sound, Lineage
<1> QED
  BY <1>1, <1>2, <1>3, LastOfChain, PrefixReflexive DEF OnLine

\* Of the vault in a local store.
LEMMA LocalFacts ==
    ASSUME IInv, NEW d \in Devices, local[d] # None
    PROVE  /\ local[d] \in Snapshot /\ rec[d] \in Record
           /\ Held(local[d]) /\ Sound(local[d])
           /\ Holds(d, local[d], rec[d]) /\ Entitled(d, local[d], rec[d])
           /\ local[d].chain \in Chains /\ local[d].chain # <<>>
           /\ KeyGeneration(local[d]) \in Nat
<1>1. local[d] \in Snapshot /\ rec[d] \in Record
  BY DEF IInv, TypeInv, PresenceInv
<1>2. Held(local[d]) /\ Holds(d, local[d], rec[d])
  BY DEF Held, Holds
<1>3. Sound(local[d])
  BY <1>1, <1>2 DEF IInv, HeldInv
<1>4. Entitled(d, local[d], rec[d])
  BY <1>1, <1>2 DEF IInv, HoldInv
<1>5. local[d].chain # <<>>
  BY <1>3 DEF Sound, Lineage
<1> QED
  BY <1>1, <1>2, <1>3, <1>4, <1>5, LastOfChain

\* Of an upload that is not settled, and what it goes back to.
LEMMA UploadFacts ==
    ASSUME IInv, NEW d \in Devices, upload[d] # None
    PROVE  /\ upload[d] \in Upload /\ local[d] # None /\ Uploads(d)
           /\ upload[d].exp \in Snapshot
           /\ Held(upload[d].exp) /\ Sound(upload[d].exp)
           /\ upload[d].exp.chain \in Chains /\ upload[d].exp.chain # <<>>
           /\ KeyGeneration(upload[d].exp) \in Nat
           /\ upload[d].serves \in Devices \cup {None}
           /\ upload[d].back # None =>
                /\ upload[d].back \in Snapshot /\ upload[d].backRec \in Record
                /\ Held(upload[d].back) /\ Sound(upload[d].back)
                /\ Holds(d, upload[d].back, upload[d].backRec)
                /\ Entitled(d, upload[d].back, upload[d].backRec)
                /\ upload[d].back.chain \in Chains
                /\ upload[d].back.chain # <<>>
                /\ OnLine(upload[d].back)
           /\ upload[d].back \in Snapshot \cup {None}
           /\ upload[d].backRec \in Record \cup {None}
<1>1. upload[d] \in Upload /\ local[d] # None /\ Uploads(d)
  BY DEF IInv, TypeInv, PresenceInv, UploadInv
<1>2. /\ upload[d].exp \in Snapshot /\ upload[d].back \in Snapshot \cup {None}
      /\ upload[d].backRec \in Record \cup {None}
      /\ upload[d].serves \in Devices \cup {None}
  BY <1>1 DEF Upload
<1>3. Held(upload[d].exp)
  BY <1>2, NotNone DEF Held
<1>4. Sound(upload[d].exp)
  BY <1>2, <1>3 DEF IInv, HeldInv
<1>5. upload[d].exp.chain # <<>>
  BY <1>4 DEF Sound, Lineage
<1>6. upload[d].exp.chain \in Chains /\ KeyGeneration(upload[d].exp) \in Nat
  BY <1>2, <1>5, LastOfChain
<1>7. ASSUME upload[d].back # None
      PROVE  /\ upload[d].back \in Snapshot /\ upload[d].backRec \in Record
             /\ Held(upload[d].back) /\ Sound(upload[d].back)
             /\ Holds(d, upload[d].back, upload[d].backRec)
             /\ Entitled(d, upload[d].back, upload[d].backRec)
             /\ upload[d].back.chain \in Chains
             /\ upload[d].back.chain # <<>>
             /\ OnLine(upload[d].back)
  <2>1. upload[d].back \in Snapshot /\ upload[d].backRec \in Record
    BY <1>2, <1>7 DEF IInv, PresenceInv
  <2>2. Held(upload[d].back) /\ Holds(d, upload[d].back, upload[d].backRec)
    BY <1>7 DEF Held, Holds
  <2>3. Sound(upload[d].back)
    BY <2>1, <2>2 DEF IInv, HeldInv
  <2>4. Entitled(d, upload[d].back, upload[d].backRec)
    BY <2>1, <2>2 DEF IInv, HoldInv
  <2>5. upload[d].back.chain # <<>> /\ upload[d].back.chain \in Chains
    BY <2>1, <2>3, LastOfChain DEF Sound, Lineage
  <2>6. OnLine(upload[d].back)
    BY <1>1, <1>6, <1>7, <2>5, RemoteFacts, PrefixTransitive DEF Uploads, OnLine
  <2> QED
    BY <2>1, <2>2, <2>3, <2>4, <2>5, <2>6
<1> QED
  BY <1>1, <1>2, <1>3, <1>4, <1>5, <1>6, <1>7

-----------------------------------------------------------------------------
(* A device stores a snapshot of its own, or the remote one.               *)

\* The credential that a device remembers as replaced is the one it remembered
\* before, or the one it had when it missed the last rotation.
Remembers(d, p) ==
    /\ local[d] # None
    /\ \/ p = rec[d].prev
       \/ /\ p.cred = local[d].key /\ local[d].key # remote.key
          /\ p.gen = KeyGeneration(remote)
          /\ KeyGeneration(local[d]) < KeyGeneration(remote)
          /\ One(p.ids) <=> KeyGeneration(remote) = KeyGeneration(local[d]) + 1

\* A device that says the rotation of the remote snapshot is complete has seen
\* the credential rejected that this rotation replaced.
Witnessed(d) ==
    /\ local[d] # None /\ OnLine(local[d])
    /\ rec[d].prev # None /\ One(rec[d].prev.ids)
    /\ rec[d].prev.gen = KeyGeneration(remote) /\ rec[d].prev.cred \notin live

\* What every operation makes sure of before it stores s with record r.
Prepared(d, s, r) ==
    /\ s \in Snapshot /\ r \in Record /\ d \in Trusted(remote)
    /\ s.cred = s.key /\ Lineage(s.chain)
    /\ s.marker # None => One(s.marker.ids)
    /\ Entitled(d, s, r)
    /\ Continues(d, s, remote, r)
    /\ local[d] # None => OnLine(local[d])
    /\ s.chain = remote.chain /\ r.prev # None => Remembers(d, r.prev)
    /\ s.marker = None /\ remote.marker # None => Witnessed(d)

\* A snapshot with a new key comes with the next rotation.
Rotated(s) ==
    \/ s.key = remote.key /\ rotations' = rotations /\ live' = live
    \/ /\ s.key = rotations + 1 /\ rotations' = rotations + 1
       /\ live' = live \cup {rotations + 1}

\* Nothing that is held has the key of a rotation to come.
LEMMA RotationsGrow ==
    ASSUME IInv, NEW s, Rotated(s)
    PROVE  /\ rotations' \in Nat /\ rotations <= rotations'
           /\ live' \subseteq 1 .. rotations'
           /\ \A n \in 1 .. rotations : n \in 1 .. rotations'
           /\ \A n \in 1 .. rotations : n \in live' => n \in live
           /\ s.key \in 1 .. rotations'
           /\ s.key # remote.key => s.key \notin 1 .. rotations
<1>1. /\ rotations \in Nat /\ live \subseteq 1 .. rotations
      /\ remote.key \in 1 .. rotations
  BY RemoteFacts DEF IInv, TypeInv, Sound
<1>2. CASE s.key = remote.key /\ rotations' = rotations /\ live' = live
  BY <1>1, <1>2
<1>3. CASE /\ s.key = rotations + 1 /\ rotations' = rotations + 1
           /\ live' = live \cup {rotations + 1}
  BY <1>1, <1>3
<1> QED
  BY <1>2, <1>3 DEF Rotated

\* A new snapshot agrees with all that is held under its key.
LEMMA FamilyOfRemote ==
    ASSUME IInv, NEW d, NEW s, NEW r, Prepared(d, s, r), Rotated(s),
           NEW t \in Snapshot, Held(t), t.key = s.key
    PROVE  SameFamily(s, t) /\ SameFamily(t, s)
<1>1. t.key \in 1 .. rotations
  BY DEF IInv, HeldInv, Sound
<1>2. s.key = remote.key
  BY <1>1, RotationsGrow
<1>3. SameFamily(s, remote)
  BY <1>2 DEF Prepared, Continues, KeepsKey, Rotates
<1>4. SameFamily(t, remote)
  BY <1>2, RemoteFacts DEF IInv, FamilyInv
<1> QED
  BY <1>3, <1>4 DEF SameFamily

\* What is held stays sound, of one family with its key and in the hands of
\* those it trusts when a device stores what it prepared.
LEMMA PreparedJoinsHeld ==
    ASSUME IInv, NEW d \in Devices, NEW s, NEW r,
           Prepared(d, s, r), Rotated(s),
           \A t \in Snapshot : Held(t)' => Held(t) \/ t = s,
           \A x \in Devices, t \in Snapshot, q \in Record :
               Holds(x, t, q)' => Holds(x, t, q) \/ (x = d /\ t = s /\ q = r)
    PROVE  HeldInv' /\ FamilyInv' /\ HoldInv'
<1>1. ASSUME NEW t \in Snapshot, Held(t)'
      PROVE  Sound(t)'
  <2>1. CASE Held(t)
    <3>1. Sound(t)
      BY <2>1 DEF IInv, HeldInv
    <3> QED
      BY <3>1, RotationsGrow DEF Sound
  <2>2. CASE t = s
    BY <2>2, RotationsGrow DEF Sound, Prepared
  <2> QED
    BY <1>1, <2>1, <2>2
<1>2. ASSUME NEW t \in Snapshot, NEW u \in Snapshot, Held(t)', Held(u)',
             t.key = u.key
      PROVE  SameFamily(t, u)
  <2>1. CASE Held(t) /\ Held(u)
    BY <1>2, <2>1 DEF IInv, FamilyInv
  <2>2. CASE t = s /\ u = s
    BY <2>2 DEF SameFamily
  <2>3. CASE t = s /\ Held(u)
    BY <1>2, <2>3, FamilyOfRemote
  <2>4. CASE u = s /\ Held(t)
    BY <1>2, <2>4, FamilyOfRemote
  <2> QED
    BY <1>2, <2>1, <2>2, <2>3, <2>4
<1>3. ASSUME NEW x \in Devices, NEW t \in Snapshot, NEW q \in Record,
             Holds(x, t, q)'
      PROVE  Entitled(x, t, q)'
  <2>1. Entitled(x, t, q)
    BY <1>3 DEF IInv, HoldInv, Prepared
  <2> QED
    BY <2>1, RotationsGrow DEF Entitled, KeyGeneration, Trusted, LastCertificate
<1>4. HeldInv'
  BY <1>1 DEF HeldInv
<1>5. FamilyInv'
  BY <1>2 DEF FamilyInv, SameFamily, Revoked, KeyGeneration, Trusted,
              EverTrusted, LastCertificate
<1>6. HoldInv'
  BY <1>3 DEF HoldInv
<1> QED
  BY <1>4, <1>5, <1>6

\* The same when a step brings nothing new.
LEMMA NothingNewKeepsHeld ==
    ASSUME IInv, rotations' = rotations,
           \A t \in Snapshot : Held(t)' => Held(t),
           \A x \in Devices, t \in Snapshot, q \in Record :
               Holds(x, t, q)' => Entitled(x, t, q)
    PROVE  HeldInv' /\ FamilyInv' /\ HoldInv'
<1>1. HeldInv'
  BY DEF IInv, HeldInv, Sound
<1>2. ASSUME NEW t \in Snapshot, NEW u \in Snapshot, Held(t)', Held(u)',
             t.key = u.key
      PROVE  SameFamily(t, u)
  BY <1>2 DEF IInv, FamilyInv
<1>3. FamilyInv'
  BY <1>2 DEF FamilyInv, SameFamily, Revoked, KeyGeneration, Trusted,
              EverTrusted, LastCertificate
<1>4. HoldInv'
  BY DEF HoldInv, Entitled, KeyGeneration, Trusted, LastCertificate
<1> QED
  BY <1>1, <1>3, <1>4

\* A step that leaves the remote object and what a device has alone leaves the
\* device's part of the invariant alone.
LEMMA OthersUndisturbed ==
    ASSUME IInv, remote' = remote, NEW x \in Devices,
           local'[x] = local[x], rec'[x] = rec[x], upload'[x] = upload[x]
    PROVE  /\ (rec'[x] = None) <=> (local'[x] = None)
           /\ upload'[x] # None =>
                 /\ local'[x] # None
                 /\ (upload'[x].backRec = None) <=> (upload'[x].back = None)
                 /\ Uploads(x)'
           /\ upload'[x] = None /\ local'[x] # None => OnLine(local[x])'
<1>1. upload'[x] # None => Uploads(x)'
  BY DEF IInv, UploadInv, Uploads, OnLine, Continues, KeepsKey, Rotates,
         SameFamily, Revoked, Trusted, KeyGeneration, LastCertificate, EverTrusted
<1> QED
  BY <1>1 DEF IInv, PresenceInv, SettledInv, OnLine

\* What Persist and Adopt do to the variables.
Sent(d, w) == [st |-> "sending", exp |-> remote, back |-> local[d],
               backRec |-> rec[d], serves |-> w]

LEMMA PersistEffect ==
    ASSUME IInv, NEW d \in Devices, NEW s \in Snapshot, NEW r \in Record,
           NEW w \in Devices \cup {None}, Persist(d, s, r, w)
    PROVE  /\ mishaps' \in 0 .. MaxMishaps
           /\ local' = [local EXCEPT ![d] = s]
           /\ rec' = [rec EXCEPT ![d] = r]
           /\ upload' = [upload EXCEPT ![d] = Sent(d, w)]
           /\ Sent(d, w) \in Upload
           /\ local'[d] = s /\ rec'[d] = r /\ upload'[d] = Sent(d, w)
           /\ \A x \in Devices \ {d} :
                 local'[x] = local[x] /\ rec'[x] = rec[x] /\ upload'[x] = upload[x]
<1>1. mishaps' = mishaps + (IF \E x \in Devices : InFlight(x) THEN 1 ELSE 0)
  BY DEF Persist
<1>2. mishaps' <= MaxMishaps
  BY DEF Persist, WithinBounds
<1>3. mishaps' \in 0 .. MaxMishaps
  BY <1>1, <1>2, BoundsAssumption DEF IInv, TypeInv
<1>4. /\ local' = [local EXCEPT ![d] = s] /\ rec' = [rec EXCEPT ![d] = r]
      /\ upload' = [upload EXCEPT ![d] = Sent(d, w)]
  BY DEF Persist, Sent
<1>5. Sent(d, w) \in Upload
  BY DEF IInv, TypeInv, Sent, Upload
<1> QED
  BY <1>3, <1>4, <1>5 DEF IInv, TypeInv

\* What was prepared is a snapshot with a chain, and a record.
LEMMA PreparedIsTyped ==
    ASSUME NEW d, NEW s, NEW r, Prepared(d, s, r)
    PROVE  /\ s \in Snapshot /\ r \in Record /\ s # None /\ r # None
           /\ s.chain \in Chains /\ s.chain # <<>>
           /\ KeyGeneration(s) \in Nat
<1>1. s \in Snapshot /\ r \in Record /\ s.chain # <<>>
  BY DEF Prepared, Lineage
<1> QED
  BY <1>1, NotNone, LastOfChain

\* Storing what was prepared, with its upload begun, keeps the invariant.
LEMMA PersistKeepsInvariant ==
    ASSUME IInv, NEW d \in Devices, NEW s, NEW r, NEW w \in Devices \cup {None},
           Prepared(d, s, r), s.by = d, Persist(d, s, r, w), Rotated(s),
           UNCHANGED <<remote, approval>>
    PROVE  IInv'
<1>1. /\ s \in Snapshot /\ r \in Record /\ s # None /\ r # None
      /\ s.chain \in Chains
  BY PreparedIsTyped
<1>2. /\ mishaps' \in 0 .. MaxMishaps
      /\ local' = [local EXCEPT ![d] = s]
      /\ rec' = [rec EXCEPT ![d] = r]
      /\ upload' = [upload EXCEPT ![d] = Sent(d, w)]
      /\ Sent(d, w) \in Upload
      /\ local'[d] = s /\ rec'[d] = r /\ upload'[d] = Sent(d, w)
      /\ \A x \in Devices \ {d} :
            local'[x] = local[x] /\ rec'[x] = rec[x] /\ upload'[x] = upload[x]
  BY <1>1, PersistEffect
<1>3. TypeInv'
  BY <1>1, <1>2, RotationsGrow DEF IInv, TypeInv
<1>4. /\ Sent(d, w).exp = remote /\ Sent(d, w).back = local[d]
      /\ Sent(d, w).backRec = rec[d] /\ Sent(d, w) # None
  BY <1>2, NotNone DEF Sent
<1>5. ASSUME NEW t \in Snapshot, Held(t)'
      PROVE  Held(t) \/ t = s
  <2>1. t # None
    BY <1>5 DEF Held
  <2>2. CASE t = remote'
    BY <2>1, <2>2 DEF Held
  <2>3. ASSUME NEW x \in Devices,
               \/ t = local'[x] \/ t = approval'[x]
               \/ upload'[x] # None /\ (t = upload'[x].exp \/ t = upload'[x].back)
        PROVE  Held(t) \/ t = s
    <3>1. CASE x = d
      BY <1>2, <1>4, <2>1, <2>3, <3>1 DEF Held
    <3>2. CASE x # d
      BY <1>2, <2>1, <2>3, <3>2 DEF Held
    <3> QED
      BY <3>1, <3>2
  <2> QED
    BY <1>5, <2>2, <2>3 DEF Held
<1>6. ASSUME NEW x \in Devices, NEW t \in Snapshot, NEW q \in Record,
             Holds(x, t, q)'
      PROVE  Holds(x, t, q) \/ (x = d /\ t = s /\ q = r)
  <2>1. CASE x = d
    BY <1>2, <1>4, <1>6, <2>1 DEF Holds
  <2>2. CASE x # d
    BY <1>2, <1>6, <2>2 DEF Holds
  <2> QED
    BY <2>1, <2>2
<1>7. HeldInv' /\ FamilyInv' /\ HoldInv'
  BY <1>5, <1>6, PreparedJoinsHeld
<1>8. Uploads(d)'
  <2>1. OnLine(remote)' /\ d \in Trusted(remote)
    BY RemoteFacts DEF OnLine, Prepared
  <2>2. Continues(d, s, remote, r) /\ (local[d] # None => OnLine(local[d]))
    BY DEF Prepared
  <2>4. Continues(d, local'[d], upload'[d].exp, rec'[d])
    BY <1>2, <1>4, <2>2
  <2>5. local'[d].by = d /\ (d \in Trusted(upload[d].exp))'
    BY <1>2, <1>4, <2>1 DEF Trusted, LastCertificate
  <2>6. OnLine(upload[d].exp)'
    BY <1>2, <1>4, <2>1 DEF OnLine
  <2>7. upload'[d].back # None => IsPrefix(upload'[d].back.chain, upload'[d].exp.chain)
    BY <1>2, <1>4, <2>2 DEF OnLine
  <2> QED
    BY <2>4, <2>5, <2>6, <2>7 DEF Uploads
<1>9. PresenceInv' /\ UploadInv' /\ SettledInv'
  <2>1. ASSUME NEW x \in Devices
        PROVE  /\ (rec'[x] = None) <=> (local'[x] = None)
               /\ upload'[x] # None =>
                     /\ local'[x] # None
                     /\ (upload'[x].backRec = None) <=> (upload'[x].back = None)
                     /\ Uploads(x)'
               /\ upload'[x] = None /\ local'[x] # None => OnLine(local[x])'
    <3>1. CASE x = d
      BY <1>1, <1>2, <1>4, <1>8, <3>1 DEF IInv, PresenceInv
    <3>2. CASE x # d
      BY <1>2, <3>2, OthersUndisturbed
    <3> QED
      BY <3>1, <3>2
  <2> QED
    BY <2>1 DEF PresenceInv, UploadInv, SettledInv
<1> QED
  BY <1>3, <1>7, <1>9 DEF IInv

\* Taking the remote snapshot keeps the invariant.
LEMMA AdoptKeepsInvariant ==
    ASSUME IInv, NEW d \in Devices, NEW r, Prepared(d, remote, r), Adopt(d, r),
           UNCHANGED <<remote, approval, live, rotations, mishaps>>
    PROVE  IInv'
<1>1. /\ remote \in Snapshot /\ r \in Record /\ remote # None /\ r # None
  BY PreparedIsTyped
<1>2. /\ local' = [local EXCEPT ![d] = remote]
      /\ rec' = [rec EXCEPT ![d] = r] /\ upload' = [upload EXCEPT ![d] = None]
      /\ local'[d] = remote /\ rec'[d] = r /\ upload'[d] = None
      /\ \A x \in Devices \ {d} :
            local'[x] = local[x] /\ rec'[x] = rec[x] /\ upload'[x] = upload[x]
  BY DEF Adopt, IInv, TypeInv
<1>3. TypeInv'
  BY <1>1, <1>2 DEF IInv, TypeInv
<1>4. ASSUME NEW t \in Snapshot, Held(t)'
      PROVE  Held(t) \/ t = remote
  <2>1. t # None
    BY <1>4 DEF Held
  <2>3. ASSUME NEW x \in Devices,
               \/ t = local'[x] \/ t = approval'[x]
               \/ upload'[x] # None /\ (t = upload'[x].exp \/ t = upload'[x].back)
        PROVE  Held(t) \/ t = remote
    <3>1. CASE x = d
      BY <1>2, <2>1, <2>3, <3>1 DEF Held
    <3>2. CASE x # d
      BY <1>2, <2>1, <2>3, <3>2 DEF Held
    <3> QED
      BY <3>1, <3>2
  <2> QED
    BY <1>4, <2>3 DEF Held
<1>5. ASSUME NEW x \in Devices, NEW t \in Snapshot, NEW q \in Record,
             Holds(x, t, q)'
      PROVE  Holds(x, t, q) \/ (x = d /\ t = remote /\ q = r)
  <2>1. CASE x = d
    BY <1>2, <1>5, <2>1 DEF Holds
  <2>2. CASE x # d
    BY <1>2, <1>5, <2>2 DEF Holds
  <2> QED
    BY <2>1, <2>2
<1>6. Rotated(remote)
  BY DEF Rotated
<1>7. HeldInv' /\ FamilyInv' /\ HoldInv'
  BY <1>4, <1>5, <1>6, PreparedJoinsHeld
<1>8. PresenceInv' /\ UploadInv' /\ SettledInv'
  <2>1. ASSUME NEW x \in Devices
        PROVE  /\ (rec'[x] = None) <=> (local'[x] = None)
               /\ upload'[x] # None =>
                     /\ local'[x] # None
                     /\ (upload'[x].backRec = None) <=> (upload'[x].back = None)
                     /\ Uploads(x)'
               /\ upload'[x] = None /\ local'[x] # None => OnLine(local[x])'
    <3>1. CASE x = d
      BY <1>1, <1>2, <3>1, RemoteFacts DEF OnLine
    <3>2. CASE x # d
      BY <1>2, <3>2, OthersUndisturbed
    <3> QED
      BY <3>1, <3>2
  <2> QED
    BY <2>1 DEF PresenceInv, UploadInv, SettledInv
<1> QED
  BY <1>3, <1>7, <1>8 DEF IInv

-----------------------------------------------------------------------------
(* The steps that make no snapshot: uploads that end, approvals, and what  *)
(* is undone or forgotten.                                                 *)

\* The upload of a device goes on, or ends with its snapshot in the object.
GoesOn(x) ==
    \/ /\ upload'[x] = None
       /\ upload[x] = None \/ remote' = local'[x]
    \/ /\ upload[x] # None /\ upload'[x] # None
       /\ upload'[x].exp = upload[x].exp /\ upload'[x].back = upload[x].back
       /\ upload'[x].backRec = upload[x].backRec

\* The snapshot of a device replaces the remote one it was made of.
Writes(d) == upload[d] # None /\ ConditionHolds(d) /\ remote' = local[d]

Settles ==
    /\ TypeInv' /\ local' = local /\ rec' = rec /\ rotations' = rotations
    /\ live' \subseteq live
    /\ remote' = remote \/ \E d \in Devices : Writes(d)
    /\ \A x \in Devices : approval'[x] = None \/ Held(approval'[x])
    /\ \A x \in Devices : GoesOn(x)

\* Whatever is remote while a device uploads on it is continued by that device.
LEMMA LineGrows ==
    ASSUME IInv, NEW d \in Devices, Writes(d), NEW t \in Snapshot, OnLine(t)
    PROVE  OnLine(t)'
<1>1. /\ IsPrefix(t.chain, remote.chain) /\ t.chain \in Chains
      /\ remote.chain \in Chains
  BY RemoteFacts DEF OnLine, Snapshot, Chains
<1>2. IsPrefix(remote.chain, local[d].chain) /\ local[d].chain \in Chains
  <2>1. Uploads(d) /\ local[d] # None
    BY UploadFacts DEF Writes
  <2> QED
    BY <2>1, LocalFacts DEF Uploads, Continues, Writes, ConditionHolds
<1>3. IsPrefix(t.chain, local[d].chain)
  BY <1>1, <1>2, PrefixTransitive
<1> QED
  BY <1>3 DEF OnLine, Writes

\* What was on the line stays there.
LEMMA SettlesOnLine ==
    ASSUME IInv, Settles
    PROVE  /\ Held(remote')
           /\ \A t \in Snapshot : OnLine(t) => OnLine(t)'
<1>1. CASE remote' = remote
  BY <1>1, RemoteFacts DEF OnLine
<1>2. ASSUME NEW d \in Devices, Writes(d)
      PROVE  Held(remote') /\ \A t \in Snapshot : OnLine(t) => OnLine(t)'
  BY <1>2, LineGrows, UploadFacts, LocalFacts DEF Writes
<1> QED
  BY <1>1, <1>2 DEF Settles

\* A step that makes no snapshot keeps the invariant.
LEMMA SettlesKeepsInvariant ==
    ASSUME IInv, Settles
    PROVE  IInv'
<1>1. ASSUME NEW t \in Snapshot, Held(t)'
      PROVE  Held(t)
  <2>1. t # None
    BY <1>1 DEF Held
  <2>2. CASE t = remote'
    BY <2>2, SettlesOnLine
  <2>3. ASSUME NEW x \in Devices, t = local'[x]
        PROVE  Held(t)
    BY <2>1, <2>3 DEF Settles, Held
  <2>4. ASSUME NEW x \in Devices, t = approval'[x]
        PROVE  Held(t)
    BY <2>1, <2>4 DEF Settles
  <2>5. ASSUME NEW x \in Devices, upload'[x] # None,
               t = upload'[x].exp \/ t = upload'[x].back
        PROVE  Held(t)
    <3>1. /\ upload[x] # None
          /\ t = upload[x].exp \/ t = upload[x].back
      BY <2>5 DEF Settles, GoesOn
    <3> QED
      BY <2>1, <3>1 DEF Held
  <2> QED
    BY <1>1, <2>2, <2>3, <2>4, <2>5 DEF Held
<1>2. ASSUME NEW x \in Devices, NEW t \in Snapshot, NEW q \in Record,
             Holds(x, t, q)'
      PROVE  Holds(x, t, q)
  BY <1>2 DEF Settles, GoesOn, Holds
<1>3. HeldInv' /\ FamilyInv' /\ HoldInv'
  <2>1. \A x \in Devices, t \in Snapshot, q \in Record :
            Holds(x, t, q)' => Entitled(x, t, q)
    BY <1>2 DEF IInv, HoldInv
  <2> QED
    BY <1>1, <2>1, NothingNewKeepsHeld DEF Settles
<1>4. ASSUME NEW x \in Devices
      PROVE  /\ (rec'[x] = None) <=> (local'[x] = None)
             /\ upload'[x] # None =>
                   /\ local'[x] # None
                   /\ (upload'[x].backRec = None) <=> (upload'[x].back = None)
                   /\ Uploads(x)'
             /\ upload'[x] = None /\ local'[x] # None => OnLine(local[x])'
  <2>1. (rec'[x] = None) <=> (local'[x] = None)
    BY DEF Settles, IInv, PresenceInv
  <2>2. CASE upload'[x] = None
    <3>1. CASE upload[x] = None /\ local[x] # None
      <4>1. OnLine(local[x]) /\ local[x] \in Snapshot
        BY <3>1, LocalFacts DEF IInv, SettledInv
      <4>2. PICK l \in Snapshot : l = local[x]
        BY <4>1
      <4>3. OnLine(l)'
        BY <4>1, <4>2, SettlesOnLine
      <4>4. l = local'[x]
        BY <4>2 DEF Settles
      <4> QED
        BY <2>1, <2>2, <4>3, <4>4 DEF OnLine
    <3>2. CASE local[x] = None
      BY <2>1, <2>2, <3>2 DEF Settles
    <3>3. CASE upload[x] # None
      <4>1. remote' = local'[x] /\ local'[x] = local[x]
        BY <2>2, <3>3 DEF Settles, GoesOn
      <4>2. local[x].chain \in Chains
        BY <3>3, UploadFacts, LocalFacts
      <4>3. IsPrefix(local'[x].chain, remote'.chain)
        BY <4>1, <4>2, PrefixReflexive
      <4> QED
        BY <2>1, <2>2, <4>3 DEF OnLine
    <3> QED
      BY <3>1, <3>2, <3>3
  <2>3. CASE upload'[x] # None
    <3>1. /\ upload[x] # None
          /\ upload'[x].exp = upload[x].exp /\ upload'[x].back = upload[x].back
          /\ upload'[x].backRec = upload[x].backRec
          /\ local'[x] = local[x] /\ rec'[x] = rec[x]
      BY <2>3 DEF Settles, GoesOn
    <3>2. Uploads(x) /\ upload[x].exp \in Snapshot /\ local[x] # None
      BY <3>1, UploadFacts
    <3>3. PICK e \in Snapshot : e = upload[x].exp
      BY <3>2
    <3>4. OnLine(e)'
      BY <3>2, <3>3, SettlesOnLine DEF Uploads
    <3>5. OnLine(upload[x].exp)'
      BY <3>1, <3>3, <3>4 DEF OnLine
    <3>6. Continues(x, local'[x], upload'[x].exp, rec'[x])
      BY <3>1, <3>2 DEF Uploads
    <3>7. /\ local'[x].by = x /\ x \in Trusted(upload'[x].exp)
          /\ upload'[x].back # None =>
                IsPrefix(upload'[x].back.chain, upload'[x].exp.chain)
      BY <3>1, <3>2 DEF Uploads
    <3>8. Uploads(x)'
      BY <3>5, <3>6, <3>7 DEF Uploads
    <3>9. (upload'[x].backRec = None) <=> (upload'[x].back = None)
      BY <3>1 DEF IInv, PresenceInv
    <3> QED
      BY <2>1, <2>3, <3>1, <3>2, <3>8, <3>9
  <2> QED
    BY <2>2, <2>3
<1>5. PresenceInv' /\ UploadInv' /\ SettledInv'
  BY <1>4 DEF PresenceInv, UploadInv, SettledInv
<1> QED
  BY <1>3, <1>5 DEF IInv, Settles

LEMMA HandsKinds ==
    ASSUME IInv, NEW d \in Devices, upload[d] # None, Hands(d)
    PROVE  /\ approval' \in [Devices -> Snapshot \cup {None}]
           /\ \A x \in Devices : approval'[x] = None \/ Held(approval'[x])
<1>1. /\ local[d] \in Snapshot /\ Held(local[d])
      /\ upload[d].serves \in Devices \cup {None}
  BY UploadFacts, LocalFacts
<1>2. \A x \in Devices : approval[x] = None \/ Held(approval[x])
  BY DEF Held
<1> QED
  BY <1>1, <1>2 DEF Hands, IInv, TypeInv

LEMMA RotationsSame ==
    ASSUME IInv, live' \subseteq live, rotations' = rotations
    PROVE  rotations' \in Nat /\ live' \subseteq 1 .. rotations'
BY DEF IInv, TypeInv

\* The upload arrived.
LEMMA CompleteSettles ==
    ASSUME IInv, NEW d \in Devices, Complete(d)
    PROVE  Settles
<1>1. upload[d] # None /\ ConditionHolds(d) /\ remote' = local[d] /\ Hands(d)
  BY DEF Complete, InFlight, NoUpload
<1>2. /\ local[d] \in Snapshot /\ Held(local[d])
      /\ local[d].chain \in Chains
  BY <1>1, UploadFacts, LocalFacts
<1>3. /\ upload' = [upload EXCEPT ![d] = None]
      /\ UNCHANGED <<local, rec, live, rotations, mishaps>>
  BY DEF Complete
<1>4. TypeInv'
  BY <1>1, <1>2, <1>3, HandsKinds DEF IInv, TypeInv
<1>5. remote' = local'[d]
  BY <1>1, <1>3
<1>6. \A x \in Devices : GoesOn(x)
  <2> SUFFICES ASSUME NEW x \in Devices PROVE GoesOn(x)
    OBVIOUS
  <2>1. CASE x = d
    BY <1>3, <1>5, <2>1 DEF GoesOn, IInv, TypeInv
  <2>2. CASE x # d
    BY <1>3, <2>2 DEF GoesOn, IInv, TypeInv
  <2> QED
    BY <2>1, <2>2
<1>7. Writes(d)
  BY <1>1 DEF Writes
<1>8. \A x \in Devices : approval'[x] = None \/ Held(approval'[x])
  BY <1>1, HandsKinds
<1> QED
  BY <1>1, <1>2, <1>3, <1>4, <1>6, <1>7, <1>8 DEF Settles

\* An upload stays as it is but for its state.
LEMMA StateOnly ==
    ASSUME IInv, NEW d \in Devices, upload[d] # None,
           NEW st \in {"sending", "resending", "unknown"},
           upload' = [upload EXCEPT ![d].st = st]
    PROVE  /\ upload' \in [Devices -> Upload \cup {None}]
           /\ \A x \in Devices : GoesOn(x)
<1>1. upload[d] \in Upload
  BY UploadFacts
<1>2. upload'[d] = [upload[d] EXCEPT !.st = st]
  BY DEF IInv, TypeInv
<1>3. /\ upload'[d] \in Upload
      /\ upload'[d].exp = upload[d].exp /\ upload'[d].back = upload[d].back
      /\ upload'[d].backRec = upload[d].backRec
  BY <1>1, <1>2 DEF Upload
<1>4. \A x \in Devices \ {d} : upload'[x] = upload[x]
  BY DEF IInv, TypeInv
<1>5. upload' \in [Devices -> Upload \cup {None}]
  BY <1>3, <1>4 DEF IInv, TypeInv
<1>6. ASSUME NEW x \in Devices
      PROVE  GoesOn(x)
  <2>1. CASE x = d
    BY <1>3, <2>1, NotNone DEF GoesOn
  <2>2. CASE x # d
    BY <1>4, <2>2 DEF GoesOn
  <2> QED
    BY <2>1, <2>2
<1> QED
  BY <1>5, <1>6

\* The answer of the upload is lost, whether it arrived or not.
LEMMA LoseSettles ==
    ASSUME IInv, NEW d \in Devices, Lose(d)
    PROVE  Settles
<1>1. /\ upload[d] # None /\ Hands(d)
      /\ upload' = [upload EXCEPT ![d].st = "unknown"]
      /\ UNCHANGED <<local, rec, live, rotations>>
  BY DEF Lose, InFlight, NoUpload
<1>2. mishaps' \in 0 .. MaxMishaps
  <2>1. mishaps' = mishaps + 1 /\ mishaps' <= MaxMishaps
    BY DEF Lose, WithinBounds
  <2> QED
    BY <2>1, BoundsAssumption DEF IInv, TypeInv
<1>3. local[d] \in Snapshot /\ Held(local[d])
  BY <1>1, UploadFacts, LocalFacts
<1>4. \/ ConditionHolds(d) /\ remote' = local[d]
      \/ remote' = remote
  BY DEF Lose
<1>5. remote' \in Snapshot /\ Held(remote')
  BY <1>3, <1>4, RemoteFacts
<1>6. /\ upload' \in [Devices -> Upload \cup {None}]
      /\ \A x \in Devices : GoesOn(x)
  BY <1>1, StateOnly
<1>7. TypeInv'
  BY <1>1, <1>2, <1>5, <1>6, HandsKinds DEF IInv, TypeInv
<1>8. remote' = remote \/ Writes(d)
  BY <1>1, <1>4 DEF Writes
<1>9. \A x \in Devices : approval'[x] = None \/ Held(approval'[x])
  BY <1>1, HandsKinds
<1> QED
  BY <1>1, <1>5, <1>6, <1>7, <1>8, <1>9 DEF Settles

\* Nothing but uploads, approvals and withdrawn credentials changes.
LEMMA QuietSettles ==
    ASSUME IInv, TypeInv', remote' = remote, local' = local, rec' = rec,
           rotations' = rotations, live' \subseteq live,
           \A x \in Devices : approval'[x] = None \/ Held(approval'[x]),
           \A x \in Devices : GoesOn(x)
    PROVE  Settles
BY DEF Settles

LEMMA ApprovalsHeld == \A x \in Devices : approval[x] = None \/ Held(approval[x])
BY DEF Held

LEMMA ReconcileSettles ==
    ASSUME IInv, NEW d \in Devices, Reconcile(d)
    PROVE  Settles
<1>1. /\ upload[d] # None
      /\ UNCHANGED <<remote, local, rec, approval, live, rotations, mishaps>>
  BY DEF Reconcile, NoUpload
<1>2. CASE remote = local[d] /\ upload' = [upload EXCEPT ![d] = None]
  <2>1. TypeInv'
    BY <1>1, <1>2 DEF IInv, TypeInv
  <2>2. remote' = local'[d]
    BY <1>1, <1>2
  <2>3. ASSUME NEW x \in Devices
        PROVE  GoesOn(x)
    <3>1. CASE x = d
      BY <1>2, <2>2, <3>1 DEF GoesOn, IInv, TypeInv
    <3>2. CASE x # d
      BY <1>2, <3>2 DEF GoesOn, IInv, TypeInv
    <3> QED
      BY <3>1, <3>2
  <2> QED
    BY <1>1, <2>1, <2>3, ApprovalsHeld, QuietSettles
<1>3. CASE upload' = [upload EXCEPT ![d].st = "resending"]
  <2>1. /\ upload' \in [Devices -> Upload \cup {None}]
        /\ \A x \in Devices : GoesOn(x)
    BY <1>1, <1>3, StateOnly
  <2>2. TypeInv'
    BY <1>1, <2>1 DEF IInv, TypeInv
  <2> QED
    BY <1>1, <2>1, <2>2, ApprovalsHeld, QuietSettles
<1> QED
  BY <1>2, <1>3 DEF Reconcile

LEMMA RetryRefusedSettles ==
    ASSUME IInv, NEW d \in Devices, RetryRefused(d)
    PROVE  Settles
<1>1. /\ upload[d] # None /\ upload' = [upload EXCEPT ![d].st = "unknown"]
      /\ UNCHANGED <<remote, local, rec, approval, live, rotations, mishaps>>
  BY DEF RetryRefused, NoUpload
<1>2. /\ upload' \in [Devices -> Upload \cup {None}]
      /\ \A x \in Devices : GoesOn(x)
  BY <1>1, StateOnly
<1>3. TypeInv'
  BY <1>1, <1>2 DEF IInv, TypeInv
<1> QED
  BY <1>1, <1>2, <1>3, ApprovalsHeld, QuietSettles

\* Uploads that a step does not touch go on.
LEMMA UploadsUntouched ==
    ASSUME IInv, remote' = remote, local' = local, upload' = upload
    PROVE  \A x \in Devices : GoesOn(x)
BY DEF GoesOn

LEMMA ApproveAgainSettles ==
    ASSUME IInv, NEW d \in Devices, ApproveAgain(d)
    PROVE  Settles
<1>1. /\ local[d] # None
      /\ UNCHANGED <<remote, local, rec, upload, live, rotations, mishaps>>
  BY DEF ApproveAgain, UpToDate
<1>2. local[d] \in Snapshot /\ Held(local[d]) /\ KeyGeneration(local[d]) \in Nat
  BY <1>1, LocalFacts
<1>3. PICK new \in Trusted(local[d]) :
          approval' = [approval EXCEPT ![new] = local[d]]
  BY DEF ApproveAgain
<1>4. /\ approval' \in [Devices -> Snapshot \cup {None}]
      /\ \A x \in Devices : approval'[x] = approval[x] \/ approval'[x] = local[d]
  BY <1>2, <1>3 DEF IInv, TypeInv
<1>5. TypeInv'
  BY <1>1, <1>4 DEF IInv, TypeInv
<1> QED
  BY <1>1, <1>2, <1>4, <1>5, ApprovalsHeld, UploadsUntouched, QuietSettles

LEMMA DeleteCredentialSettles ==
    ASSUME IInv, NEW c \in live, DeleteCredential(c)
    PROVE  Settles
<1>1. /\ live' \subseteq live
      /\ UNCHANGED <<remote, local, rec, upload, approval, rotations, mishaps>>
  BY DEF DeleteCredential
<1>2. TypeInv'
  BY <1>1 DEF IInv, TypeInv
<1> QED
  BY <1>1, <1>2, ApprovalsHeld, UploadsUntouched, QuietSettles

\* A device forgets the credential that was replaced.
LEMMA CompleteOwnKeepsInvariant ==
    ASSUME IInv, NEW d \in Devices, CompleteOwn(d)
    PROVE  IInv'
<1>1. /\ local[d] # None /\ upload[d] = None
      /\ rec' = [rec EXCEPT ![d].prev = None]
      /\ UNCHANGED <<remote, local, upload, approval, live, rotations, mishaps>>
  BY DEF CompleteOwn, MayComplete, NoUpload
<1>2. rec[d] \in Record /\ Entitled(d, local[d], rec[d]) /\ Held(local[d])
  BY <1>1, LocalFacts
<1>3. /\ rec'[d] \in Record /\ rec'[d].cur = rec[d].cur /\ rec'[d].prev = None
      /\ \A x \in Devices \ {d} : rec'[x] = rec[x]
      /\ rec' \in [Devices -> Record \cup {None}]
  BY <1>1, <1>2 DEF IInv, TypeInv, Record
<1>4. TypeInv'
  BY <1>1, <1>3 DEF IInv, TypeInv
<1>5. \A t \in Snapshot : Held(t)' => Held(t)
  BY <1>1 DEF Held
<1>6. ASSUME NEW x \in Devices, NEW t \in Snapshot, NEW q \in Record,
             Holds(x, t, q)'
      PROVE  Entitled(x, t, q)
  <2>1. CASE Holds(x, t, q)
    BY <2>1 DEF IInv, HoldInv
  <2>2. CASE ~Holds(x, t, q)
    <3>1. x = d /\ t = local[d] /\ q = rec'[d]
      BY <1>1, <1>3, <1>6, <2>2 DEF Holds
    <3> QED
      BY <1>2, <1>3, <3>1 DEF Entitled
  <2> QED
    BY <2>1, <2>2
<1>7. HeldInv' /\ FamilyInv' /\ HoldInv'
  BY <1>1, <1>5, <1>6, NothingNewKeepsHeld
<1>8. PresenceInv' /\ UploadInv' /\ SettledInv'
  <2>1. ASSUME NEW x \in Devices
        PROVE  /\ (rec'[x] = None) <=> (local'[x] = None)
               /\ upload'[x] # None =>
                     /\ local'[x] # None
                     /\ (upload'[x].backRec = None) <=> (upload'[x].back = None)
                     /\ Uploads(x)'
               /\ upload'[x] = None /\ local'[x] # None => OnLine(local[x])'
    <3>1. CASE x = d
      BY <1>1, <1>3, <3>1, NotNone DEF IInv, SettledInv, OnLine
    <3>2. CASE x # d
      BY <1>1, <1>3, <3>2, OthersUndisturbed
    <3> QED
      BY <3>1, <3>2
  <2> QED
    BY <2>1 DEF PresenceInv, UploadInv, SettledInv
<1> QED
  BY <1>4, <1>7, <1>8 DEF IInv

\* A device goes back to what it had.
LEMMA RefusedKeepsInvariant ==
    ASSUME IInv, NEW d \in Devices, Refused(d)
    PROVE  IInv'
<1>1. /\ upload[d] # None
      /\ local' = [local EXCEPT ![d] = upload[d].back]
      /\ rec' = [rec EXCEPT ![d] = upload[d].backRec]
      /\ upload' = [upload EXCEPT ![d] = None]
      /\ UNCHANGED <<remote, approval, live, rotations, mishaps>>
  BY DEF Refused, NoUpload
<1>2. /\ upload[d].back \in Snapshot \cup {None}
      /\ upload[d].backRec \in Record \cup {None}
      /\ upload[d].back # None => OnLine(upload[d].back)
      /\ (upload[d].backRec = None) <=> (upload[d].back = None)
  BY <1>1, UploadFacts DEF IInv, PresenceInv
<1>3. /\ local'[d] = upload[d].back /\ rec'[d] = upload[d].backRec
      /\ upload'[d] = None
      /\ \A x \in Devices \ {d} :
            local'[x] = local[x] /\ rec'[x] = rec[x] /\ upload'[x] = upload[x]
  BY <1>1 DEF IInv, TypeInv
<1>4. TypeInv'
  BY <1>1, <1>2 DEF IInv, TypeInv
<1>5. ASSUME NEW t \in Snapshot, Held(t)'
      PROVE  Held(t)
  <2>1. t # None
    BY <1>5 DEF Held
  <2>2. CASE t = remote'
    BY <1>1, <2>1, <2>2 DEF Held
  <2>3. ASSUME NEW x \in Devices,
               \/ t = local'[x] \/ t = approval'[x]
               \/ upload'[x] # None /\ (t = upload'[x].exp \/ t = upload'[x].back)
        PROVE  Held(t)
    <3>1. CASE x = d
      BY <1>1, <1>3, <2>1, <2>3, <3>1 DEF Held
    <3>2. CASE x # d
      BY <1>1, <1>3, <2>1, <2>3, <3>2 DEF Held
    <3> QED
      BY <3>1, <3>2
  <2> QED
    BY <1>5, <2>2, <2>3 DEF Held
<1>6. ASSUME NEW x \in Devices, NEW t \in Snapshot, NEW q \in Record,
             Holds(x, t, q)'
      PROVE  Holds(x, t, q)
  <2>1. CASE x = d
    BY <1>1, <1>3, <1>6, <2>1 DEF Holds
  <2>2. CASE x # d
    BY <1>3, <1>6, <2>2 DEF Holds
  <2> QED
    BY <2>1, <2>2
<1>7. HeldInv' /\ FamilyInv' /\ HoldInv'
  <2>1. \A x \in Devices, t \in Snapshot, q \in Record :
            Holds(x, t, q)' => Entitled(x, t, q)
    BY <1>6 DEF IInv, HoldInv
  <2> QED
    BY <1>1, <1>5, <2>1, NothingNewKeepsHeld
<1>8. PresenceInv' /\ UploadInv' /\ SettledInv'
  <2>1. ASSUME NEW x \in Devices
        PROVE  /\ (rec'[x] = None) <=> (local'[x] = None)
               /\ upload'[x] # None =>
                     /\ local'[x] # None
                     /\ (upload'[x].backRec = None) <=> (upload'[x].back = None)
                     /\ Uploads(x)'
               /\ upload'[x] = None /\ local'[x] # None => OnLine(local[x])'
    <3>1. CASE x = d
      BY <1>1, <1>2, <1>3, <3>1 DEF OnLine
    <3>2. CASE x # d
      BY <1>1, <1>3, <3>2, OthersUndisturbed
    <3> QED
      BY <3>1, <3>2
  <2> QED
    BY <2>1 DEF PresenceInv, UploadInv, SettledInv
<1> QED
  BY <1>4, <1>7, <1>8 DEF IInv

-----------------------------------------------------------------------------
(* The operations, one after the other: what each one stores is prepared.  *)

\* Trust is a matter of the chain alone.
LEMMA SameChain ==
    ASSUME NEW s, NEW t, s.chain = t.chain
    PROVE  /\ Trusted(s) = Trusted(t) /\ KeyGeneration(s) = KeyGeneration(t)
           /\ SameFamily(s, t)
BY DEF Trusted, KeyGeneration, SameFamily, Revoked, EverTrusted, LastCertificate

\* A snapshot with the chain and key of the remote one.
LEMMA SamePrepared ==
    ASSUME IInv, NEW d \in Devices, NEW s \in Snapshot, NEW r \in Record,
           s.chain = remote.chain, s.key = remote.key, s.cred = remote.cred,
           s.marker = remote.marker \/ (s.marker = None /\ Witnessed(d)),
           Entitled(d, remote, r),
           local[d] # None => OnLine(local[d]),
           r.prev # None => Remembers(d, r.prev)
    PROVE  Prepared(d, s, r)
<1>1. Sound(remote) /\ IsPrefix(remote.chain, remote.chain)
  BY RemoteFacts DEF OnLine
<1>2. /\ Trusted(s) = Trusted(remote) /\ KeyGeneration(s) = KeyGeneration(remote)
      /\ SameFamily(s, remote)
  BY SameChain
<1>3. s.cred = s.key /\ Lineage(s.chain) /\ (s.marker # None => One(s.marker.ids))
  BY <1>1 DEF Sound
<1>4. Entitled(d, s, r) /\ d \in Trusted(remote)
  BY <1>2 DEF Entitled
<1>5. Continues(d, s, remote, r)
  BY <1>1, <1>2 DEF Continues, KeepsKey
<1> QED
  BY <1>3, <1>4, <1>5 DEF Prepared

\* What a device knows that is up to date.
LEMMA UpToDateFacts ==
    ASSUME IInv, NEW d \in Devices, UpToDate(d)
    PROVE  /\ local[d] # None /\ local[d] = remote /\ upload[d] = None
           /\ rec[d] \in Record /\ Entitled(d, remote, rec[d])
           /\ OnLine(local[d]) /\ Remembers(d, rec[d].prev)
<1>1. local[d] # None /\ local[d] = remote /\ upload[d] = None
  BY DEF UpToDate, NoUpload
<1>2. rec[d] \in Record /\ Entitled(d, remote, rec[d])
  BY <1>1, LocalFacts
<1> QED
  BY <1>1, <1>2, RemoteFacts DEF Remembers

\* A step that stores a snapshot, and a step that takes the remote one.
Makes(d, s, r, w) ==
    /\ Prepared(d, s, r) /\ s.by = d /\ w \in Devices \cup {None}
    /\ Persist(d, s, r, w) /\ Rotated(s) /\ UNCHANGED <<remote, approval>>
Takes(d, r) ==
    /\ Prepared(d, remote, r) /\ Adopt(d, r)
    /\ UNCHANGED <<remote, approval, live, rotations, mishaps>>

LEMMA EditMakes ==
    ASSUME IInv, NEW d \in Devices, Edit(d)
    PROVE  \E s, r, w : Makes(d, s, r, w)
<1> DEFINE v == IncrementVersionVector(local[d].content, d)
           s == [Successor(d, local[d]) EXCEPT !.content = v]
<1>1. UpToDate(d)
  BY DEF Edit
<1>2. local[d] = remote /\ remote \in Snapshot
  BY <1>1, UpToDateFacts, RemoteFacts
<1>3. v \in Vector
  <2>1. local[d].content \in Vector
    BY <1>2 DEF Snapshot
  <2> QED
    BY <2>1, VectorKinds
<1>4. /\ Successor(d, remote) \in Snapshot
      /\ Successor(d, remote).by = d
      /\ Successor(d, remote).chain = remote.chain
      /\ Successor(d, remote).key = remote.key
      /\ Successor(d, remote).cred = remote.cred
      /\ Successor(d, remote).marker = remote.marker
      /\ Successor(d, remote).content = remote.content
  BY <1>2, SuccessorKind
<1>5. Persist(d, s, rec[d], None) /\ UNCHANGED <<remote, approval, live, rotations>>
  BY <1>2, <1>4 DEF Edit
<1> HIDE DEF v
<1>6. /\ s \in Snapshot /\ s.by = d /\ s.chain = remote.chain
      /\ s.key = remote.key /\ s.cred = remote.cred /\ s.marker = remote.marker
  BY <1>2, <1>3, <1>4 DEF Snapshot
<1> HIDE DEF s
<1>7. Prepared(d, s, rec[d])
  BY <1>1, <1>6, UpToDateFacts, SamePrepared
<1>8. Rotated(s)
  BY <1>5, <1>6 DEF Rotated
<1> QED
  BY <1>5, <1>6, <1>7, <1>8 DEF Makes

LEMMA PerformEnrollmentMakes ==
    ASSUME IInv, NEW d \in Devices, PerformEnrollment(d)
    PROVE  \E s, r, w : Makes(d, s, r, w)
<1> DEFINE p == AddProfile(remote.profiles, d)
           s == [Successor(d, remote) EXCEPT !.profiles = p]
           r == [cur |-> remote.cred, prev |-> None]
<1>1. local[d] = None /\ d \in Trusted(remote)
  BY DEF PerformEnrollment, OpensApproval
<1>2. remote \in Snapshot /\ Sound(remote)
  BY RemoteFacts
<1>3. p \in Profiles
  <2>1. remote.profiles \in Profiles
    BY <1>2 DEF Snapshot, Profiles
  <2> QED
    BY <2>1, AddProfileKind
<1>4. /\ Successor(d, remote) \in Snapshot
      /\ Successor(d, remote).by = d
      /\ Successor(d, remote).chain = remote.chain
      /\ Successor(d, remote).key = remote.key
      /\ Successor(d, remote).cred = remote.cred
      /\ Successor(d, remote).marker = remote.marker
      /\ Successor(d, remote).profiles = remote.profiles
  BY <1>2, SuccessorKind
<1>5. Persist(d, s, r, None) /\ UNCHANGED <<remote, approval, live, rotations>>
  BY <1>2, <1>4 DEF PerformEnrollment
<1> HIDE DEF p
<1>6. /\ s \in Snapshot /\ s.by = d /\ s.chain = remote.chain
      /\ s.key = remote.key /\ s.cred = remote.cred /\ s.marker = remote.marker
  BY <1>2, <1>3, <1>4 DEF Snapshot, Profiles
<1> HIDE DEF s
<1>7. r \in Record /\ Entitled(d, remote, r) /\ r.prev = None
  BY <1>1, <1>2 DEF Record, Entitled, Sound, Snapshot
<1> HIDE DEF r
<1>8. Prepared(d, s, r)
  BY <1>1, <1>6, <1>7, SamePrepared
<1>9. Rotated(s)
  BY <1>5, <1>6 DEF Rotated
<1> QED
  BY <1>5, <1>6, <1>8, <1>9 DEF Makes

\* A device that follows the remote snapshot, with or without a resolution.
LEMMA FollowsRemote ==
    ASSUME IInv, NEW d \in Devices, local[d] # None, NEW r \in Record,
           Entitled(d, remote, r), OnLine(local[d]),
           r.prev # None => Remembers(d, r.prev),
           \/ /\ Persist(d, Resolved(d, local[d], remote), r, None)
              /\ UNCHANGED <<remote, approval, live, rotations>>
           \/ Adopt(d, r) /\ UNCHANGED <<remote, approval, live, rotations, mishaps>>
    PROVE  (\E s, q, w : Makes(d, s, q, w)) \/ Takes(d, r)
<1>1. remote \in Snapshot /\ local[d] \in Snapshot
  BY RemoteFacts, LocalFacts
<1>2. CASE Adopt(d, r) /\ UNCHANGED <<remote, approval, live, rotations, mishaps>>
  <2>1. Prepared(d, remote, r)
    BY <1>1, SamePrepared
  <2> QED
    BY <1>2, <2>1 DEF Takes
<1>3. CASE /\ Persist(d, Resolved(d, local[d], remote), r, None)
           /\ UNCHANGED <<remote, approval, live, rotations>>
  <2>1. PICK s : s = Resolved(d, local[d], remote)
    OBVIOUS
  <2>2. /\ s \in Snapshot /\ s.by = d /\ s.chain = remote.chain
        /\ s.key = remote.key /\ s.cred = remote.cred /\ s.marker = remote.marker
    BY <1>1, <2>1, ResolvedKind
  <2>3. Prepared(d, s, r)
    BY <2>2, SamePrepared
  <2>4. Rotated(s)
    BY <1>3, <2>2 DEF Rotated
  <2>5. Persist(d, s, r, None)
    BY <1>3, <2>1
  <2> QED
    BY <1>3, <2>2, <2>3, <2>4, <2>5 DEF Makes
<1> QED
  BY <1>2, <1>3

\* What the checks of a review ensure.
LEMMA ReviewedFacts ==
    ASSUME IInv, NEW d \in Devices, local[d] # None, CanReview(local[d], remote)
    PROVE  /\ rec[d] \in Record /\ Entitled(d, remote, rec[d])
           /\ OnLine(local[d]) /\ Remembers(d, rec[d].prev)
<1>1. rec[d] \in Record /\ Entitled(d, local[d], rec[d])
  BY LocalFacts
<1>2. remote.chain = local[d].chain /\ remote.key = local[d].key
  BY DEF CanReview
<1>3. /\ Trusted(remote) = Trusted(local[d])
      /\ KeyGeneration(remote) = KeyGeneration(local[d])
  BY <1>2, SameChain
<1>4. Entitled(d, remote, rec[d])
  BY <1>1, <1>2, <1>3 DEF Entitled
<1>5. OnLine(local[d])
  BY <1>2, RemoteFacts DEF OnLine
<1> QED
  BY <1>1, <1>4, <1>5 DEF Remembers

LEMMA AdoptRemoteTakes ==
    ASSUME IInv, NEW d \in Devices, AdoptRemote(d)
    PROVE  Takes(d, rec[d]) \/ \E s, r, w : Makes(d, s, r, w)
<1>1. local[d] # None /\ CanReview(local[d], remote)
  BY DEF AdoptRemote, MayFollow
<1> QED
  BY <1>1, ReviewedFacts, FollowsRemote DEF AdoptRemote

LEMMA ResolveRemoteMakes ==
    ASSUME IInv, NEW d \in Devices, ResolveRemote(d)
    PROVE  Takes(d, rec[d]) \/ \E s, r, w : Makes(d, s, r, w)
<1>1. local[d] # None /\ CanReview(local[d], remote)
  BY DEF ResolveRemote, MayFollow
<1> QED
  BY <1>1, ReviewedFacts, FollowsRemote DEF ResolveRemote

\* A device that missed enrollments keeps its key and its credentials.
LEMMA ConsumeEnrollmentsFollows ==
    ASSUME IInv, NEW d \in Devices, ConsumeEnrollments(d)
    PROVE  Takes(d, rec[d]) \/ \E s, r, w : Makes(d, s, r, w)
<1>1. local[d] # None /\ CanConsumeEnrollments(local[d], remote)
  BY DEF ConsumeEnrollments, MayFollow
<1>2. /\ rec[d] \in Record /\ Entitled(d, local[d], rec[d])
      /\ local[d] \in Snapshot /\ local[d].chain # <<>>
  BY <1>1, LocalFacts
<1>3. remote \in Snapshot /\ Lineage(remote.chain)
  BY RemoteFacts DEF Sound
<1>4. /\ Descends(remote, local[d]) /\ remote.key = local[d].key
      /\ \A i \in Suffix(local[d], remote) : Removed(remote, i) = {}
  BY <1>1 DEF CanConsumeEnrollments, Verified, IsEnrollment
<1>5. /\ KeyGeneration(remote) = KeyGeneration(local[d])
      /\ Trusted(local[d]) \subseteq Trusted(remote)
  BY <1>2, <1>3, <1>4, EnrollmentsKeepTrust
<1>6. Entitled(d, remote, rec[d])
  BY <1>2, <1>4, <1>5 DEF Entitled
<1>7. OnLine(local[d]) /\ Remembers(d, rec[d].prev)
  BY <1>1, <1>4 DEF OnLine, Descends, Remembers
<1>8. \/ /\ Persist(d, Resolved(d, local[d], remote), rec[d], None)
         /\ UNCHANGED <<remote, approval, live, rotations>>
      \/ Adopt(d, rec[d]) /\ UNCHANGED <<remote, approval, live, rotations, mishaps>>
  BY DEF ConsumeEnrollments
<1> QED
  BY <1>1, <1>2, <1>6, <1>7, <1>8, FollowsRemote

LEMMA RevokedSinceKind ==
    ASSUME NEW l \in Snapshot, NEW s \in Snapshot, s.chain # <<>>, l.chain # <<>>
    PROVE  RevokedSince(l, s) \subseteq Devices
<1>1. s.chain \in Chains /\ Len(s.chain) \in Nat /\ Len(l.chain) \in Nat \ {0}
  BY LastOfChain
<1>2. \A i \in Suffix(l, s) : i - 1 \in 1 .. Len(s.chain)
  BY <1>1 DEF Suffix
<1>3. \A i \in Suffix(l, s) : Removed(s, i) \subseteq Devices
  BY <1>1, <1>2, ChainElements DEF Removed
<1> QED
  BY <1>3 DEF RevokedSince

\* A device that missed revocations remembers the credential it had, and how
\* many rotations it missed.
LEMMA ConsumeRevocationsFollows ==
    ASSUME IInv, NEW d \in Devices, ConsumeRevocations(d)
    PROVE  (\E r : Takes(d, r)) \/ \E s, r, w : Makes(d, s, r, w)
<1> DEFINE p == [cred |-> rec[d].cur, ids |-> RevokedSince(local[d], remote),
                 gen |-> KeyGeneration(remote)]
           r == [cur |-> remote.cred, prev |-> p]
<1>1. /\ local[d] # None /\ remote.cred # rec[d].cur
      /\ MayConsumeRevocations(d, local[d], remote)
  BY DEF ConsumeRevocations, MayFollow, CanConsumeRevocations
<1>2. /\ rec[d] \in Record /\ Entitled(d, local[d], rec[d])
      /\ local[d] \in Snapshot /\ local[d].chain # <<>> /\ Sound(local[d])
  BY <1>1, LocalFacts
<1>3. /\ remote \in Snapshot /\ Lineage(remote.chain) /\ Sound(remote)
      /\ remote.chain # <<>> /\ KeyGeneration(remote) \in Nat
  BY RemoteFacts DEF Sound
<1>4. /\ Descends(remote, local[d]) /\ d \in Trusted(remote)
      /\ \E i \in Suffix(local[d], remote) : IsRevocation(remote, i)
  BY <1>1 DEF MayConsumeRevocations, Verified
<1>5. /\ KeyGeneration(local[d]) < KeyGeneration(remote)
      /\ One(RevokedSince(local[d], remote))
            <=> KeyGeneration(remote) = KeyGeneration(local[d]) + 1
  BY <1>2, <1>3, <1>4, RotationsMissed
<1>6. p \in Replaced
  BY <1>2, <1>3, RevokedSinceKind DEF Replaced, Record
<1>7. /\ p.cred = local[d].key /\ p.ids = RevokedSince(local[d], remote)
      /\ p.gen = KeyGeneration(remote)
  BY <1>2 DEF Entitled
<1>8. \/ /\ Persist(d, Resolved(d, local[d], remote), r, None)
         /\ UNCHANGED <<remote, approval, live, rotations>>
      \/ Adopt(d, r) /\ UNCHANGED <<remote, approval, live, rotations, mishaps>>
  BY DEF ConsumeRevocations
<1> HIDE DEF p
<1>9. r \in Record /\ r.cur = remote.cred /\ r.prev = p
  BY <1>3, <1>6 DEF Record, Snapshot
<1> HIDE DEF r
<1>10. Entitled(d, remote, r)
  BY <1>2, <1>3, <1>4, <1>7, <1>9 DEF Entitled, Sound
<1>11. Remembers(d, r.prev)
  <2>1. local[d].key # remote.key
    BY <1>1, <1>2, <1>3 DEF Entitled, Sound
  <2> QED
    BY <1>1, <1>5, <1>7, <1>9, <2>1 DEF Remembers
<1>12. OnLine(local[d])
  BY <1>4 DEF OnLine, Descends
<1> QED
  BY <1>1, <1>8, <1>9, <1>10, <1>11, <1>12, FollowsRemote

\* Who takes the marker away has seen the credential of this rotation rejected.
LEMMA CompleteSharedMakes ==
    ASSUME IInv, NEW d \in Devices, CompleteShared(d)
    PROVE  \E s, r, w : Makes(d, s, r, w)
<1> DEFINE s == [Successor(d, local[d]) EXCEPT !.marker = None]
           r == [rec[d] EXCEPT !.prev = None]
<1>1. UpToDate(d)
  BY DEF CompleteShared
<1>2. /\ local[d] = remote /\ remote \in Snapshot
      /\ rec[d] \in Record /\ Entitled(d, remote, rec[d]) /\ OnLine(local[d])
  BY <1>1, UpToDateFacts, RemoteFacts
<1>3. /\ Successor(d, remote) \in Snapshot
      /\ Successor(d, remote).by = d
      /\ Successor(d, remote).chain = remote.chain
      /\ Successor(d, remote).key = remote.key
      /\ Successor(d, remote).cred = remote.cred
  BY <1>2, SuccessorKind
<1>4. Persist(d, s, r, None) /\ UNCHANGED <<remote, approval, live, rotations>>
  BY DEF CompleteShared
<1>5. /\ s \in Snapshot /\ s.by = d /\ s.chain = remote.chain
      /\ s.key = remote.key /\ s.cred = remote.cred /\ s.marker = None
  BY <1>2, <1>3 DEF Snapshot
<1>6. r \in Record /\ r.prev = None /\ r.cur = rec[d].cur
  BY <1>2 DEF Record
<1> HIDE DEF s, r
<1>7. Entitled(d, remote, r)
  BY <1>2, <1>6 DEF Entitled
<1>8. Witnessed(d)
  <2>1. /\ rec[d].prev # None /\ rec[d].prev \in Replaced
        /\ rec[d].prev.cred \notin live
    BY <1>2 DEF CompleteShared, MayComplete, Record
  <2>2. remote.marker = [ids |-> rec[d].prev.ids, gen |-> rec[d].prev.gen]
    BY <1>2 DEF CompleteShared, SharedMarkerMatches
  <2>3. [ids |-> rec[d].prev.ids, gen |-> rec[d].prev.gen] \in Marker
    BY <2>1 DEF Replaced, Marker
  <2>4. remote.marker # None /\ remote.marker.ids = rec[d].prev.ids
    BY <2>2, <2>3, NotNone
  <2>5. One(rec[d].prev.ids)
    BY <2>4, RemoteFacts DEF Sound
  <2>6. rec[d].prev.gen = KeyGeneration(remote)
    BY <1>2, <2>1 DEF Entitled
  <2>7. local[d] # None
    BY <1>1, UpToDateFacts
  <2> QED
    BY <1>2, <2>1, <2>5, <2>6, <2>7 DEF Witnessed
<1>9. Prepared(d, s, r)
  BY <1>2, <1>5, <1>6, <1>7, <1>8, SamePrepared
<1>10. Rotated(s)
  BY <1>4, <1>5 DEF Rotated
<1> QED
  BY <1>4, <1>5, <1>9, <1>10 DEF Makes

\* An enrollment keeps the key, and adds a device that was never trusted.
LEMMA AuthorizeEnrollmentMakes ==
    ASSUME IInv, NEW d \in Devices, AuthorizeEnrollment(d)
    PROVE  \E s, r, w : Makes(d, s, r, w)
<1>1. UpToDate(d) /\ RevocationComplete(d)
  BY DEF AuthorizeEnrollment
<1>2. /\ local[d] = remote /\ rec[d] \in Record /\ Entitled(d, remote, rec[d])
      /\ OnLine(local[d]) /\ local[d] # None
      /\ remote.marker = None /\ rec[d].prev = None
  BY <1>1, UpToDateFacts DEF RevocationComplete
<1>3. /\ remote \in Snapshot /\ Sound(remote) /\ Lineage(remote.chain)
      /\ remote.chain \in Chains /\ remote.chain # <<>>
      /\ KeyGeneration(remote) \in Nat /\ Trusted(remote) \subseteq Devices
  BY RemoteFacts, LastOfChain DEF Sound
<1>4. UNCHANGED <<remote, approval, live, rotations>>
  BY DEF AuthorizeEnrollment
<1>5. PICK new \in Devices \ EverTrusted(remote) :
        Persist(d, [Successor(d, remote) EXCEPT
                      !.chain = Append(@, [devs |-> Trusted(remote) \cup {new},
                                           gen |-> KeyGeneration(remote), by |-> d]),
                      !.slots = @ \cup {new}], rec[d], new)
  BY <1>2 DEF AuthorizeEnrollment
<1> DEFINE x == [devs |-> Trusted(remote) \cup {new},
                 gen |-> KeyGeneration(remote), by |-> d]
           s == [Successor(d, remote) EXCEPT !.chain = Append(@, x),
                                             !.slots = @ \cup {new}]
<1>6. /\ x \in Certificate /\ x.devs = Trusted(remote) \cup {new}
      /\ x.gen = KeyGeneration(remote) /\ x.by = d
  BY <1>3 DEF Certificate
<1>7. Persist(d, s, rec[d], new)
  BY <1>5
<1> HIDE DEF x
<1>8. /\ Successor(d, remote) \in Snapshot
      /\ Successor(d, remote).by = d
      /\ Successor(d, remote).chain = remote.chain
      /\ Successor(d, remote).key = remote.key
      /\ Successor(d, remote).cred = remote.cred
      /\ Successor(d, remote).marker = remote.marker
      /\ Successor(d, remote).slots = remote.slots
  BY <1>3, SuccessorKind
<1>9. Append(remote.chain, x) \in Chains
  BY <1>3, <1>6, AppendProperties DEF Chains
<1>10. /\ s \in Snapshot /\ s.by = d /\ s.chain = Append(remote.chain, x)
       /\ s.key = remote.key /\ s.cred = remote.cred /\ s.marker = None
  BY <1>2, <1>8, <1>9 DEF Snapshot, Chains
<1> HIDE DEF s
<1>11. /\ LastCertificate(s) = x
       /\ Trusted(s) = x.devs /\ KeyGeneration(s) = x.gen
       /\ EverTrusted(s) = EverTrusted(remote) \cup x.devs
       /\ Len(s.chain) = Len(remote.chain) + 1 /\ s.chain # remote.chain
       /\ IsPrefix(remote.chain, s.chain)
       /\ Trusted(remote) \subseteq EverTrusted(remote)
       /\ \A i \in 1 .. Len(remote.chain) :
             remote.chain[i].devs \subseteq EverTrusted(remote)
  BY <1>3, <1>6, <1>10, OneMoreCertificate
<1>12. Lineage(s.chain)
  <2>1. Enrolls(remote.chain, x)
    BY <1>5, <1>6, <1>11 DEF Enrolls, Trusted, KeyGeneration, LastCertificate
  <2> QED
    BY <1>3, <1>6, <1>10, <2>1, EnrollmentKeepsLineage
<1>13. SameFamily(s, remote)
  BY <1>5, <1>6, <1>11 DEF SameFamily, Revoked
<1>14. Continues(d, s, remote, rec[d])
  BY <1>2, <1>6, <1>10, <1>11, <1>13 DEF Continues, KeepsKey
<1>15. Entitled(d, s, rec[d])
  BY <1>2, <1>6, <1>10, <1>11 DEF Entitled
<1>16. Prepared(d, s, rec[d])
  BY <1>2, <1>3, <1>10, <1>11, <1>12, <1>14, <1>15 DEF Prepared, Entitled, Sound
<1>17. Rotated(s)
  BY <1>4, <1>10 DEF Rotated
<1> QED
  BY <1>4, <1>7, <1>10, <1>16, <1>17 DEF Makes

\* A revocation begins without a marker, removes a trusted device and rotates.
LEMMA RevokeMakes ==
    ASSUME IInv, NEW d \in Devices, Revoke(d)
    PROVE  \E s, r, w : Makes(d, s, r, w)
<1> DEFINE n == rotations + 1
           g == KeyGeneration(remote) + 1
<1>1. UpToDate(d) /\ RevocationComplete(d)
  BY DEF Revoke
<1>2. /\ local[d] = remote /\ rec[d] \in Record /\ Entitled(d, remote, rec[d])
      /\ OnLine(local[d]) /\ local[d] # None
      /\ remote.marker = None /\ rec[d].prev = None
  BY <1>1, UpToDateFacts DEF RevocationComplete
<1>3. /\ remote \in Snapshot /\ Sound(remote) /\ Lineage(remote.chain)
      /\ remote.chain \in Chains /\ remote.chain # <<>>
      /\ KeyGeneration(remote) \in Nat /\ Trusted(remote) \subseteq Devices
  BY RemoteFacts, LastOfChain DEF Sound
<1>4. /\ UNCHANGED <<remote, approval>>
      /\ rotations' = n /\ live' = live \cup {n}
  BY DEF Revoke
<1>5. PICK old \in Trusted(remote) \ {d} :
        Persist(d, [Successor(d, remote) EXCEPT
                      !.chain = Append(@, [devs |-> Trusted(remote) \ {old},
                                           gen |-> g, by |-> d]),
                      !.slots = Trusted(remote) \ {old}, !.key = n, !.cred = n,
                      !.profiles = RevokeProfile(@, d, old),
                      !.marker = [ids |-> {old}, gen |-> g]],
                   [cur |-> n, prev |-> [cred |-> rec[d].cur, ids |-> {old},
                                         gen |-> g]], None)
  BY <1>2 DEF Revoke
<1> DEFINE x == [devs |-> Trusted(remote) \ {old}, gen |-> g, by |-> d]
           m == [ids |-> {old}, gen |-> g]
           p == [cred |-> rec[d].cur, ids |-> {old}, gen |-> g]
           r == [cur |-> n, prev |-> p]
           s == [Successor(d, remote) EXCEPT
                    !.chain = Append(@, x), !.slots = Trusted(remote) \ {old},
                    !.key = n, !.cred = n,
                    !.profiles = RevokeProfile(@, d, old), !.marker = m]
<1>6. n \in Nat /\ g \in Nat /\ old \in Devices /\ old # d
  BY <1>3, <1>5 DEF IInv, TypeInv
<1>7. /\ x \in Certificate /\ x.devs = Trusted(remote) \ {old}
      /\ x.gen = g /\ x.by = d
  BY <1>3, <1>6 DEF Certificate
<1>8. m \in Marker /\ m.ids = {old}
  BY <1>6 DEF Marker
<1>9. p \in Replaced /\ p.cred = rec[d].cur /\ p.ids = {old} /\ p.gen = g
  BY <1>2, <1>6 DEF Replaced, Record
<1>10. Persist(d, s, r, None)
  BY <1>5
<1> HIDE DEF x, m, p
<1>11. r \in Record /\ r.cur = n /\ r.prev = p
  BY <1>6, <1>9 DEF Record
<1> HIDE DEF r
<1>12. /\ Successor(d, remote) \in Snapshot
       /\ Successor(d, remote).by = d
       /\ Successor(d, remote).chain = remote.chain
       /\ Successor(d, remote).profiles = remote.profiles
  BY <1>3, SuccessorKind
<1>13. Append(remote.chain, x) \in Chains
  BY <1>3, <1>7, AppendProperties DEF Chains
<1>14. RevokeProfile(remote.profiles, d, old) \in Profiles
  <2>1. remote.profiles \in Profiles
    BY <1>3 DEF Snapshot, Profiles
  <2> QED
    BY <1>6, <2>1, RevokeProfileKind
<1>15. /\ s \in Snapshot /\ s.by = d /\ s.chain = Append(remote.chain, x)
       /\ s.key = n /\ s.cred = n /\ s.marker = m
  BY <1>3, <1>6, <1>8, <1>12, <1>13, <1>14 DEF Snapshot, Chains, Profiles
<1> HIDE DEF s
<1>16. /\ LastCertificate(s) = x
       /\ Trusted(s) = x.devs /\ KeyGeneration(s) = x.gen
       /\ Len(s.chain) = Len(remote.chain) + 1 /\ s.chain # remote.chain
       /\ IsPrefix(remote.chain, s.chain)
  BY <1>3, <1>7, <1>15, OneMoreCertificate
<1>17. Lineage(s.chain)
  <2>1. Revokes(remote.chain, x)
    BY <1>5, <1>7 DEF Revokes, Trusted, KeyGeneration, LastCertificate
  <2> QED
    BY <1>3, <1>7, <1>15, <2>1, RevocationKeepsLineage
<1>18. /\ s.key # remote.key /\ remote.key \in 1 .. rotations
       /\ rec[d].cur = remote.key
  BY <1>2, <1>3, <1>15 DEF Sound, Entitled, IInv, TypeInv
<1>19. s.marker # None /\ r.prev # None /\ One(r.prev.ids) /\ One(s.marker.ids)
  BY <1>8, <1>9, <1>11, <1>15, NotNone DEF One
<1>20. Continues(d, s, remote, r)
  <2>1. Rotates(s, remote, r)
    BY <1>2, <1>7, <1>9, <1>11, <1>16, <1>18, <1>19 DEF Rotates
  <2> QED
    BY <1>7, <1>16, <2>1 DEF Continues
<1>21. Entitled(d, s, r) /\ d \in Trusted(remote)
  BY <1>2, <1>5, <1>7, <1>9, <1>11, <1>15, <1>16, <1>18 DEF Entitled
<1>22. Prepared(d, s, r)
  BY <1>2, <1>11, <1>15, <1>16, <1>17, <1>19, <1>20, <1>21 DEF Prepared
<1>23. Rotated(s)
  BY <1>4, <1>15 DEF Rotated
<1> QED
  BY <1>4, <1>10, <1>15, <1>22, <1>23 DEF Makes

-----------------------------------------------------------------------------
(* The invariant holds at first, and every step keeps it.                  *)

LEMMA FirstSnapshotFacts ==
    ASSUME NEW m \in Members, NEW s, s = FirstSnapshot(m)
    PROVE  /\ s \in Snapshot /\ s.by = m
           /\ s.key = 1 /\ s.cred = 1 /\ s.marker = None
           /\ Lineage(s.chain) /\ Trusted(s) = Members
<1> DEFINE x == [devs |-> Members, gen |-> 1, by |-> None]
           v == [Zero EXCEPT ![m] = 1]
           p == [d \in Devices |->
                    IF d \in Members
                    THEN [st |-> "active", vv |-> IncrementVersionVector(Zero, d)]
                    ELSE Missing]
<1>1. m \in Devices /\ Members \subseteq Devices
  BY MembersAssumption
<1>2. x \in Certificate /\ x.devs = Members
  BY <1>1 DEF Certificate
<1>3. v \in Vector
  BY <1>1, ZeroKind DEF Vector
<1>4. p \in Profiles
  <2>1. \A d \in Devices : IncrementVersionVector(Zero, d) \in Vector
    BY VectorKinds, ZeroKind
  <2>2. Missing \in Profile
    BY ZeroKind DEF Missing, Profile
  <2>3. \A d \in Devices :
            [st |-> "active", vv |-> IncrementVersionVector(Zero, d)] \in Profile
    BY <2>1 DEF Profile
  <2> QED
    BY <2>2, <2>3 DEF Profiles
<1>5. s = [vv |-> v, by |-> m, chain |-> <<x>>, key |-> 1, cred |-> 1,
           slots |-> Members, profiles |-> p, marker |-> None, content |-> Zero]
  BY DEF FirstSnapshot
<1> HIDE DEF v, p, x
<1>6. <<x>> \in Chains /\ Lineage(<<x>>) /\ Len(<<x>>) = 1 /\ <<x>>[1] = x
  BY <1>2, GenesisLineage
<1>7. s \in Snapshot
  BY <1>1, <1>3, <1>4, <1>5, <1>6, ZeroKind DEF Snapshot, Chains, Profiles
<1>8. s.chain = <<x>>
  BY <1>5
<1>9. Trusted(s) = Members
  BY <1>2, <1>6, <1>8 DEF Trusted, LastCertificate
<1> QED
  BY <1>5, <1>6, <1>7, <1>8, <1>9

\* The members start with one snapshot and one credential.
LEMMA InitEstablishesInvariant ==
    ASSUME Init
    PROVE  IInv
<1>1. PICK m \in Members :
        /\ remote = FirstSnapshot(m)
        /\ local = [d \in Devices |-> IF d \in Members
                        THEN FirstSnapshot(m) ELSE None]
        /\ rec = [d \in Devices |-> IF d \in Members
                    THEN [cur |-> 1, prev |-> None] ELSE None]
        /\ upload = [d \in Devices |-> None]
        /\ approval = [d \in Devices |-> None]
        /\ live = {1} /\ rotations = 1 /\ mishaps = 0
  BY DEF Init
<1>2. /\ remote \in Snapshot /\ remote.by = m
      /\ remote.key = 1 /\ remote.cred = 1 /\ remote.marker = None
      /\ Lineage(remote.chain) /\ Trusted(remote) = Members
  BY <1>1, FirstSnapshotFacts
<1> DEFINE r == [cur |-> 1, prev |-> None]
<1>3. /\ local = [d \in Devices |-> IF d \in Members THEN remote ELSE None]
      /\ rec = [d \in Devices |-> IF d \in Members THEN r ELSE None]
  BY <1>1
<1>4. r \in Record /\ r.cur = 1 /\ r.prev = None
  BY DEF Record
<1> HIDE DEF r
<1>5. TypeInv
  BY <1>1, <1>2, <1>3, <1>4, BoundsAssumption DEF TypeInv
<1>6. /\ \A d \in Devices : upload[d] = None /\ approval[d] = None
      /\ \A d \in Members : local[d] = remote /\ rec[d] = r
      /\ \A d \in Devices \ Members : local[d] = None /\ rec[d] = None
  BY <1>1, <1>3, MembersAssumption
<1>7. remote # None /\ r # None
  BY <1>2, <1>4, NotNone
<1>8. PresenceInv
  BY <1>6, <1>7 DEF PresenceInv
<1>9. \A s \in Snapshot : Held(s) => s = remote
  BY <1>6 DEF Held
<1>10. Sound(remote)
  BY <1>1, <1>2 DEF Sound
<1>11. HeldInv /\ FamilyInv
  BY <1>9, <1>10 DEF HeldInv, FamilyInv, SameFamily
<1>12. HoldInv
  <2>1. ASSUME NEW d \in Devices, NEW s \in Snapshot, NEW q \in Record,
               Holds(d, s, q)
        PROVE  d \in Members /\ s = remote /\ q = r
    BY <1>6, <2>1 DEF Holds
  <2> QED
    BY <1>2, <1>4, <2>1 DEF HoldInv, Entitled
<1>13. UploadInv
  BY <1>6 DEF UploadInv
<1>14. remote.chain \in Chains
  BY <1>2 DEF Snapshot, Chains
<1>15. SettledInv
  BY <1>6, <1>14, PrefixReflexive DEF SettledInv, OnLine
<1> QED
  BY <1>5, <1>8, <1>11, <1>12, <1>13, <1>15 DEF IInv

LEMMA UnchangedSettles ==
    ASSUME IInv, UNCHANGED vars
    PROVE  Settles
<1>1. TypeInv'
  BY DEF vars, IInv, TypeInv
<1> QED
  BY <1>1, ApprovalsHeld, UploadsUntouched, QuietSettles DEF vars

\* Every step is of one of five kinds.
LEMMA StepKinds ==
    ASSUME IInv, [Next]_vars
    PROVE  \/ \E d \in Devices : \E s, r, w : Makes(d, s, r, w)
           \/ \E d \in Devices : \E r : Takes(d, r)
           \/ Settles
           \/ \E d \in Devices : CompleteOwn(d)
           \/ \E d \in Devices : Refused(d)
<1>1. ASSUME NEW d \in Devices,
             \/ Edit(d) \/ PerformEnrollment(d) \/ CompleteShared(d)
             \/ AuthorizeEnrollment(d) \/ Revoke(d)
      PROVE  \E s, r, w : Makes(d, s, r, w)
  BY <1>1, EditMakes, PerformEnrollmentMakes, CompleteSharedMakes,
     AuthorizeEnrollmentMakes, RevokeMakes
<1>2. ASSUME NEW d \in Devices,
             \/ AdoptRemote(d) \/ ResolveRemote(d)
             \/ ConsumeEnrollments(d) \/ ConsumeRevocations(d)
      PROVE  (\E r : Takes(d, r)) \/ \E s, r, w : Makes(d, s, r, w)
  BY <1>2, AdoptRemoteTakes, ResolveRemoteMakes, ConsumeEnrollmentsFollows,
     ConsumeRevocationsFollows
<1>3. ASSUME NEW d \in Devices,
             \/ Complete(d) \/ Lose(d) \/ Reconcile(d) \/ RetryRefused(d)
             \/ ApproveAgain(d)
      PROVE  Settles
  BY <1>3, CompleteSettles, LoseSettles, ReconcileSettles, RetryRefusedSettles,
     ApproveAgainSettles
<1>4. ASSUME NEW c \in live, DeleteCredential(c)
      PROVE  Settles
  BY <1>4, DeleteCredentialSettles
<1>5. CASE UNCHANGED vars
  BY <1>5, UnchangedSettles
<1>6. CASE Next
  BY <1>1, <1>2, <1>3, <1>4, <1>6 DEF Next
<1> QED
  BY <1>5, <1>6

\* Every step keeps the invariant.
LEMMA StepKeepsInvariant ==
    ASSUME IInv, [Next]_vars
    PROVE  IInv'
<1>1. ASSUME NEW d \in Devices, NEW s, NEW r, NEW w, Makes(d, s, r, w)
      PROVE  IInv'
  BY <1>1, PersistKeepsInvariant DEF Makes
<1>2. ASSUME NEW d \in Devices, NEW r, Takes(d, r)
      PROVE  IInv'
  BY <1>2, AdoptKeepsInvariant DEF Takes
<1> QED
  BY <1>1, <1>2, StepKinds, SettlesKeepsInvariant, CompleteOwnKeepsInvariant,
     RefusedKeepsInvariant

\* The invariant holds in every state of every behaviour.
THEOREM Invariance == Spec => []IInv
<1>1. Init => IInv
  BY InitEstablishesInvariant
<1>2. IInv /\ [Next]_vars => IInv'
  BY StepKeepsInvariant
<1> QED
  BY <1>1, <1>2, PTL DEF Spec

\* Every variable always holds a value of its kind, and a device has
\* credentials exactly when it has a vault, although storing both, sending
\* them and going back are steps that others come between.
THEOREM TypeCorrect == Spec => []TypeOK
<1>1. IInv => TypeOK
  <2> SUFFICES ASSUME IInv PROVE TypeOK
    OBVIOUS
  <2>1. ASSUME NEW s \in Snapshot, Held(s)
        PROVE  IsSnapshot(s)
    BY <2>1 DEF IInv, HeldInv, Sound, Lineage, IsSnapshot
  <2>2. IsSnapshot(remote)
    BY <2>1, RemoteFacts
  <2>3. ASSUME NEW d \in Devices
        PROVE  /\ local[d] = None \/ IsSnapshot(local[d])
               /\ approval[d] = None \/ IsSnapshot(approval[d])
               /\ rec[d] \in Record \cup {None}
               /\ upload[d] \in Upload \cup {None}
               /\ (rec[d] = None) = (local[d] = None)
               /\ rec[d] # None => rec[d].cur \in 1 .. rotations
               /\ upload[d] # None => local[d] # None
    <3>1. local[d] = None \/ IsSnapshot(local[d])
      BY <2>1, LocalFacts
    <3>2. approval[d] = None \/ IsSnapshot(approval[d])
      <4>1. approval[d] \in Snapshot \cup {None}
        BY DEF IInv, TypeInv
      <4>2. approval[d] # None => Held(approval[d])
        BY DEF Held
      <4> QED
        BY <2>1, <4>1, <4>2
    <3>3. rec[d] \in Record \cup {None} /\ upload[d] \in Upload \cup {None}
      BY DEF IInv, TypeInv
    <3>4. /\ (rec[d] = None) <=> (local[d] = None)
          /\ upload[d] # None => local[d] # None
      BY DEF IInv, PresenceInv
    <3>5. rec[d] # None => rec[d].cur \in 1 .. rotations
      BY <3>4, LocalFacts DEF Entitled, Sound
    <3>6. (rec[d] = None) = (local[d] = None)
      BY <3>4
    <3> QED
      BY <3>1, <3>2, <3>3, <3>4, <3>5, <3>6
  <2>4. live \subseteq 1 .. rotations /\ rotations \in Nat
        /\ mishaps \in 0 .. MaxMishaps
    BY DEF IInv, TypeInv
  <2> QED
    BY <2>2, <2>3, <2>4 DEF TypeOK
<1> QED
  BY <1>1, Invariance, PTL

\* A device that was revoked never has the key of the vault as it is now.
THEOREM RevokedNeverHoldTheKey == Spec => []RevokedHoldNoKey
<1>1. IInv => RevokedHoldNoKey
  <2> SUFFICES ASSUME IInv, NEW d \in Revoked(remote), local[d] # None,
                      local[d].key = remote.key
               PROVE  FALSE
    BY DEF RevokedHoldNoKey
  <2>1. d \in Devices
    <3>1. DOMAIN remote.chain = 1 .. Len(remote.chain)
      BY RemoteFacts, LenProperties DEF Chains
    <3> QED
      BY <3>1, RemoteFacts, ChainElements DEF Revoked, EverTrusted
  <2>2. /\ local[d] \in Snapshot /\ Held(local[d]) /\ d \in Trusted(local[d])
    BY <2>1, LocalFacts DEF Entitled
  <2>3. SameFamily(local[d], remote)
    BY <2>2, RemoteFacts DEF IInv, FamilyInv
  <2> QED
    BY <2>2, <2>3 DEF SameFamily, Revoked
<1> QED
  BY <1>1, Invariance, PTL

\* A credential is remembered as replaced together with the rotation of the
\* snapshot that is stored with it, also when a device has gone back.
THEOREM ReplacedCredentialIsOfThisRotation == Spec => []ReplacedWithThisRotation
<1>1. IInv => ReplacedWithThisRotation
  BY LocalFacts DEF ReplacedWithThisRotation, Entitled
<1> QED
  BY <1>1, Invariance, PTL

\* The remote snapshot is replaced by a device that it trusts, with a chain
\* that continues its own, and by nothing else.
THEOREM TrustAlwaysContinues == Spec => TrustOnlyContinues
<1>1. ASSUME IInv, [Next]_vars, remote' # remote
      PROVE  /\ remote'.by \in Trusted(remote)
             /\ IsPrefix(remote.chain, remote'.chain)
  <2>1. PICK d \in Devices : Complete(d) \/ Lose(d)
    <3>1. Next
      BY <1>1 DEF vars
    <3>2. /\ \A d \in Devices :
                /\ Edit(d) => remote' = remote
                /\ PerformEnrollment(d) => remote' = remote
                /\ AdoptRemote(d) => remote' = remote
                /\ ResolveRemote(d) => remote' = remote
                /\ ConsumeEnrollments(d) => remote' = remote
                /\ ConsumeRevocations(d) => remote' = remote
                /\ CompleteOwn(d) => remote' = remote
                /\ CompleteShared(d) => remote' = remote
                /\ Refused(d) => remote' = remote
                /\ Reconcile(d) => remote' = remote
                /\ RetryRefused(d) => remote' = remote
                /\ AuthorizeEnrollment(d) => remote' = remote
                /\ ApproveAgain(d) => remote' = remote
                /\ Revoke(d) => remote' = remote
          /\ \A c \in live : DeleteCredential(c) => remote' = remote
      BY DEF Edit, PerformEnrollment, AdoptRemote, ResolveRemote,
             ConsumeEnrollments, ConsumeRevocations, CompleteOwn, CompleteShared,
             Refused, Reconcile, RetryRefused, AuthorizeEnrollment, ApproveAgain,
             Revoke, DeleteCredential
    <3> QED
      BY <1>1, <3>1, <3>2 DEF Next
  <2>2. upload[d] # None /\ remote = upload[d].exp /\ remote' = local[d]
    BY <1>1, <2>1 DEF Complete, Lose, InFlight, NoUpload, ConditionHolds
  <2>3. Uploads(d)
    BY <1>1, <2>2, UploadFacts
  <2> QED
    BY <2>2, <2>3 DEF Uploads, Continues
<1>2. IInv /\ [Next]_vars =>
        [remote' # remote => /\ remote'.by \in Trusted(remote)
                             /\ IsPrefix(remote.chain, remote'.chain)]_vars
  BY <1>1 DEF vars
<1> QED
  BY <1>2, Invariance, PTL DEF Spec, TrustOnlyContinues

-----------------------------------------------------------------------------
(* The credentials that are withdrawn.  A revocation begins only when the  *)
(* vault says that the one before is complete, and whoever says so saw the *)
(* credential of the key before rejected.  So the only credential on the   *)
(* line of the remote snapshot that may still work, other than its own, is *)
(* that of the key just before, and only while there is a marker.          *)

\* The vaults on the line of the remote snapshot that devices have, and the
\* credentials that are remembered with them as replaced.
Stored(s) ==
    /\ s \in Snapshot /\ OnLine(s)
    /\ s = remote \/ \E x \in Devices, q \in Record : Holds(x, s, q)
Remembered(p) ==
    /\ p # None
    /\ \E x \in Devices, t \in Snapshot, q \in Record :
          Holds(x, t, q) /\ OnLine(t) /\ p = q.prev

\* A device uploads that the rotation of the snapshot it replaces is complete.
Completing(x) == /\ upload[x] # None
                 /\ upload[x].exp.marker # None /\ local[x].marker = None

OneKeyEach == \A s, t :
    Stored(s) /\ Stored(t) /\ KeyGeneration(s) = KeyGeneration(t) => s.key = t.key
OldKeysDead == \A s : Stored(s) /\ s.key # remote.key /\ s.key \in live =>
    remote.marker # None /\ KeyGeneration(s) + 1 = KeyGeneration(remote)
ReplacedDead == \A p : Remembered(p) /\ p.cred \in live =>
    remote.marker # None /\ p.gen = KeyGeneration(remote) /\ One(p.ids)

\* Who missed one rotation replaced the credential of the key before.
ReplacedIsKeyBefore == \A p, t :
    Remembered(p) /\ One(p.ids) /\ Stored(t) /\ KeyGeneration(t) + 1 = p.gen =>
        t.key = p.cred
ReplacedAgree == \A p, q :
    Remembered(p) /\ Remembered(q) /\ One(p.ids) /\ One(q.ids) /\ p.gen = q.gen =>
        p.cred = q.cred

\* What is older than a rotation that is being said complete is withdrawn.
Withdrawn(e) ==
    /\ \A t : Stored(t) /\ KeyGeneration(t) < KeyGeneration(e) => t.key \notin live
    /\ \A p : Remembered(p) /\ p.gen <= KeyGeneration(e) => p.cred \notin live
CompletionsTrue == \A x \in Devices : Completing(x) => Withdrawn(upload[x].exp)

LineInv == /\ OneKeyEach /\ OldKeysDead /\ ReplacedDead
           /\ ReplacedIsKeyBefore /\ ReplacedAgree /\ CompletionsTrue

\* What is on the line has no later key than the remote snapshot.
LEMMA StoredFacts ==
    ASSUME IInv, NEW s, Stored(s)
    PROVE  /\ s \in Snapshot /\ Held(s) /\ Sound(s) /\ OnLine(s)
           /\ s.chain \in Chains /\ s.chain # <<>>
           /\ KeyGeneration(s) \in Nat /\ KeyGeneration(remote) \in Nat
           /\ KeyGeneration(s) <= KeyGeneration(remote)
           /\ s.key \in 1 .. rotations
           /\ s.key = remote.key => KeyGeneration(s) = KeyGeneration(remote)
<1>1. s \in Snapshot /\ OnLine(s)
  BY DEF Stored
<1>2. Held(s)
  BY <1>1, RemoteFacts DEF Stored, Holds, Held
<1>3. Sound(s)
  BY <1>1, <1>2 DEF IInv, HeldInv
<1>4. s.chain # <<>> /\ s.key \in 1 .. rotations
  BY <1>3 DEF Sound, Lineage
<1>5. s.chain \in Chains /\ KeyGeneration(s) \in Nat
  BY <1>1, <1>4, LastOfChain
<1>6. KeyGeneration(s) <= KeyGeneration(remote)
  BY <1>1, <1>4, RemoteFacts, GenerationsGrow DEF OnLine, Sound
<1>7. s.key = remote.key => KeyGeneration(s) = KeyGeneration(remote)
  BY <1>1, <1>2, RemoteFacts DEF IInv, FamilyInv, SameFamily
<1> QED
  BY <1>1, <1>2, <1>3, <1>4, <1>5, <1>6, <1>7, RemoteFacts

LEMMA RemoteStored ==
    ASSUME IInv
    PROVE  Stored(remote)
BY RemoteFacts DEF Stored

\* A credential is remembered with a rotation that is not later than the last.
LEMMA RememberedFacts ==
    ASSUME IInv, NEW p, Remembered(p)
    PROVE  /\ p \in Replaced /\ p.gen \in Nat /\ p.cred \in 1 .. rotations
           /\ p.gen <= KeyGeneration(remote) /\ KeyGeneration(remote) \in Nat
<1>1. PICK x \in Devices, t \in Snapshot, q \in Record :
              Holds(x, t, q) /\ OnLine(t) /\ p = q.prev
  BY DEF Remembered
<1>2. Stored(t)
  BY <1>1 DEF Stored
<1>3. Entitled(x, t, q)
  BY <1>1 DEF IInv, HoldInv
<1>4. p # None /\ p \in Replaced
  BY <1>1 DEF Remembered, Record
<1>5. p.gen = KeyGeneration(t) /\ p.cred \in 1 .. rotations
  BY <1>1, <1>3, <1>4 DEF Entitled
<1> QED
  BY <1>2, <1>4, <1>5, StoredFacts

\* A step that leaves the remote object alone: what is stored has the keys it
\* had, and a device that missed a rotation remembers the key it missed it with.
NewlyReplaced(p) == \E t :
    /\ Stored(t) /\ p.cred = t.key /\ t.key # remote.key
    /\ p.gen = KeyGeneration(remote)
    /\ KeyGeneration(t) < KeyGeneration(remote)
    /\ One(p.ids) <=> KeyGeneration(remote) = KeyGeneration(t) + 1
HasTwin(t) == \E u : /\ Stored(u) /\ u.key = t.key
                     /\ KeyGeneration(u) = KeyGeneration(t)
Stays ==
    /\ remote' = remote
    /\ \A n \in 1 .. rotations : n \in live' => n \in live
    /\ \A t : Stored(t)' => HasTwin(t)
    /\ \A p : Remembered(p)' => Remembered(p) \/ NewlyReplaced(p)
    /\ \A x \in Devices : Completing(x)' =>
          \/ Completing(x) /\ upload'[x].exp = upload[x].exp
          \/ upload'[x].exp = remote /\ Witnessed(x)

\* The same generation, whatever the state it is read in.
LEMMA PrimedGeneration ==
    ASSUME NEW t
    PROVE  KeyGeneration(t)' = KeyGeneration(t)
BY DEF KeyGeneration, LastCertificate

\* What a device that saw its old credential rejected knows of all of them.
LEMMA WitnessKnows ==
    ASSUME IInv, LineInv, NEW x \in Devices, Witnessed(x)
    PROVE  /\ Withdrawn(remote)
           /\ \A p : NewlyReplaced(p) => p.cred \notin live
<1> DEFINE q == rec[x].prev
<1>1. /\ local[x] # None /\ OnLine(local[x]) /\ q # None /\ One(q.ids)
      /\ q.gen = KeyGeneration(remote) /\ q.cred \notin live
  BY DEF Witnessed
<1>2. Remembered(q)
  BY <1>1, LocalFacts DEF Remembered
<1> HIDE DEF q
<1>3. ASSUME NEW t, Stored(t), t.key # remote.key, t.key \in live
      PROVE  FALSE
  <2>1. KeyGeneration(t) + 1 = q.gen
    BY <1>1, <1>3 DEF LineInv, OldKeysDead
  <2>2. t.key = q.cred
    BY <1>1, <1>2, <1>3, <2>1 DEF LineInv, ReplacedIsKeyBefore
  <2> QED
    BY <1>1, <1>3, <2>2
<1>4. ASSUME NEW t, Stored(t), KeyGeneration(t) < KeyGeneration(remote)
      PROVE  t.key \notin live
  BY <1>3, <1>4, StoredFacts
<1>5. ASSUME NEW p, Remembered(p)
      PROVE  p.cred \notin live
  <2> SUFFICES ASSUME p.cred \in live PROVE FALSE
    OBVIOUS
  <2>1. p.gen = q.gen /\ One(p.ids)
    BY <1>1, <1>5 DEF LineInv, ReplacedDead
  <2>2. p.cred = q.cred
    BY <1>1, <1>2, <1>5, <2>1 DEF LineInv, ReplacedAgree
  <2> QED
    BY <1>1, <2>2
<1>6. \A p : NewlyReplaced(p) => p.cred \notin live
  BY <1>3 DEF NewlyReplaced
<1> QED
  BY <1>4, <1>5, <1>6 DEF Withdrawn

\* A step that leaves the remote object alone keeps the line.
LEMMA StaysKeepsLine ==
    ASSUME IInv, LineInv, Stays
    PROVE  LineInv'
<1>1. /\ remote' = remote /\ KeyGeneration(remote)' = KeyGeneration(remote)
      /\ \A n \in 1 .. rotations : n \in live' => n \in live
      /\ \A t : Stored(t)' => HasTwin(t)
      /\ \A p : Remembered(p)' => Remembered(p) \/ NewlyReplaced(p)
      /\ \A t : KeyGeneration(t)' = KeyGeneration(t)
  BY PrimedGeneration DEF Stays, KeyGeneration, LastCertificate
<1>2. OneKeyEach'
  BY <1>1 DEF HasTwin, LineInv, OneKeyEach
<1>3. OldKeysDead'
  BY <1>1, StoredFacts DEF HasTwin, LineInv, OldKeysDead
<1>4. ASSUME NEW p, Remembered(p)', p.cred \in live'
      PROVE  remote.marker # None /\ p.gen = KeyGeneration(remote) /\ One(p.ids)
  <2>1. CASE Remembered(p)
    BY <1>1, <1>4, <2>1, RememberedFacts DEF LineInv, ReplacedDead
  <2>2. CASE NewlyReplaced(p)
    BY <1>1, <1>4, <2>2, StoredFacts DEF NewlyReplaced, LineInv, OldKeysDead
  <2> QED
    BY <1>1, <1>4, <2>1, <2>2
<1>5. ReplacedDead'
  BY <1>1, <1>4 DEF ReplacedDead
<1>6. ASSUME NEW p, Remembered(p)', One(p.ids), NEW u, Stored(u),
             KeyGeneration(u) + 1 = p.gen
      PROVE  u.key = p.cred
  <2>1. CASE Remembered(p)
    BY <1>6, <2>1 DEF LineInv, ReplacedIsKeyBefore
  <2>2. CASE NewlyReplaced(p)
    <3>1. PICK t : /\ Stored(t) /\ p.cred = t.key
                   /\ p.gen = KeyGeneration(t) + 1
      BY <1>6, <2>2 DEF NewlyReplaced
    <3>2. KeyGeneration(u) = KeyGeneration(t)
      BY <1>6, <3>1, StoredFacts
    <3> QED
      BY <1>6, <3>1, <3>2 DEF LineInv, OneKeyEach
  <2> QED
    BY <1>1, <1>6, <2>1, <2>2
<1>7. ReplacedIsKeyBefore'
  BY <1>1, <1>6 DEF HasTwin, ReplacedIsKeyBefore, One
<1>8. ReplacedAgree'
  <2> SUFFICES ASSUME NEW p, NEW q, Remembered(p)', Remembered(q)',
                      One(p.ids), One(q.ids), p.gen = q.gen
               PROVE  p.cred = q.cred
    BY DEF ReplacedAgree, One
  <2>1. ASSUME NEW y, NewlyReplaced(y), One(y.ids),
               NEW z, Remembered(z)', One(z.ids), y.gen = z.gen
        PROVE  y.cred = z.cred
    <3>1. PICK t : /\ Stored(t) /\ y.cred = t.key
                   /\ y.gen = KeyGeneration(t) + 1
      BY <2>1 DEF NewlyReplaced
    <3> QED
      BY <1>6, <2>1, <3>1
  <2>2. CASE Remembered(p) /\ Remembered(q)
    BY <2>2 DEF LineInv, ReplacedAgree
  <2>3. CASE NewlyReplaced(p) \/ NewlyReplaced(q)
    BY <2>1, <2>3
  <2> QED
    BY <1>1, <2>2, <2>3
<1>9. ASSUME NEW x \in Devices, Completing(x)'
      PROVE  Withdrawn(upload[x].exp)'
  <2>1. PICK e : e = upload'[x].exp
    OBVIOUS
  <2>2. /\ Withdrawn(e)
        /\ \A p : NewlyReplaced(p) /\ p.gen <= KeyGeneration(e) =>
               p.cred \notin live
    <3>1. CASE Completing(x) /\ upload'[x].exp = upload[x].exp
      <4>1. Withdrawn(e)
        BY <2>1, <3>1 DEF LineInv, CompletionsTrue
      <4>2. KeyGeneration(e) \in Nat /\ KeyGeneration(remote) \in Nat
        BY <2>1, <3>1, UploadFacts, RemoteFacts DEF Completing
      <4>3. ASSUME NEW p, NewlyReplaced(p), p.gen <= KeyGeneration(e)
            PROVE  p.cred \notin live
        <5>1. PICK t : /\ Stored(t) /\ p.cred = t.key
                       /\ KeyGeneration(t) < KeyGeneration(remote)
                       /\ p.gen = KeyGeneration(remote)
          BY <4>3 DEF NewlyReplaced
        <5>2. KeyGeneration(t) < KeyGeneration(e)
          BY <4>2, <4>3, <5>1, StoredFacts
        <5> QED
          BY <4>1, <5>1, <5>2 DEF Withdrawn
      <4> QED
        BY <4>1, <4>3
    <3>2. CASE upload'[x].exp = remote /\ Witnessed(x)
      BY <2>1, <3>2, WitnessKnows
    <3> QED
      BY <1>9, <3>1, <3>2 DEF Stays
  <2>3. ASSUME NEW t, Stored(t)', KeyGeneration(t) < KeyGeneration(e)
        PROVE  t.key \notin live'
    <3>1. PICK u : /\ Stored(u) /\ u.key = t.key
                   /\ KeyGeneration(u) = KeyGeneration(t)
      BY <1>1, <2>3 DEF HasTwin
    <3> QED
      BY <1>1, <2>2, <2>3, <3>1, StoredFacts DEF Withdrawn
  <2>4. ASSUME NEW p, Remembered(p)', p.gen <= KeyGeneration(e)
        PROVE  p.cred \notin live'
    <3>1. CASE Remembered(p)
      BY <1>1, <2>2, <2>4, <3>1, RememberedFacts DEF Withdrawn
    <3>2. CASE NewlyReplaced(p)
      BY <1>1, <2>2, <2>4, <3>2, StoredFacts DEF NewlyReplaced
    <3> QED
      BY <1>1, <2>4, <3>1, <3>2
  <2>5. Withdrawn(e)'
    BY <1>1, <2>3, <2>4 DEF Withdrawn
  <2> QED
    BY <2>1, <2>5 DEF Withdrawn, KeyGeneration, LastCertificate
<1>10. CompletionsTrue'
  BY <1>9 DEF CompletionsTrue
<1> QED
  BY <1>2, <1>3, <1>5, <1>7, <1>8, <1>10 DEF LineInv

\* A step that brings no vault to a device, and no credential it had not.
LEMMA NothingNewStays ==
    ASSUME remote' = remote,
           \A n \in 1 .. rotations : n \in live' => n \in live,
           \A x \in Devices, t \in Snapshot, q \in Record : Holds(x, t, q)' =>
               \E o \in Record : /\ Holds(x, t, o)
                                 /\ q.prev = o.prev \/ q.prev = None,
           \A x \in Devices : Completing(x)' =>
               Completing(x) /\ upload'[x].exp = upload[x].exp
    PROVE  Stays
<1>1. \A t : OnLine(t)' <=> OnLine(t)
  BY DEF OnLine
<1>2. ASSUME NEW t, Stored(t)'
      PROVE  HasTwin(t)
  <2>1. Stored(t)
    BY <1>1, <1>2 DEF Stored
  <2> QED
    BY <2>1 DEF HasTwin
<1>3. ASSUME NEW p, Remembered(p)'
      PROVE  Remembered(p)
  <2>1. p # None
    BY <1>3 DEF Remembered
  <2>2. PICK x \in Devices, t \in Snapshot, q \in Record :
                Holds(x, t, q)' /\ OnLine(t) /\ p = q.prev
    BY <1>1, <1>3 DEF Remembered
  <2>3. PICK o \in Record : Holds(x, t, o) /\ p = o.prev
    BY <2>1, <2>2
  <2> QED
    BY <2>1, <2>2, <2>3 DEF Remembered
<1> QED
  BY <1>2, <1>3 DEF Stays

\* A snapshot that was prepared and is on the line has the key of the remote.
LEMMA PreparedOnLine ==
    ASSUME IInv, NEW d \in Devices, NEW s, NEW r, Prepared(d, s, r), OnLine(s)
    PROVE  /\ s.chain = remote.chain /\ s.key = remote.key
           /\ KeyGeneration(s) = KeyGeneration(remote)
<1>1. s.chain \in Chains /\ remote.chain \in Chains
  BY PreparedIsTyped, RemoteFacts
<1>2. IsPrefix(remote.chain, s.chain) /\ IsPrefix(s.chain, remote.chain)
  BY DEF Prepared, Continues, OnLine
<1>3. s.chain = remote.chain
  BY <1>1, <1>2, PrefixAntisymmetric
<1>4. KeyGeneration(s) = KeyGeneration(remote) /\ KeyGeneration(remote) \in Nat
  BY <1>3, SameChain, RemoteFacts
<1>5. s.key = remote.key
  BY <1>4 DEF Prepared, Continues, KeepsKey, Rotates
<1> QED
  BY <1>3, <1>4, <1>5

\* A device stores what it prepared.
LEMMA PreparedStays ==
    ASSUME IInv, NEW d \in Devices, NEW s, NEW r, Prepared(d, s, r), Rotated(s),
           remote' = remote,
           \A x \in Devices, t \in Snapshot, q \in Record :
               Holds(x, t, q)' => Holds(x, t, q) \/ (x = d /\ t = s /\ q = r),
           \A x \in Devices : Completing(x)' =>
               \/ Completing(x) /\ upload'[x].exp = upload[x].exp
               \/ upload'[x].exp = remote /\ Witnessed(x)
    PROVE  Stays
<1>1. \A t : OnLine(t)' <=> OnLine(t)
  BY DEF OnLine
<1>2. ASSUME NEW t, Stored(t)'
      PROVE  HasTwin(t)
  <2>1. CASE Stored(t)
    BY <2>1 DEF HasTwin
  <2>2. CASE ~Stored(t)
    <3>1. t = s /\ OnLine(s)
      BY <1>1, <1>2, <2>2 DEF Stored
    <3> QED
      BY <3>1, PreparedOnLine, RemoteStored DEF HasTwin
  <2> QED
    BY <2>1, <2>2
<1>3. ASSUME NEW p, Remembered(p)'
      PROVE  Remembered(p) \/ NewlyReplaced(p)
  <2>1. p # None
    BY <1>3 DEF Remembered
  <2>2. PICK x \in Devices, t \in Snapshot, q \in Record :
                Holds(x, t, q)' /\ OnLine(t) /\ p = q.prev
    BY <1>1, <1>3 DEF Remembered
  <2>3. CASE Holds(x, t, q)
    BY <2>1, <2>2, <2>3 DEF Remembered
  <2>4. CASE t = s /\ q = r
    <3>1. Remembers(d, p) /\ local[d] # None /\ OnLine(local[d])
      BY <2>1, <2>2, <2>4, PreparedOnLine DEF Prepared, Remembers
    <3>2. /\ local[d] \in Snapshot /\ rec[d] \in Record
          /\ Holds(d, local[d], rec[d])
      BY <3>1, LocalFacts
    <3>3. CASE p = rec[d].prev
      BY <2>1, <3>1, <3>2, <3>3 DEF Remembered
    <3>4. CASE p # rec[d].prev
      <4>1. Stored(local[d])
        BY <3>1, <3>2 DEF Stored
      <4> QED
        BY <3>1, <3>4, <4>1 DEF Remembers, NewlyReplaced
    <3> QED
      BY <3>3, <3>4
  <2> QED
    BY <2>2, <2>3, <2>4
<1>4. \A n \in 1 .. rotations : n \in live' => n \in live
  BY RotationsGrow
<1> QED
  BY <1>2, <1>3, <1>4 DEF Stays

LEMMA MakesStays ==
    ASSUME IInv, NEW d \in Devices, NEW s, NEW r, NEW w, Makes(d, s, r, w)
    PROVE  Stays
<1>1. /\ Prepared(d, s, r) /\ Persist(d, s, r, w) /\ Rotated(s)
      /\ w \in Devices \cup {None} /\ remote' = remote
  BY DEF Makes
<1>2. s \in Snapshot /\ r \in Record
  BY <1>1, PreparedIsTyped
<1>3. /\ local'[d] = s /\ rec'[d] = r /\ upload'[d] = Sent(d, w)
      /\ Sent(d, w) \in Upload
      /\ \A x \in Devices \ {d} :
            local'[x] = local[x] /\ rec'[x] = rec[x] /\ upload'[x] = upload[x]
  BY <1>1, <1>2, PersistEffect
<1>4. /\ Sent(d, w).exp = remote /\ Sent(d, w).back = local[d]
      /\ Sent(d, w).backRec = rec[d]
  BY DEF Sent
<1>5. ASSUME NEW x \in Devices, NEW t \in Snapshot, NEW q \in Record,
             Holds(x, t, q)'
      PROVE  Holds(x, t, q) \/ (x = d /\ t = s /\ q = r)
  <2>1. CASE x = d
    BY <1>3, <1>4, <1>5, <2>1 DEF Holds
  <2>2. CASE x # d
    BY <1>3, <1>5, <2>2 DEF Holds
  <2> QED
    BY <2>1, <2>2
<1>6. ASSUME NEW x \in Devices, Completing(x)'
      PROVE  \/ Completing(x) /\ upload'[x].exp = upload[x].exp
             \/ upload'[x].exp = remote /\ Witnessed(x)
  <2>1. CASE x = d
    <3>1. remote.marker # None /\ s.marker = None
      BY <1>3, <1>4, <1>6, <2>1 DEF Completing
    <3> QED
      BY <1>1, <1>3, <1>4, <2>1, <3>1 DEF Prepared
  <2>2. CASE x # d
    BY <1>3, <1>6, <2>2 DEF Completing
  <2> QED
    BY <2>1, <2>2
<1> QED
  BY <1>1, <1>5, <1>6, PreparedStays

LEMMA TakesStays ==
    ASSUME IInv, NEW d \in Devices, NEW r, Takes(d, r)
    PROVE  Stays
<1>1. /\ Prepared(d, remote, r) /\ Adopt(d, r)
      /\ UNCHANGED <<remote, approval, live, rotations, mishaps>>
  BY DEF Takes
<1>2. /\ local'[d] = remote /\ rec'[d] = r /\ upload'[d] = None
      /\ \A x \in Devices \ {d} :
            local'[x] = local[x] /\ rec'[x] = rec[x] /\ upload'[x] = upload[x]
  BY <1>1 DEF Adopt, IInv, TypeInv
<1>3. ASSUME NEW x \in Devices, NEW t \in Snapshot, NEW q \in Record,
             Holds(x, t, q)'
      PROVE  Holds(x, t, q) \/ (x = d /\ t = remote /\ q = r)
  <2>1. CASE x = d
    BY <1>2, <1>3, <2>1 DEF Holds
  <2>2. CASE x # d
    BY <1>2, <1>3, <2>2 DEF Holds
  <2> QED
    BY <2>1, <2>2
<1>4. ASSUME NEW x \in Devices, Completing(x)'
      PROVE  Completing(x) /\ upload'[x].exp = upload[x].exp
  BY <1>2, <1>4 DEF Completing
<1>5. Rotated(remote)
  BY <1>1 DEF Rotated
<1> QED
  BY <1>1, <1>3, <1>4, <1>5, PreparedStays

LEMMA CompleteOwnStays ==
    ASSUME IInv, NEW d \in Devices, CompleteOwn(d)
    PROVE  Stays
<1>1. /\ local[d] # None /\ upload[d] = None
      /\ rec' = [rec EXCEPT ![d].prev = None]
      /\ UNCHANGED <<remote, local, upload, approval, live, rotations, mishaps>>
  BY DEF CompleteOwn, MayComplete, NoUpload
<1>2. rec[d] \in Record /\ Holds(d, local[d], rec[d])
  BY <1>1, LocalFacts
<1>3. /\ rec'[d].prev = None
      /\ \A x \in Devices \ {d} : rec'[x] = rec[x]
  BY <1>1, <1>2 DEF IInv, TypeInv, Record
<1>4. ASSUME NEW x \in Devices, NEW t \in Snapshot, NEW q \in Record,
             Holds(x, t, q)'
      PROVE  \E o \in Record : /\ Holds(x, t, o)
                               /\ q.prev = o.prev \/ q.prev = None
  <2>1. CASE x = d
    <3>1. t = local[d] /\ q = rec'[d]
      BY <1>1, <1>4, <2>1 DEF Holds
    <3> QED
      BY <1>2, <1>3, <2>1, <3>1
  <2>2. CASE x # d
    BY <1>1, <1>3, <1>4, <2>2 DEF Holds
  <2> QED
    BY <2>1, <2>2
<1>5. \A x \in Devices : Completing(x)' =>
          Completing(x) /\ upload'[x].exp = upload[x].exp
  BY <1>1 DEF Completing
<1> QED
  BY <1>1, <1>4, <1>5, NothingNewStays

LEMMA RefusedStays ==
    ASSUME IInv, NEW d \in Devices, Refused(d)
    PROVE  Stays
<1>1. /\ upload[d] # None
      /\ local' = [local EXCEPT ![d] = upload[d].back]
      /\ rec' = [rec EXCEPT ![d] = upload[d].backRec]
      /\ upload' = [upload EXCEPT ![d] = None]
      /\ UNCHANGED <<remote, approval, live, rotations, mishaps>>
  BY DEF Refused, NoUpload
<1>2. /\ local'[d] = upload[d].back /\ rec'[d] = upload[d].backRec
      /\ upload'[d] = None
      /\ \A x \in Devices \ {d} :
            local'[x] = local[x] /\ rec'[x] = rec[x] /\ upload'[x] = upload[x]
  BY <1>1 DEF IInv, TypeInv
<1>3. ASSUME NEW x \in Devices, NEW t \in Snapshot, NEW q \in Record,
             Holds(x, t, q)'
      PROVE  Holds(x, t, q)
  <2>1. CASE x = d
    BY <1>1, <1>2, <1>3, <2>1 DEF Holds
  <2>2. CASE x # d
    BY <1>2, <1>3, <2>2 DEF Holds
  <2> QED
    BY <2>1, <2>2
<1>4. ASSUME NEW x \in Devices, Completing(x)'
      PROVE  Completing(x) /\ upload'[x].exp = upload[x].exp
  BY <1>2, <1>4 DEF Completing
<1> QED
  BY <1>1, <1>3, <1>4, NothingNewStays

\* A step that makes no snapshot gives no device anything.
LEMMA SettlesHolds ==
    ASSUME Settles
    PROVE  /\ \A x \in Devices, t \in Snapshot, q \in Record :
                  Holds(x, t, q)' => Holds(x, t, q)
           /\ \A x \in Devices : Completing(x)' =>
                  Completing(x) /\ upload'[x].exp = upload[x].exp
<1>1. \A x \in Devices : GoesOn(x) /\ local'[x] = local[x] /\ rec'[x] = rec[x]
  BY DEF Settles
<1> QED
  BY <1>1 DEF GoesOn, Holds, Completing

LEMMA SettlesStays ==
    ASSUME IInv, Settles, remote' = remote
    PROVE  Stays
<1>1. live' \subseteq live
  BY DEF Settles
<1> QED
  BY <1>1, SettlesHolds, NothingNewStays

\* A write brings one vault to the line at most, the one that is written, and
\* with it the credential its device replaced, if it rotated.
LEMMA WrittenIsOnly ==
    ASSUME IInv, NEW d \in Devices, Writes(d), NEW x \in Devices,
           NEW t \in Snapshot, NEW q \in Record, Holds(x, t, q), OnLine(t)'
    PROVE  \/ OnLine(t)
           \/ /\ x = d /\ t = local[d] /\ q = rec[d]
              /\ local[d].chain # remote.chain
<1> SUFFICES ASSUME ~OnLine(t)
             PROVE  /\ x = d /\ t = local[d] /\ q = rec[d]
                    /\ local[d].chain # remote.chain
  OBVIOUS
<1>1. /\ upload[d] # None /\ upload[d].exp = remote /\ remote' = local[d]
      /\ Uploads(d) /\ local[d] # None
  BY UploadFacts DEF Writes, ConditionHolds
<1>2. /\ local[d].chain \in Chains /\ remote.chain \in Chains
      /\ t.chain \in Chains
  BY <1>1, LocalFacts, RemoteFacts DEF Snapshot, Chains
<1>3. IsPrefix(t.chain, local[d].chain) /\ Continues(d, local[d], remote, rec[d])
  BY <1>1 DEF OnLine, Uploads
<1>4. local[d].chain # remote.chain
  BY <1>3 DEF OnLine
<1>5. /\ Len(local[d].chain) = Len(remote.chain) + 1
      /\ IsPrefix(remote.chain, local[d].chain)
      /\ LastCertificate(local[d]).by = d
  BY <1>3, <1>4 DEF Continues
<1>6. t.chain = local[d].chain
  BY <1>2, <1>3, <1>5, PrefixOfOneMore DEF OnLine
<1>7. LastCertificate(t).by = d
  BY <1>5, <1>6 DEF LastCertificate
<1>8. t = local[x] /\ q = rec[x] /\ upload[x] # None
  <2>1. ~(upload[x] # None /\ t = upload[x].back)
    BY UploadFacts, NotNone
  <2>2. t = local[x] /\ q = rec[x]
    BY <2>1 DEF Holds
  <2>3. upload[x] # None
    BY <2>2, NotNone DEF IInv, SettledInv
  <2> QED
    BY <2>2, <2>3
<1>9. x = d
  <2>1. Uploads(x)
    BY <1>8, UploadFacts
  <2>2. /\ OnLine(upload[x].exp)
        /\ \/ t.chain = upload[x].exp.chain
           \/ LastCertificate(t).by = x
    BY <1>8, <2>1 DEF Uploads, Continues
  <2>3. t.chain # upload[x].exp.chain
    BY <2>2 DEF OnLine
  <2> QED
    BY <1>7, <2>2, <2>3
<1> QED
  BY <1>4, <1>8, <1>9

\* What is on the line after a write.
LEMMA WriteBrings ==
    ASSUME IInv, NEW d \in Devices, Writes(d), Settles
    PROVE  /\ Continues(d, local[d], remote, rec[d])
           /\ local[d] \in Snapshot /\ rec[d] \in Record
           /\ Entitled(d, local[d], rec[d]) /\ KeyGeneration(local[d]) \in Nat
           /\ upload[d].exp = remote /\ upload[d] # None /\ remote' = local[d]
           /\ \A t : Stored(t)' => Stored(t) \/ t = local[d]
           /\ \A p : Remembered(p)' =>
                 \/ Remembered(p)
                 \/ p = rec[d].prev /\ Rotates(local[d], remote, rec[d])
<1>1. /\ upload[d] # None /\ upload[d].exp = remote /\ remote' = local[d]
      /\ Uploads(d) /\ local[d] # None
  BY UploadFacts DEF Writes, ConditionHolds
<1>2. Continues(d, local[d], remote, rec[d])
  BY <1>1 DEF Uploads
<1>3. ASSUME NEW t, Stored(t)'
      PROVE  Stored(t) \/ t = local[d]
  <2>1. t \in Snapshot /\ OnLine(t)'
    BY <1>3 DEF Stored
  <2>2. CASE t = remote'
    BY <1>1, <2>2
  <2>3. ASSUME NEW x \in Devices, NEW q \in Record, Holds(x, t, q)'
        PROVE  Stored(t) \/ t = local[d]
    <3>1. Holds(x, t, q)
      BY <2>1, <2>3, SettlesHolds
    <3> QED
      BY <2>1, <3>1, WrittenIsOnly DEF Stored
  <2> QED
    BY <1>3, <2>2, <2>3 DEF Stored
<1>4. ASSUME NEW p, Remembered(p)'
      PROVE  \/ Remembered(p)
             \/ p = rec[d].prev /\ Rotates(local[d], remote, rec[d])
  <2>1. p # None
    BY <1>4 DEF Remembered
  <2>2. PICK x \in Devices, t \in Snapshot, q \in Record :
                Holds(x, t, q)' /\ OnLine(t)' /\ p = q.prev
    BY <1>4 DEF Remembered
  <2>3. Holds(x, t, q)
    BY <2>2, SettlesHolds
  <2>4. CASE OnLine(t)
    BY <2>1, <2>2, <2>3, <2>4 DEF Remembered
  <2>5. CASE q = rec[d] /\ local[d].chain # remote.chain
    BY <1>2, <2>1, <2>2, <2>5 DEF Continues, KeepsKey
  <2> QED
    BY <2>2, <2>3, <2>4, <2>5, WrittenIsOnly
<1> QED
  BY <1>1, <1>2, <1>3, <1>4, LocalFacts

\* A snapshot is written that keeps the key, and may take the marker away.
LEMMA KeepingWriteKeepsLine ==
    ASSUME IInv, LineInv, NEW d \in Devices, Writes(d), Settles,
           KeepsKey(local[d], remote, rec[d])
    PROVE  LineInv'
<1>1. /\ remote'.key = remote.key
      /\ KeyGeneration(remote') = KeyGeneration(remote)
      /\ remote'.marker = remote.marker \/ remote'.marker = None
      /\ upload[d].exp = remote /\ upload[d] # None /\ remote' = local[d]
      /\ live' \subseteq live
      /\ \A t : KeyGeneration(t)' = KeyGeneration(t)
  BY WriteBrings, PrimedGeneration DEF KeepsKey, SameFamily, Settles
<1>2. \A t : Stored(t)' => HasTwin(t)
  BY <1>1, WriteBrings, RemoteStored DEF HasTwin
<1>3. \A p : Remembered(p)' => Remembered(p)
  BY WriteBrings DEF KeepsKey, Rotates
<1>4. remote.marker # None /\ remote'.marker = None => Withdrawn(remote)
  BY <1>1 DEF LineInv, CompletionsTrue, Completing
<1>5. OneKeyEach'
  BY <1>1, <1>2 DEF HasTwin, LineInv, OneKeyEach
<1>6. ASSUME NEW t, Stored(t)', t.key # remote.key, t.key \in live
      PROVE  remote'.marker # None /\ KeyGeneration(t) + 1 = KeyGeneration(remote)
  <2>1. PICK u : /\ Stored(u) /\ u.key = t.key
                 /\ KeyGeneration(u) = KeyGeneration(t)
    BY <1>2, <1>6 DEF HasTwin
  <2>2. remote.marker # None /\ KeyGeneration(u) + 1 = KeyGeneration(remote)
    BY <1>6, <2>1 DEF LineInv, OldKeysDead
  <2>3. KeyGeneration(u) < KeyGeneration(remote)
    BY <2>1, <2>2, StoredFacts
  <2> QED
    BY <1>1, <1>4, <1>6, <2>1, <2>2, <2>3 DEF Withdrawn
<1>7. OldKeysDead'
  BY <1>1, <1>6 DEF OldKeysDead, KeyGeneration, LastCertificate
<1>8. ASSUME NEW p, Remembered(p)', p.cred \in live
      PROVE  remote'.marker # None /\ p.gen = KeyGeneration(remote) /\ One(p.ids)
  <2>1. /\ Remembered(p) /\ remote.marker # None
        /\ p.gen = KeyGeneration(remote) /\ One(p.ids)
    BY <1>3, <1>8 DEF LineInv, ReplacedDead
  <2>2. p.gen <= KeyGeneration(remote)
    BY <2>1, RememberedFacts
  <2> QED
    BY <1>1, <1>4, <1>8, <2>1, <2>2 DEF Withdrawn
<1>9. ReplacedDead'
  BY <1>1, <1>8 DEF ReplacedDead, KeyGeneration, LastCertificate
<1>10. ReplacedIsKeyBefore'
  <2> SUFFICES ASSUME NEW p, NEW t, Remembered(p)', One(p.ids), Stored(t)',
                      KeyGeneration(t) + 1 = p.gen
               PROVE  t.key = p.cred
    BY <1>1 DEF ReplacedIsKeyBefore, One
  <2>1. PICK u : /\ Stored(u) /\ u.key = t.key
                 /\ KeyGeneration(u) = KeyGeneration(t)
    BY <1>2 DEF HasTwin
  <2>2. Remembered(p)
    BY <1>3
  <2> QED
    BY <2>1, <2>2 DEF LineInv, ReplacedIsKeyBefore
<1>11. ReplacedAgree'
  BY <1>3 DEF LineInv, ReplacedAgree, One
<1>12. ASSUME NEW x \in Devices, Completing(x)'
       PROVE  Withdrawn(upload[x].exp)'
  <2>1. Completing(x) /\ upload'[x].exp = upload[x].exp
    BY <1>12, SettlesHolds
  <2>2. PICK e : e = upload[x].exp
    OBVIOUS
  <2>3. Withdrawn(e)
    BY <2>1, <2>2 DEF LineInv, CompletionsTrue
  <2>4. Withdrawn(e)'
    BY <1>1, <1>2, <1>3, <2>3 DEF HasTwin, Withdrawn
  <2> QED
    BY <2>1, <2>2, <2>4 DEF Withdrawn, KeyGeneration, LastCertificate
<1>13. CompletionsTrue'
  BY <1>12 DEF CompletionsTrue
<1> QED
  BY <1>5, <1>7, <1>9, <1>10, <1>11, <1>13 DEF LineInv

\* A snapshot is written that has a new key: all keys but the one before were
\* withdrawn when there was no marker.
LEMMA RotatingWriteKeepsLine ==
    ASSUME IInv, LineInv, NEW d \in Devices, Writes(d), Settles,
           Rotates(local[d], remote, rec[d])
    PROVE  LineInv'
<1> DEFINE n == KeyGeneration(remote)
           r == rec[d].prev
<1>1. /\ remote'.key # remote.key /\ KeyGeneration(remote') = n + 1 /\ n \in Nat
      /\ remote.marker = None /\ remote'.marker # None
      /\ r # None /\ r.cred = remote.key /\ One(r.ids) /\ r.gen = n + 1
      /\ upload[d].exp = remote /\ upload[d] # None /\ remote' = local[d]
      /\ live' \subseteq live
      /\ \A t : KeyGeneration(t)' = KeyGeneration(t)
  BY WriteBrings, RemoteFacts, PrimedGeneration DEF Rotates, Settles, Entitled
<1>2. \A t : Stored(t)' => Stored(t) \/ t = remote'
  BY <1>1, WriteBrings
<1>3. \A p : Remembered(p)' => Remembered(p) \/ p = r
  BY WriteBrings
<1> HIDE DEF n, r
<1>4. ASSUME NEW t, Stored(t)
      PROVE  /\ KeyGeneration(t) \in Nat /\ KeyGeneration(t) <= n /\ t # remote'
             /\ t.key \in live => t.key = remote.key /\ KeyGeneration(t) = n
             /\ KeyGeneration(t) = n => t.key = remote.key
  <2>1. KeyGeneration(t) \in Nat /\ KeyGeneration(t) <= n
    BY <1>4, StoredFacts DEF n
  <2>2. t # remote'
    BY <1>1, <2>1
  <2>3. t.key \in live => t.key = remote.key /\ KeyGeneration(t) = n
    BY <1>1, <1>4, StoredFacts DEF LineInv, OldKeysDead, n
  <2>4. KeyGeneration(t) = n => t.key = remote.key
    BY <1>4, RemoteStored DEF LineInv, OneKeyEach, n
  <2> QED
    BY <2>1, <2>2, <2>3, <2>4
<1>5. ASSUME NEW p, Remembered(p)
      PROVE  p.gen \in Nat /\ p.gen <= n /\ p.cred \notin live
  BY <1>1, <1>5, RememberedFacts DEF LineInv, ReplacedDead, n
<1>6. OneKeyEach'
  BY <1>1, <1>2, <1>4 DEF LineInv, OneKeyEach
<1>7. \A t : Stored(t)' /\ t.key # remote'.key /\ t.key \in live' =>
          KeyGeneration(t) + 1 = KeyGeneration(remote')
  BY <1>1, <1>2, <1>4
<1>8. OldKeysDead'
  BY <1>1, <1>7 DEF OldKeysDead, KeyGeneration, LastCertificate
<1>9. \A p : Remembered(p)' /\ p.cred \in live' =>
          p.gen = KeyGeneration(remote') /\ One(p.ids)
  BY <1>1, <1>3, <1>5
<1>10. ReplacedDead'
  BY <1>1, <1>9 DEF ReplacedDead, KeyGeneration, LastCertificate, One
<1>11. ReplacedIsKeyBefore'
  <2> SUFFICES ASSUME NEW p, NEW t, Remembered(p)', One(p.ids), Stored(t)',
                      KeyGeneration(t) + 1 = p.gen
               PROVE  t.key = p.cred
    BY <1>1 DEF ReplacedIsKeyBefore, One
  <2>1. Stored(t)
    BY <1>1, <1>2, <1>3, <1>5
  <2>2. CASE Remembered(p)
    BY <2>1, <2>2 DEF LineInv, ReplacedIsKeyBefore
  <2>3. CASE p = r
    BY <1>1, <1>4, <2>1, <2>3
  <2> QED
    BY <1>3, <2>2, <2>3
<1>12. ReplacedAgree'
  <2> SUFFICES ASSUME NEW p, NEW q, Remembered(p)', Remembered(q)',
                      One(p.ids), One(q.ids), p.gen = q.gen
               PROVE  p.cred = q.cred
    BY DEF ReplacedAgree, One
  <2>1. CASE Remembered(p) /\ Remembered(q)
    BY <2>1 DEF LineInv, ReplacedAgree
  <2>2. CASE p = r \/ q = r
    BY <1>1, <1>3, <1>5, <2>2
  <2> QED
    BY <1>3, <2>1, <2>2
<1>13. ASSUME NEW x \in Devices, Completing(x)'
       PROVE  Withdrawn(upload[x].exp)'
  <2>1. Completing(x) /\ upload'[x].exp = upload[x].exp
    BY <1>13, SettlesHolds
  <2>2. PICK e : e = upload[x].exp
    OBVIOUS
  <2>3. Withdrawn(e)
    BY <2>1, <2>2 DEF LineInv, CompletionsTrue
  <2>4. KeyGeneration(e) \in Nat /\ KeyGeneration(e) <= n
    <3>1. /\ e \in Snapshot /\ e.chain # <<>> /\ OnLine(e)
          /\ KeyGeneration(e) \in Nat
      BY <2>1, <2>2, UploadFacts DEF Completing, Uploads
    <3> QED
      BY <3>1, RemoteFacts, GenerationsGrow DEF OnLine, Sound, n
  <2>5. /\ \A t : Stored(t)' /\ KeyGeneration(t) < KeyGeneration(e) => Stored(t)
        /\ \A p : Remembered(p)' /\ p.gen <= KeyGeneration(e) => Remembered(p)
    BY <1>1, <1>2, <1>3, <2>4
  <2>6. Withdrawn(e)'
    BY <1>1, <2>3, <2>5 DEF Withdrawn
  <2> QED
    BY <2>1, <2>2, <2>6 DEF Withdrawn, KeyGeneration, LastCertificate
<1>14. CompletionsTrue'
  BY <1>13 DEF CompletionsTrue
<1> QED
  BY <1>6, <1>8, <1>10, <1>11, <1>12, <1>14 DEF LineInv

\* Every step keeps the line.
LEMMA StepKeepsLine ==
    ASSUME IInv, LineInv, [Next]_vars
    PROVE  LineInv'
<1>1. ASSUME NEW d \in Devices, NEW s, NEW r, NEW w, Makes(d, s, r, w)
      PROVE  Stays
  BY <1>1, MakesStays
<1>2. ASSUME NEW d \in Devices, NEW r, Takes(d, r)
      PROVE  Stays
  BY <1>2, TakesStays
<1>3. ASSUME Settles, remote' # remote
      PROVE  LineInv'
  <2>1. PICK d \in Devices : Writes(d)
    BY <1>3 DEF Settles
  <2>2. \/ KeepsKey(local[d], remote, rec[d])
        \/ Rotates(local[d], remote, rec[d])
    BY <1>3, <2>1, WriteBrings DEF Continues
  <2> QED
    BY <1>3, <2>1, <2>2, KeepingWriteKeepsLine, RotatingWriteKeepsLine
<1>4. Stays \/ (Settles /\ remote' # remote)
  BY <1>1, <1>2, StepKinds, SettlesStays, CompleteOwnStays, RefusedStays
<1> QED
  BY <1>3, <1>4, StaysKeepsLine

LEMMA InitEstablishesLine ==
    ASSUME Init
    PROVE  LineInv
<1>1. /\ \A d \in Devices : upload[d] = None
      /\ \A d \in Devices : local[d] = None \/ local[d] = remote
      /\ \A d \in Devices : rec[d] # None => rec[d].prev = None
  BY DEF Init
<1>2. \A s : Stored(s) => s = remote
  BY <1>1 DEF Stored, Holds
<1>3. \A p : ~Remembered(p)
  BY <1>1, NotNone DEF Remembered, Holds
<1>4. \A x \in Devices : ~Completing(x)
  BY <1>1 DEF Completing
<1> QED
  BY <1>2, <1>3, <1>4 DEF LineInv, OneKeyEach, OldKeysDead, ReplacedDead,
     ReplacedIsKeyBefore, ReplacedAgree, CompletionsTrue

\* On the line of the remote snapshot every key but its own is withdrawn, or is
\* the one just before and the vault says so.
THEOREM LineInvariance == Spec => []LineInv
<1>1. Init => LineInv
  BY InitEstablishesLine
<1>2. IInv /\ LineInv /\ [Next]_vars => LineInv'
  BY StepKeepsLine
<1> QED
  BY <1>1, <1>2, Invariance, PTL DEF Spec

\* Once the vault says that the storage has withdrawn the credentials of those
\* who were revoked, no revoked device with a settled vault holds a credential
\* that works, neither its current one nor one it replaced.
THEOREM CompletionMeansRevoked == Spec => []CompleteMeansRevoked
<1>1. IInv /\ LineInv /\ RevokedHoldNoKey => CompleteMeansRevoked
  <2> SUFFICES ASSUME IInv, LineInv, RevokedHoldNoKey, remote.marker = None,
                      NEW d \in Revoked(remote), local[d] # None, NoUpload(d)
               PROVE  /\ rec[d].cur \notin live
                      /\ rec[d].prev # None => rec[d].prev.cred \notin live
    BY DEF CompleteMeansRevoked
  <2>1. d \in Devices
    <3>1. DOMAIN remote.chain = 1 .. Len(remote.chain)
      BY RemoteFacts, LenProperties DEF Chains
    <3> QED
      BY <3>1, RemoteFacts, ChainElements DEF Revoked, EverTrusted
  <2>2. /\ local[d] \in Snapshot /\ rec[d] \in Record /\ OnLine(local[d])
        /\ Holds(d, local[d], rec[d]) /\ rec[d].cur = local[d].key
    BY <2>1, LocalFacts DEF Entitled, IInv, SettledInv, NoUpload
  <2>3. Stored(local[d]) /\ local[d].key # remote.key
    BY <2>1, <2>2 DEF Stored, RevokedHoldNoKey
  <2>4. rec[d].cur \notin live
    BY <2>2, <2>3 DEF LineInv, OldKeysDead
  <2>5. rec[d].prev # None => Remembered(rec[d].prev)
    BY <2>1, <2>2 DEF Remembered
  <2> QED
    BY <2>4, <2>5 DEF LineInv, ReplacedDead
<1> QED
  BY <1>1, Invariance, LineInvariance, RevokedNeverHoldTheKey, PTL


-----------------------------------------------------------------------------
(* Every device can follow: what it has led to the remote snapshot, unless *)
(* its own upload is not settled.                                          *)

\* The device has counted a step that the remote snapshot does not know.
Pending(d) == upload[d] # None /\ remote.vv[d] < local[d].vv[d]

FollowInv ==
    /\ WellFormed(remote)
    /\ \A d \in Devices : local[d] # None =>
          WellFormed(local[d]) /\ (Leads(local[d], remote) \/ Pending(d))
    /\ \A d \in Devices : upload[d] # None =>
          /\ Child(d, upload[d].exp, local[d])
          /\ upload[d].back # None =>
                WellFormed(upload[d].back) /\ Leads(upload[d].back, remote)

\* A device that is behind has a snapshot that led to the remote one: what it
\* has counted itself would be missing there otherwise.
LEMMA BehindIsLed ==
    ASSUME IInv, FollowInv, NEW d \in Devices, local[d] # None,
           Behind(local[d], remote)
    PROVE  Leads(local[d], remote) /\ WellFormed(local[d]) /\ WellFormed(remote)
<1>1. local[d].vv \in Vector /\ remote.vv \in Vector
  BY LocalFacts, RemoteFacts DEF Snapshot
<1>2. local[d].vv[d] <= remote.vv[d]
  BY <1>1, BehindIsBelow DEF Behind, Above, NotAbove
<1>3. ~Pending(d)
  <2>1. local[d].vv[d] \in Nat /\ remote.vv[d] \in Nat
    BY <1>1 DEF Vector
  <2> QED
    BY <1>2, <2>1 DEF Pending
<1> QED
  BY <1>3 DEF FollowInv

\* The remote snapshot leads to itself.
LEMMA RemoteLeads ==
    ASSUME IInv
    PROVE  Leads(remote, remote)
BY RemoteFacts, LeadsReflexive

\* A step that stores a child of the remote snapshot, by a device that had it
\* or was led to it.
MakesChild(d, s, r, w) ==
    /\ Makes(d, s, r, w) /\ Child(d, remote, s)
    /\ local[d] # None => WellFormed(local[d]) /\ Leads(local[d], remote)

\* What a device stores is what the operation made.
LEMMA MadeIs ==
    ASSUME IInv, NEW d \in Devices, NEW s, NEW r, NEW w, Makes(d, s, r, w)
    PROVE  /\ s \in Snapshot /\ upload'[d] # None /\ d \in Trusted(remote)
           /\ \A t, q, u : Persist(d, t, q, u) => s = t
           /\ \A q : ~Adopt(d, q)
<1>1. /\ s \in Snapshot /\ r \in Record /\ w \in Devices \cup {None}
      /\ Persist(d, s, r, w) /\ d \in Trusted(remote)
  BY DEF Makes, Prepared
<1>2. /\ local'[d] = s /\ upload'[d] = Sent(d, w) /\ Sent(d, w) \in Upload
  BY <1>1, PersistEffect
<1>3. upload'[d] # None
  BY <1>2, NotNone
<1>4. \A t, q, u : Persist(d, t, q, u) => local'[d] = t
  BY DEF Persist, IInv, TypeInv
<1>5. \A q : Adopt(d, q) => upload'[d] = None
  BY DEF Adopt, IInv, TypeInv
<1> QED
  BY <1>1, <1>2, <1>3, <1>4, <1>5

\* A device that is up to date has the remote snapshot.
LEMMA UpToDateIsLed ==
    ASSUME IInv, FollowInv, NEW d \in Devices, UpToDate(d)
    PROVE  /\ local[d] = remote /\ WellFormed(remote) /\ WellFormed(local[d])
           /\ Leads(local[d], remote) /\ remote \in Snapshot
           /\ remote.chain # <<>>
BY UpToDateFacts, RemoteFacts, RemoteLeads DEF FollowInv

LEMMA EditMakesChild ==
    ASSUME IInv, FollowInv, NEW d \in Devices, Edit(d)
    PROVE  \E s, r, w : MakesChild(d, s, r, w)
<1>1. PICK s, r, w : Makes(d, s, r, w)
  BY EditMakes
<1>2. /\ local[d] = remote /\ WellFormed(remote) /\ WellFormed(local[d])
      /\ Leads(local[d], remote) /\ remote \in Snapshot
  BY UpToDateIsLed DEF Edit
<1>3. s \in Snapshot /\ d \in Trusted(remote)
  BY <1>1, MadeIs
<1>4. s = [Successor(d, remote) EXCEPT !.content = IncrementVersionVector(@, d)]
  BY <1>1, <1>2, MadeIs DEF Edit
<1>5. /\ s.vv = IncrementVersionVector(remote.vv, d) /\ s.by = d
      /\ s.chain = remote.chain /\ s.key = remote.key /\ s.slots = remote.slots
      /\ s.marker = remote.marker /\ s.profiles = remote.profiles
  BY <1>2, <1>4 DEF Successor, Snapshot
<1>6. Child(d, remote, s)
  BY <1>2, <1>3, <1>5, ProfilesStay, SameTrustChild DEF SameTrust, WellFormed
<1> QED
  BY <1>1, <1>2, <1>6 DEF MakesChild

LEMMA CompleteSharedMakesChild ==
    ASSUME IInv, FollowInv, NEW d \in Devices, CompleteShared(d)
    PROVE  \E s, r, w : MakesChild(d, s, r, w)
<1>1. PICK s, r, w : Makes(d, s, r, w)
  BY CompleteSharedMakes
<1>2. /\ local[d] = remote /\ WellFormed(remote) /\ WellFormed(local[d])
      /\ Leads(local[d], remote) /\ remote \in Snapshot
  BY UpToDateIsLed DEF CompleteShared
<1>3. s \in Snapshot /\ d \in Trusted(remote)
  BY <1>1, MadeIs
<1>4. s = [Successor(d, remote) EXCEPT !.marker = None]
  BY <1>1, <1>2, MadeIs DEF CompleteShared
<1>5. /\ s.vv = IncrementVersionVector(remote.vv, d) /\ s.by = d
      /\ s.chain = remote.chain /\ s.key = remote.key /\ s.slots = remote.slots
      /\ s.marker = None /\ s.profiles = remote.profiles
  BY <1>2, <1>4 DEF Successor, Snapshot
<1>6. Child(d, remote, s)
  BY <1>2, <1>3, <1>5, ProfilesStay, SameTrustChild DEF SameTrust, WellFormed
<1> QED
  BY <1>1, <1>2, <1>6 DEF MakesChild

\* A new device has no vault yet, and adds its profile.
LEMMA PerformEnrollmentMakesChild ==
    ASSUME IInv, FollowInv, NEW d \in Devices, PerformEnrollment(d)
    PROVE  \E s, r, w : MakesChild(d, s, r, w)
<1>1. PICK s, r, w : Makes(d, s, r, w)
  BY PerformEnrollmentMakes
<1>2. /\ local[d] = None /\ remote.profiles[d].st = "missing"
      /\ WellFormed(remote) /\ remote \in Snapshot
  BY RemoteFacts DEF PerformEnrollment, FollowInv
<1>3. s \in Snapshot /\ d \in Trusted(remote)
  BY <1>1, MadeIs
<1>4. s = [Successor(d, remote) EXCEPT !.profiles = AddProfile(@, d)]
  BY <1>1, MadeIs DEF PerformEnrollment
<1>5. /\ s.vv = IncrementVersionVector(remote.vv, d) /\ s.by = d
      /\ s.chain = remote.chain /\ s.key = remote.key /\ s.slots = remote.slots
      /\ s.marker = remote.marker /\ s.profiles = AddProfile(remote.profiles, d)
  BY <1>2, <1>4 DEF Successor, Snapshot
<1>6. /\ s.profiles[d].st = "active"
      /\ \A x \in Devices \ {d} : s.profiles[x] = remote.profiles[x]
  BY <1>2, <1>5 DEF AddProfile, Snapshot
<1>7. /\ ProfilesGrew(remote, s)
      /\ \A x \in Devices : \/ s.profiles[x].st = remote.profiles[x].st
                            \/ s.profiles[x].st = "active" /\ x \in Trusted(remote)
      /\ \A x \in Devices : s.profiles[x].st = "missing" => s.profiles[x] = Missing
  <2>1. ASSUME NEW x \in Devices
        PROVE  /\ Grew(remote.profiles[x], s.profiles[x])
               /\ \/ s.profiles[x].st = remote.profiles[x].st
                  \/ s.profiles[x].st = "active" /\ x \in Trusted(remote)
               /\ s.profiles[x].st = "missing" => s.profiles[x] = Missing
    <3>1. CASE x = d
      BY <1>2, <1>3, <1>6, <3>1 DEF Grew
    <3>2. CASE x # d
      BY <1>2, <1>6, <3>2 DEF Grew, WellFormed
    <3> QED
      BY <3>1, <3>2
  <2> QED
    BY <2>1 DEF ProfilesGrew
<1>8. Child(d, remote, s)
  BY <1>2, <1>3, <1>5, <1>7, SameTrustChild DEF SameTrust
<1> QED
  BY <1>1, <1>2, <1>8 DEF MakesChild

LEMMA AuthorizeEnrollmentMakesChild ==
    ASSUME IInv, FollowInv, NEW d \in Devices, AuthorizeEnrollment(d)
    PROVE  \E s, r, w : MakesChild(d, s, r, w)
<1>1. PICK s, r, w : Makes(d, s, r, w)
  BY AuthorizeEnrollmentMakes
<1>2. /\ local[d] = remote /\ WellFormed(remote) /\ WellFormed(local[d])
      /\ Leads(local[d], remote) /\ remote \in Snapshot
      /\ remote.chain # <<>> /\ remote.marker = None
  BY UpToDateIsLed DEF AuthorizeEnrollment, RevocationComplete
<1>3. s \in Snapshot /\ d \in Trusted(remote) /\ d \in Devices
  BY <1>1, MadeIs
<1>4. PICK new \in Devices \ EverTrusted(remote) :
        Persist(d, [Successor(d, remote) EXCEPT
                      !.chain = Append(@, [devs |-> Trusted(remote) \cup {new},
                                           gen |-> KeyGeneration(remote), by |-> d]),
                      !.slots = @ \cup {new}], rec[d], new)
  BY <1>2 DEF AuthorizeEnrollment
<1> DEFINE c == [devs |-> Trusted(remote) \cup {new},
                 gen |-> KeyGeneration(remote), by |-> d]
<1>5. s = [Successor(d, remote) EXCEPT !.chain = Append(@, c),
                                       !.slots = @ \cup {new}]
  BY <1>1, <1>4, MadeIs
<1>6. /\ c \in Certificate /\ c.devs = Trusted(remote) \cup {new}
      /\ c.gen = KeyGeneration(remote) /\ c.by = d
  BY <1>2, <1>3, LastOfChain DEF Certificate
<1> HIDE DEF c
<1>7. /\ s.vv = IncrementVersionVector(remote.vv, d) /\ s.by = d
      /\ s.chain = Append(remote.chain, c) /\ s.key = remote.key
      /\ s.slots = remote.slots \cup {new}
      /\ s.marker = None /\ s.profiles = remote.profiles
  BY <1>2, <1>5 DEF Successor, Snapshot
<1>8. Child(d, remote, s)
  BY <1>2, <1>3, <1>6, <1>7, JoinsChild
<1> QED
  BY <1>1, <1>2, <1>8 DEF MakesChild

LEMMA RevokeMakesChild ==
    ASSUME IInv, FollowInv, NEW d \in Devices, Revoke(d)
    PROVE  \E s, r, w : MakesChild(d, s, r, w)
<1>1. PICK s, r, w : Makes(d, s, r, w)
  BY RevokeMakes
<1>2. /\ local[d] = remote /\ WellFormed(remote) /\ WellFormed(local[d])
      /\ Leads(local[d], remote) /\ remote \in Snapshot
      /\ remote.chain # <<>>
  BY UpToDateIsLed DEF Revoke
<1>3. s \in Snapshot /\ d \in Trusted(remote) /\ d \in Devices
  BY <1>1, MadeIs
<1> DEFINE g == KeyGeneration(remote) + 1
           n == rotations + 1
<1>4. PICK old \in Trusted(remote) \ {d} :
        Persist(d, [Successor(d, remote) EXCEPT
                      !.chain = Append(@, [devs |-> Trusted(remote) \ {old},
                                           gen |-> g, by |-> d]),
                      !.slots = Trusted(remote) \ {old}, !.key = n, !.cred = n,
                      !.profiles = RevokeProfile(@, d, old),
                      !.marker = [ids |-> {old}, gen |-> g]],
                   [cur |-> n, prev |-> [cred |-> rec[d].cur, ids |-> {old},
                                         gen |-> g]], None)
  BY <1>2 DEF Revoke
<1> DEFINE c == [devs |-> Trusted(remote) \ {old}, gen |-> g, by |-> d]
           m == [ids |-> {old}, gen |-> g]
<1>5. s = [Successor(d, remote) EXCEPT
              !.chain = Append(@, c), !.slots = Trusted(remote) \ {old},
              !.key = n, !.cred = n,
              !.profiles = RevokeProfile(@, d, old), !.marker = m]
  BY <1>1, <1>4, MadeIs
<1>6. /\ c \in Certificate /\ c.devs = Trusted(remote) \ {old}
      /\ c.gen = KeyGeneration(remote) + 1 /\ c.by = d
      /\ m = [ids |-> {old}, gen |-> c.gen]
  BY <1>2, <1>3, LastOfChain DEF Certificate
<1> HIDE DEF c, m
<1>7. /\ s.vv = IncrementVersionVector(remote.vv, d) /\ s.by = d
      /\ s.chain = Append(remote.chain, c)
      /\ s.slots = Trusted(remote) \ {old}
      /\ s.marker = m /\ s.profiles = RevokeProfile(remote.profiles, d, old)
  BY <1>2, <1>5 DEF Successor, Snapshot
<1>8. Child(d, remote, s)
  BY <1>2, <1>3, <1>6, <1>7, BuriesChild
<1> QED
  BY <1>1, <1>2, <1>8 DEF MakesChild


\* A device that resolves what it follows.
LEMMA FollowsMakesChild ==
    ASSUME IInv, FollowInv, NEW d \in Devices, local[d] # None,
           Behind(local[d], remote), Reviewable(Baseline(local[d], remote), remote),
           NEW s, NEW r, NEW w, Makes(d, s, r, w), NEW q,
           Persist(d, Resolved(d, local[d], remote), q, None) \/ Adopt(d, q)
    PROVE  MakesChild(d, s, r, w)
<1>1. /\ Leads(local[d], remote) /\ WellFormed(local[d]) /\ WellFormed(remote)
      /\ local[d] \in Snapshot /\ remote \in Snapshot
  BY BehindIsLed, LocalFacts, RemoteFacts
<1>2. s = Resolved(d, local[d], remote) /\ d \in Trusted(remote)
  BY MadeIs
<1>3. Child(d, remote, s)
  BY <1>1, <1>2, ResolvedChild
<1> QED
  BY <1>1, <1>3 DEF MakesChild

\* Without new certificates everything is up for review.
LEMMA ReviewIsOfBaseline ==
    ASSUME NEW l \in Snapshot, NEW s \in Snapshot, CanReview(l, s)
    PROVE  Behind(l, s) /\ Reviewable(Baseline(l, s), s)
<1>1. s.chain = l.chain /\ l.chain \in Chains
  BY DEF CanReview, Snapshot, Chains
<1>2. Len(l.chain) \in Nat
  BY <1>1, LenProperties DEF Chains
<1>3. Suffix(l, s) = {}
  BY <1>1, <1>2 DEF Suffix
<1>4. l.profiles = [x \in Devices |-> l.profiles[x]]
  BY DEF Snapshot
<1>5. Baseline(l, s) = l.profiles
  BY <1>3, <1>4 DEF Baseline, Enrolled, RevokedSince
<1> QED
  BY <1>5 DEF CanReview, Verified

LEMMA FollowingMakesChild ==
    ASSUME IInv, FollowInv, NEW d \in Devices,
           \/ AdoptRemote(d) \/ ResolveRemote(d)
           \/ ConsumeEnrollments(d) \/ ConsumeRevocations(d),
           NEW s, NEW r, NEW w, Makes(d, s, r, w)
    PROVE  MakesChild(d, s, r, w)
<1>1. local[d] # None
  BY DEF AdoptRemote, ResolveRemote, ConsumeEnrollments, ConsumeRevocations, MayFollow
<1>2. local[d] \in Snapshot /\ remote \in Snapshot
  BY <1>1, LocalFacts, RemoteFacts
<1>3. /\ Behind(local[d], remote)
      /\ Reviewable(Baseline(local[d], remote), remote)
  BY <1>2, ReviewIsOfBaseline
     DEF AdoptRemote, ResolveRemote, ConsumeEnrollments, ConsumeRevocations,
         CanConsumeEnrollments, CanConsumeRevocations, MayConsumeRevocations, Verified
<1>4. PICK q : Persist(d, Resolved(d, local[d], remote), q, None) \/ Adopt(d, q)
  <2>1. CASE AdoptRemote(d)
    BY <2>1 DEF AdoptRemote
  <2>2. CASE ResolveRemote(d)
    BY <2>2 DEF ResolveRemote
  <2>3. CASE ConsumeEnrollments(d)
    BY <2>3 DEF ConsumeEnrollments
  <2>4. CASE ConsumeRevocations(d)
    BY <2>4 DEF ConsumeRevocations
  <2> QED
    BY <2>1, <2>2, <2>3, <2>4
<1> QED
  BY <1>1, <1>3, <1>4, FollowsMakesChild

\* Every step is of one of the five kinds, and what it makes is a child.
LEMMA ChildSteps ==
    ASSUME IInv, FollowInv, [Next]_vars
    PROVE  \/ \E d \in Devices : \E s, r, w : MakesChild(d, s, r, w)
           \/ \E d \in Devices : \E r : Takes(d, r)
           \/ Settles
           \/ \E d \in Devices : CompleteOwn(d)
           \/ \E d \in Devices : Refused(d)
<1>1. ASSUME NEW d \in Devices,
             \/ Edit(d) \/ PerformEnrollment(d) \/ CompleteShared(d)
             \/ AuthorizeEnrollment(d) \/ Revoke(d)
      PROVE  \E s, r, w : MakesChild(d, s, r, w)
  BY <1>1, EditMakesChild, PerformEnrollmentMakesChild, CompleteSharedMakesChild,
     AuthorizeEnrollmentMakesChild, RevokeMakesChild
<1>2. ASSUME NEW d \in Devices,
             \/ AdoptRemote(d) \/ ResolveRemote(d)
             \/ ConsumeEnrollments(d) \/ ConsumeRevocations(d)
      PROVE  (\E r : Takes(d, r)) \/ \E s, r, w : MakesChild(d, s, r, w)
  <2>1. (\E r : Takes(d, r)) \/ \E s, r, w : Makes(d, s, r, w)
    BY <1>2, AdoptRemoteTakes, ResolveRemoteMakes, ConsumeEnrollmentsFollows,
       ConsumeRevocationsFollows
  <2> QED
    BY <1>2, <2>1, FollowingMakesChild
<1>3. ASSUME NEW d \in Devices,
             \/ Complete(d) \/ Lose(d) \/ Reconcile(d) \/ RetryRefused(d)
             \/ ApproveAgain(d)
      PROVE  Settles
  BY <1>3, CompleteSettles, LoseSettles, ReconcileSettles, RetryRefusedSettles,
     ApproveAgainSettles
<1>4. ASSUME NEW c \in live, DeleteCredential(c)
      PROVE  Settles
  BY <1>4, DeleteCredentialSettles
<1>5. CASE UNCHANGED vars
  BY <1>5, UnchangedSettles
<1>6. CASE Next
  BY <1>1, <1>2, <1>3, <1>4, <1>6 DEF Next
<1> QED
  BY <1>5, <1>6

\* What FollowInv asks of a device.
CanBeLed(d) ==
    /\ local[d] # None => WellFormed(local[d]) /\ (Leads(local[d], remote) \/ Pending(d))
    /\ upload[d] # None =>
          /\ Child(d, upload[d].exp, local[d])
          /\ upload[d].back # None =>
                WellFormed(upload[d].back) /\ Leads(upload[d].back, remote)

LEMMA FollowInvParts ==
    FollowInv <=> WellFormed(remote) /\ \A d \in Devices : CanBeLed(d)
BY DEF FollowInv, CanBeLed

\* Nothing changes for a device with the vault and upload it had.
LEMMA UndisturbedIsLed ==
    ASSUME NEW x \in Devices, CanBeLed(x), remote' = remote,
           local'[x] = local[x], upload'[x] = upload[x]
    PROVE  CanBeLed(x)'
BY DEF CanBeLed, Pending

LEMMA MakesKeepsLed ==
    ASSUME IInv, FollowInv, NEW d \in Devices, NEW s, NEW r, NEW w,
           MakesChild(d, s, r, w)
    PROVE  FollowInv'
<1>1. /\ Makes(d, s, r, w) /\ Child(d, remote, s)
      /\ local[d] # None => WellFormed(local[d]) /\ Leads(local[d], remote)
  BY DEF MakesChild
<1>2. /\ s \in Snapshot /\ r \in Record /\ w \in Devices \cup {None}
      /\ Persist(d, s, r, w) /\ remote' = remote
  BY <1>1 DEF Makes, Prepared
<1>3. /\ local'[d] = s /\ upload'[d] = Sent(d, w) /\ Sent(d, w) \in Upload
      /\ \A x \in Devices \ {d} : local'[x] = local[x] /\ upload'[x] = upload[x]
  BY <1>2, PersistEffect
<1>4. /\ upload'[d] # None /\ upload'[d].exp = remote /\ upload'[d].back = local[d]
  BY <1>3, NotNone DEF Sent
<1>5. remote'.vv[d] < local'[d].vv[d]
  <2>1. remote.vv \in Vector
    BY RemoteFacts DEF Snapshot
  <2>2. s.vv[d] = remote.vv[d] + 1 /\ remote.vv[d] \in Nat
    BY <1>1, <2>1, Counted DEF Child
  <2>3. remote.vv[d] < s.vv[d]
    BY <2>2
  <2> QED
    BY <1>2, <1>3, <2>3
<1>6. CanBeLed(d)'
  <2>1. WellFormed(s)
    BY <1>1 DEF Child
  <2> QED
    BY <1>1, <1>2, <1>3, <1>4, <1>5, <2>1 DEF CanBeLed, Pending
<1>7. \A x \in Devices \ {d} : CanBeLed(x)'
  BY <1>2, <1>3, UndisturbedIsLed, FollowInvParts
<1>8. WellFormed(remote)'
  BY <1>2 DEF FollowInv
<1> QED
  BY <1>6, <1>7, <1>8 DEF FollowInv, CanBeLed

LEMMA TakesKeepsLed ==
    ASSUME IInv, FollowInv, NEW d \in Devices, NEW r, Takes(d, r)
    PROVE  FollowInv'
<1>1. Adopt(d, r) /\ remote' = remote
  BY DEF Takes
<1>2. /\ local'[d] = remote /\ upload'[d] = None
      /\ \A x \in Devices \ {d} : local'[x] = local[x] /\ upload'[x] = upload[x]
  BY <1>1 DEF Adopt, IInv, TypeInv
<1>3. WellFormed(remote) /\ Leads(remote, remote)
  BY RemoteLeads DEF FollowInv
<1>4. CanBeLed(d)'
  BY <1>1, <1>2, <1>3 DEF CanBeLed
<1>5. \A x \in Devices \ {d} : CanBeLed(x)'
  BY <1>1, <1>2, UndisturbedIsLed, FollowInvParts
<1>6. WellFormed(remote)'
  BY <1>1, <1>3
<1> QED
  BY <1>4, <1>5, <1>6 DEF FollowInv, CanBeLed

LEMMA RefusedKeepsLed ==
    ASSUME IInv, FollowInv, NEW d \in Devices, Refused(d)
    PROVE  FollowInv'
<1>1. /\ upload[d] # None /\ remote' = remote
      /\ local'[d] = upload[d].back /\ upload'[d] = None
      /\ \A x \in Devices \ {d} : local'[x] = local[x] /\ upload'[x] = upload[x]
  BY DEF Refused, NoUpload, IInv, TypeInv
<1>2. CanBeLed(d)'
  BY <1>1 DEF CanBeLed, FollowInv
<1>3. \A x \in Devices \ {d} : CanBeLed(x)'
  BY <1>1, UndisturbedIsLed, FollowInvParts
<1>4. WellFormed(remote)'
  BY <1>1 DEF FollowInv
<1> QED
  BY <1>2, <1>3, <1>4 DEF FollowInv, CanBeLed

LEMMA CompleteOwnKeepsLed ==
    ASSUME IInv, FollowInv, NEW d \in Devices, CompleteOwn(d)
    PROVE  FollowInv'
<1>1. remote' = remote /\ local' = local /\ upload' = upload
  BY DEF CompleteOwn
<1> QED
  BY <1>1 DEF FollowInv, Pending

\* The remote snapshot that a device writes is a child of the one before.
LEMMA WriteLeads ==
    ASSUME IInv, FollowInv, NEW e \in Devices, Writes(e)
    PROVE  /\ WellFormed(remote') /\ Leads(local[e], remote')
           /\ \A l \in Snapshot :
                 l.chain # <<>> /\ Leads(l, remote) => Leads(l, remote')
           /\ \A x \in Devices \ {e} : remote'.vv[x] = remote.vv[x]
<1>1. /\ upload[e] # None /\ remote = upload[e].exp /\ remote' = local[e]
      /\ local[e] # None
  BY UploadFacts DEF Writes, ConditionHolds
<1>2. /\ local[e] \in Snapshot /\ Lineage(local[e].chain) /\ local[e].chain # <<>>
      /\ remote \in Snapshot /\ Lineage(remote.chain)
  BY <1>1, LocalFacts, RemoteFacts DEF Sound
<1>3. Child(e, remote, local[e]) /\ WellFormed(remote)
  BY <1>1 DEF FollowInv
<1>4. WellFormed(local[e]) /\ Leads(local[e], local[e])
  BY <1>2, <1>3, LeadsReflexive DEF Child
<1>5. ASSUME NEW l \in Snapshot, l.chain # <<>>, Leads(l, remote)
      PROVE  Leads(l, local[e])
  BY <1>2, <1>3, <1>5, LeadsOn
<1>6. \A x \in Devices \ {e} : local[e].vv[x] = remote.vv[x]
  <2>1. remote.vv \in Vector
    BY <1>2 DEF Snapshot
  <2> QED
    BY <1>3, <2>1, Counted DEF Child
<1> QED
  BY <1>1, <1>4, <1>5, <1>6

LEMMA SettlesKeepsLed ==
    ASSUME IInv, FollowInv, Settles
    PROVE  FollowInv'
<1>1. local' = local /\ \A x \in Devices : GoesOn(x)
  BY DEF Settles
<1>2. /\ WellFormed(remote')
      /\ \A l \in Snapshot : l.chain # <<>> /\ Leads(l, remote) => Leads(l, remote')
      /\ \A x \in Devices : \/ remote'.vv[x] = remote.vv[x]
                            \/ Leads(local[x], remote')
  <2>1. CASE remote' = remote
    BY <2>1 DEF FollowInv
  <2>2. ASSUME NEW e \in Devices, Writes(e)
        PROVE  /\ WellFormed(remote')
               /\ \A l \in Snapshot :
                     l.chain # <<>> /\ Leads(l, remote) => Leads(l, remote')
               /\ \A x \in Devices : \/ remote'.vv[x] = remote.vv[x]
                                     \/ Leads(local[x], remote')
    BY <2>2, WriteLeads
  <2> QED
    BY <2>1, <2>2 DEF Settles
<1>3. ASSUME NEW x \in Devices
      PROVE  CanBeLed(x)'
  <2>1. CanBeLed(x)
    BY FollowInvParts
  <2>2. ASSUME local[x] # None
        PROVE  local[x] \in Snapshot /\ local[x].chain # <<>>
    BY <2>2, LocalFacts
  <2>3. ASSUME upload[x] # None, upload[x].back # None
        PROVE  upload[x].back \in Snapshot /\ upload[x].back.chain # <<>>
    BY <2>3, UploadFacts
  <2>4. CASE upload'[x] = None /\ remote' = local'[x]
    <3>1. \/ local'[x] = None
          \/ local'[x] \in Snapshot /\ local'[x].chain # <<>>
      BY <1>1, <2>2
    <3>2. local'[x] # None => WellFormed(local'[x])
      BY <1>1, <2>1 DEF CanBeLed
    <3>3. local'[x] # None => Leads(local'[x], remote')
      BY <2>4, <3>1, LeadsReflexive
    <3> QED
      BY <2>4, <3>2, <3>3 DEF CanBeLed
  <2>5. CASE upload'[x] = None /\ upload[x] = None
    <3>1. local[x] # None => WellFormed(local[x]) /\ Leads(local[x], remote)
      BY <2>1, <2>5 DEF CanBeLed, Pending
    <3>2. local[x] # None => Leads(local[x], remote')
      BY <1>2, <2>2, <3>1
    <3> QED
      BY <1>1, <2>5, <3>1, <3>2 DEF CanBeLed
  <2>6. CASE /\ upload[x] # None /\ upload'[x] # None
             /\ upload'[x].exp = upload[x].exp /\ upload'[x].back = upload[x].back
    <3>1. local[x] # None => /\ WellFormed(local[x])
                             /\ \/ Leads(local[x], remote')
                                \/ remote'.vv[x] < local[x].vv[x]
      BY <1>2, <2>1, <2>2 DEF CanBeLed, Pending
    <3>2. upload[x].back # None =>
             WellFormed(upload[x].back) /\ Leads(upload[x].back, remote')
      BY <1>2, <2>1, <2>3, <2>6 DEF CanBeLed
    <3>3. Child(x, upload[x].exp, local[x])
      BY <2>1, <2>6 DEF CanBeLed
    <3> QED
      BY <1>1, <2>6, <3>1, <3>2, <3>3 DEF CanBeLed, Pending
  <2> QED
    BY <1>1, <2>4, <2>5, <2>6 DEF GoesOn
<1> QED
  BY <1>2, <1>3 DEF FollowInv, CanBeLed

LEMMA StepKeepsLed ==
    ASSUME IInv, FollowInv, [Next]_vars
    PROVE  FollowInv'
BY ChildSteps, MakesKeepsLed, TakesKeepsLed, SettlesKeepsLed,
   CompleteOwnKeepsLed, RefusedKeepsLed

LEMMA FirstIsWellFormed ==
    ASSUME NEW m \in Members, NEW s, s = FirstSnapshot(m)
    PROVE  WellFormed(s)
<1>1. /\ s.by = m /\ s.slots = Members /\ s.marker = None /\ m \in Devices
      /\ s.chain = <<[devs |-> Members, gen |-> 1, by |-> None]>>
      /\ \A x \in Members : s.profiles[x].st = "active"
      /\ \A x \in Devices \ Members : s.profiles[x] = Missing
      /\ Members \subseteq Devices
  BY MembersAssumption DEF FirstSnapshot
<1>2. Len(s.chain) = 1 /\ s.chain[1].devs = Members
  BY <1>1
<1>3. Trusted(s) = Members
  BY <1>2 DEF Trusted, LastCertificate
<1>4. ValidChain(s)
  BY <1>2 DEF ValidChain
<1>5. \A x \in Devices : /\ s.profiles[x].st # "deleted"
                         /\ s.profiles[x].st = "active" => x \in Members
                         /\ s.profiles[x].st = "missing" => s.profiles[x] = Missing
  <2> TAKE x \in Devices
  <2>1. CASE x \in Members
    BY <1>1, <2>1
  <2>2. CASE x \notin Members
    BY <1>1, <2>2 DEF Missing
  <2> QED
    BY <2>1, <2>2
<1> QED
  BY <1>1, <1>3, <1>4, <1>5
     DEF WellFormed, ValidSnapshot, ProfilesMatchTrust, MarkerOfLastRevocation

LEMMA InitEstablishesLed ==
    ASSUME Init
    PROVE  FollowInv
<1>1. PICK m \in Members : remote = FirstSnapshot(m)
  BY DEF Init
<1>2. WellFormed(remote)
  BY <1>1, FirstIsWellFormed
<1>3. /\ \A d \in Devices : upload[d] = None
      /\ \A d \in Devices : local[d] = None \/ local[d] = remote
  BY DEF Init
<1>4. Leads(remote, remote)
  BY InitEstablishesInvariant, RemoteLeads
<1> QED
  BY <1>2, <1>3, <1>4 DEF FollowInv

\* Every vault that is stored has led to the remote snapshot, or waits for its
\* upload to be settled.
THEOREM FollowInvariance == Spec => []FollowInv
<1>1. Init => FollowInv
  BY InitEstablishesLed
<1>2. IInv /\ FollowInv /\ [Next]_vars => FollowInv'
  BY StepKeepsLed
<1> QED
  BY <1>1, <1>2, Invariance, PTL DEF Spec

\* Whatever a trusted device missed, in any number and order, it can follow,
\* unless the profile of a device that was revoked had been stamped by a
\* resolution it did not see.
THEOREM OnlyStampsStop == Spec => []OnlyMissedStampsStop
<1>1. IInv /\ FollowInv => OnlyMissedStampsStop
  <2> SUFFICES ASSUME IInv, FollowInv, NEW d \in Devices, NeedsToFollow(d),
                      ~CanFollow(d)
               PROVE  /\ MayConsumeRevocations(d, local[d], remote)
                      /\ MissedStamp(local[d], remote)
    BY DEF OnlyMissedStampsStop
  <2>1. local[d] # None /\ d \in Trusted(remote) /\ Behind(local[d], remote)
    BY DEF NeedsToFollow
  <2>2. /\ local[d] \in Snapshot /\ local[d].chain # <<>>
        /\ remote \in Snapshot /\ Lineage(remote.chain)
    BY <2>1, LocalFacts, RemoteFacts DEF Sound
  <2>3. Leads(local[d], remote) /\ WellFormed(local[d]) /\ WellFormed(remote)
    BY <2>1, BehindIsLed
  <2> QED
    BY <2>1, <2>2, <2>3, CanFollowUnlessStamped DEF CanFollow
<1> QED
  BY <1>1, Invariance, FollowInvariance, PTL
=============================================================================
