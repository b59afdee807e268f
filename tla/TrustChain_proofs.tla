-------------------------- MODULE TrustChain_proofs --------------------------
(* Facts about the operators of DeviceTrust: the chain of certificates that  *)
(* every vault carries, what a device can tell from the part it missed, the  *)
(* kinds of values that the operations make, and what of a snapshot its      *)
(* successors keep, so that a device can follow them.  No state is mentioned;*)
(* DeviceTrust_proofs uses them for every snapshot that is anywhere.         *)
EXTENDS DeviceTrust, VersionVectors_proofs, SequenceTheorems, FiniteSetTheorems

-----------------------------------------------------------------------------
(* Prefixes of a chain.                                                    *)

Chains == Seq(Certificate)

\* A prefix is shorter and agrees with the whole as far as it goes.
LEMMA PrefixElements ==
    ASSUME NEW b \in Chains, NEW c \in Chains
    PROVE  IsPrefix(b, c) <=> /\ Len(b) <= Len(c)
                              /\ \A i \in 1 .. Len(b) : b[i] = c[i]
<1>1. Len(b) \in Nat /\ Len(c) \in Nat
  BY LenProperties DEF Chains
<1>2. ASSUME IsPrefix(b, c)
      PROVE  Len(b) <= Len(c) /\ \A i \in 1 .. Len(b) : b[i] = c[i]
  BY <1>1, <1>2 DEF IsPrefix, Chains
<1>3. ASSUME Len(b) <= Len(c), \A i \in 1 .. Len(b) : b[i] = c[i]
      PROVE  IsPrefix(b, c)
  BY <1>1, <1>3 DEF IsPrefix, Chains
<1> QED
  BY <1>2, <1>3

\* Chains with the same certificates are the same.
LEMMA SequencesEqual ==
    ASSUME NEW b \in Chains, NEW c \in Chains,
           Len(b) = Len(c), \A i \in 1 .. Len(b) : b[i] = c[i]
    PROVE  b = c
<1>1. b \in [1 .. Len(b) -> Certificate] /\ c \in [1 .. Len(c) -> Certificate]
  BY LenProperties DEF Chains
<1> QED
  BY <1>1

LEMMA PrefixReflexive ==
    ASSUME NEW c \in Chains
    PROVE  IsPrefix(c, c)
BY PrefixElements, LenProperties DEF Chains

\* What continues a continuation continues the whole.
LEMMA PrefixTransitive ==
    ASSUME NEW b \in Chains, NEW c \in Chains, NEW e \in Chains,
           IsPrefix(b, c), IsPrefix(c, e)
    PROVE  IsPrefix(b, e)
<1>1. Len(b) \in Nat /\ Len(c) \in Nat /\ Len(e) \in Nat
  BY LenProperties DEF Chains
<1> QED
  BY <1>1, PrefixElements

\* Two chains each of which continues the other are the same.
LEMMA PrefixAntisymmetric ==
    ASSUME NEW b \in Chains, NEW c \in Chains, IsPrefix(b, c), IsPrefix(c, b)
    PROVE  b = c
<1>1. Len(b) \in Nat /\ Len(c) \in Nat
  BY LenProperties DEF Chains
<1>2. Len(b) = Len(c) /\ \A i \in 1 .. Len(b) : b[i] = c[i]
  BY <1>1, PrefixElements
<1> QED
  BY <1>2, SequencesEqual

\* A prefix of a chain that is one certificate longer than another is a
\* prefix of that other, or the longer chain itself.
LEMMA PrefixOfOneMore ==
    ASSUME NEW b \in Chains, NEW c \in Chains, NEW e \in Chains,
           IsPrefix(b, e), IsPrefix(c, e), Len(e) = Len(c) + 1
    PROVE  IsPrefix(b, c) \/ b = e
<1>1. Len(b) \in Nat /\ Len(c) \in Nat /\ Len(e) \in Nat
  BY LenProperties DEF Chains
<1>2. CASE Len(b) <= Len(c)
  BY <1>1, <1>2, PrefixElements
<1>3. CASE Len(b) > Len(c)
  <2>1. Len(b) = Len(e) /\ \A i \in 1 .. Len(b) : b[i] = e[i]
    BY <1>1, <1>3, PrefixElements
  <2> QED
    BY <2>1, SequencesEqual
<1> QED
  BY <1>1, <1>2, <1>3

\* A longer chain that agrees with another is a continuation of it.
LEMMA AgreeingIsPrefix ==
    ASSUME NEW c \in Chains, NEW a \in Chains, Len(a) = Len(c) + 1,
           \A i \in 1 .. Len(c) : a[i] = c[i]
    PROVE  IsPrefix(c, a)
<1>1. Len(c) \in Nat
  BY LenProperties DEF Chains
<1> QED
  BY <1>1, PrefixElements

\* The chain with one more certificate.
LEMMA Appended ==
    ASSUME NEW c \in Chains, NEW x \in Certificate
    PROVE  \E a \in Chains :
              /\ a = Append(c, x) /\ Len(c) \in Nat /\ Len(a) = Len(c) + 1
              /\ \A i \in 1 .. Len(c) : a[i] = c[i]
              /\ a[Len(c) + 1] = x
              /\ a # <<>> /\ IsPrefix(c, a)
<1>1. PICK a : a = Append(c, x)
  OBVIOUS
<1>2. /\ a \in Chains /\ Len(a) = Len(c) + 1 /\ Len(c) \in Nat
      /\ \A i \in 1 .. Len(c) : a[i] = c[i]
      /\ a[Len(c) + 1] = x
      /\ a # <<>>
  BY <1>1, AppendProperties, LenProperties DEF Chains
<1>3. IsPrefix(c, a)
  BY <1>2, AgreeingIsPrefix
<1> QED
  BY <1>1, <1>2, <1>3

-----------------------------------------------------------------------------
(* What every chain of the history keeps to.  No single certificate says   *)
(* these things of a whole chain; they carry from one certificate to the   *)
(* next.                                                                   *)

One(S) == \E x : S = {x}
Left(c, i) == c[i - 1].devs \ c[i].devs

\* The generation of the key never falls, a removal of one device raises it by
\* one, and it rises by nothing else.
NeverFalls(c) == \A i, j \in 1 .. Len(c) : i <= j => c[i].gen <= c[j].gen
RemovalRotates(c) == \A i \in 2 .. Len(c) :
    Left(c, i) # {} => One(Left(c, i)) /\ c[i].gen = c[i - 1].gen + 1
RotationRemoves(c) == \A i, j \in 1 .. Len(c) :
    i <= j /\ c[i].gen # c[j].gen => \E k \in i + 1 .. j : Left(c, k) # {}

\* A device that is not there any more was removed, and never comes back.
AbsentWasRemoved(c) == \A i, j \in 1 .. Len(c) : i <= j =>
    \A x \in c[i].devs \ c[j].devs : \E k \in i + 1 .. j : x \in Left(c, k)
RemovedForGood(c) == \A i, j, k \in 1 .. Len(c) : i <= j /\ j <= k =>
    \A x \in c[i].devs \ c[j].devs : x \notin c[k].devs

\* Two rotations removed two different devices.
RotationsDiffer(c) == \A i, j \in 1 .. Len(c) :
    i <= j /\ c[j].gen > c[i].gen + 1 =>
        \E x, y : /\ x # y
                  /\ \E k \in i + 1 .. j : x \in Left(c, k)
                  /\ \E k \in i + 1 .. j : y \in Left(c, k)

Lineage(c) == /\ c # <<>>
              /\ NeverFalls(c) /\ RemovalRotates(c) /\ RotationRemoves(c)
              /\ AbsentWasRemoved(c) /\ RemovedForGood(c) /\ RotationsDiffer(c)

\* A chain of one certificate.
LEMMA GenesisLineage ==
    ASSUME NEW x \in Certificate
    PROVE  <<x>> \in Chains /\ Lineage(<<x>>)
<1>1. <<x>> \in Chains /\ Len(<<x>>) = 1 /\ <<x>> # <<>>
  BY DEF Chains
<1>2. <<x>>[1].gen \in Nat
  BY DEF Certificate
<1> QED
  BY <1>1, <1>2 DEF Lineage, NeverFalls, RemovalRotates, RotationRemoves,
       AbsentWasRemoved, RemovedForGood, RotationsDiffer

\* A certificate that continues a chain: it adds a device that was never in
\* it, or removes one and starts a new generation.
Enrolls(c, x) ==
    /\ x.gen = c[Len(c)].gen
    /\ \E new : /\ x.devs = c[Len(c)].devs \cup {new}
                /\ \A i \in 1 .. Len(c) : new \notin c[i].devs
Revokes(c, x) ==
    /\ x.gen = c[Len(c)].gen + 1
    /\ \E old \in c[Len(c)].devs : x.devs = c[Len(c)].devs \ {old}

\* A chain is made of certificates.
LEMMA ChainElements ==
    ASSUME NEW c \in Chains
    PROVE  /\ Len(c) \in Nat
           /\ \A i \in 1 .. Len(c) : /\ c[i] \in Certificate
                                     /\ c[i].gen \in Nat
                                     /\ c[i].devs \subseteq Devices
           /\ c # <<>> => Len(c) >= 1
<1>1. Len(c) \in Nat /\ c \in [1 .. Len(c) -> Certificate]
  BY LenProperties DEF Chains
<1>2. \A i \in 1 .. Len(c) : c[i] \in Certificate
  BY <1>1
<1>3. c # <<>> => Len(c) >= 1
  BY <1>1, EmptySeq DEF Chains
<1> QED
  BY <1>1, <1>2, <1>3 DEF Certificate

\* An enrollment carries what is known of a chain over to the longer one: the
\* new device was never there, so nobody returns.
LEMMA EnrollmentKeepsLineage ==
    ASSUME NEW c \in Chains, Lineage(c), NEW x \in Certificate, Enrolls(c, x)
    PROVE  Lineage(Append(c, x))
<1> DEFINE n == Len(c) + 1
<1>1. PICK a \in Chains :
              /\ a = Append(c, x) /\ Len(c) \in Nat /\ Len(a) = n
              /\ \A i \in 1 .. Len(c) : a[i] = c[i]
              /\ a[n] = x /\ a # <<>>
  BY Appended
<1>2. /\ a \in Chains /\ Len(a) = n /\ n \in Nat /\ Len(c) \in Nat
      /\ \A i \in 1 .. Len(c) : a[i] = c[i]
      /\ a[n] = x
  BY <1>1
<1>3. n >= 2 /\ a # <<>> /\ Len(c) >= 1
  BY <1>1, ChainElements DEF Lineage
<1>4. \A i \in 1 .. Len(c) : /\ c[i].gen \in Nat /\ c[i].devs \subseteq Devices
  BY ChainElements
<1>5. PICK new : /\ x.devs = c[n - 1].devs \cup {new}
                 /\ \A i \in 1 .. Len(c) : new \notin c[i].devs
  BY <1>2 DEF Enrolls
<1>6. x.gen = c[n - 1].gen
  BY <1>2 DEF Enrolls
<1>7. /\ \A i \in 2 .. Len(c) : Left(a, i) = Left(c, i)
      /\ Left(a, n) = {}
  BY <1>2, <1>3, <1>5 DEF Left
<1>8. NeverFalls(a)
  BY <1>2, <1>3, <1>4, <1>6 DEF Lineage, NeverFalls
<1>9. RemovalRotates(a)
  BY <1>2, <1>3, <1>4, <1>7 DEF Lineage, RemovalRotates
<1>10. ASSUME NEW i \in 1 .. n, NEW j \in 1 .. n, i <= j
       PROVE  \/ j \in 1 .. Len(c) /\ i \in 1 .. Len(c)
              \/ i = n /\ j = n
              \/ j = n /\ i \in 1 .. Len(c) /\ n - 1 \in 1 .. Len(c) /\ i <= n - 1
  <2>1. i \in Nat /\ j \in Nat /\ 1 <= i /\ i <= n /\ 1 <= j /\ j <= n
    BY <1>2
  <2>2. CASE j = n
    BY <1>2, <1>3, <1>10, <2>1, <2>2
  <2>3. CASE j # n
    BY <1>2, <1>3, <1>10, <2>1, <2>3
  <2> QED
    BY <2>2, <2>3
<1>11. RotationRemoves(a)
  <2> SUFFICES ASSUME NEW i \in 1 .. n, NEW j \in 1 .. n, i <= j,
                      a[i].gen # a[j].gen
               PROVE  \E k \in i + 1 .. j : Left(a, k) # {}
    BY <1>2 DEF RotationRemoves
  <2>1. CASE j \in 1 .. Len(c) /\ i \in 1 .. Len(c)
    <3>1. PICK k \in i + 1 .. j : Left(c, k) # {}
      BY <1>2, <2>1 DEF Lineage, RotationRemoves
    <3> QED
      BY <1>2, <1>7, <2>1, <3>1
  <2>2. CASE j = n /\ i \in 1 .. Len(c) /\ n - 1 \in 1 .. Len(c) /\ i <= n - 1
    <3>1. c[i].gen # c[n - 1].gen
      BY <1>2, <1>6, <2>2
    <3>2. PICK k \in i + 1 .. n - 1 : Left(c, k) # {}
      BY <2>2, <3>1 DEF Lineage, RotationRemoves
    <3> QED
      BY <1>2, <1>7, <2>2, <3>2
  <2> QED
    BY <1>10, <2>1, <2>2
<1>12. AbsentWasRemoved(a)
  <2> SUFFICES ASSUME NEW i \in 1 .. n, NEW j \in 1 .. n, i <= j,
                      NEW y \in a[i].devs \ a[j].devs
               PROVE  \E k \in i + 1 .. j : y \in Left(a, k)
    BY <1>2 DEF AbsentWasRemoved
  <2>1. CASE j \in 1 .. Len(c) /\ i \in 1 .. Len(c)
    <3>1. PICK k \in i + 1 .. j : y \in Left(c, k)
      BY <1>2, <2>1 DEF Lineage, AbsentWasRemoved
    <3> QED
      BY <1>2, <1>7, <2>1, <3>1
  <2>2. CASE j = n /\ i \in 1 .. Len(c) /\ n - 1 \in 1 .. Len(c) /\ i <= n - 1
    <3>1. y \in c[i].devs \ c[n - 1].devs
      BY <1>2, <1>5, <2>2
    <3>2. PICK k \in i + 1 .. n - 1 : y \in Left(c, k)
      BY <2>2, <3>1 DEF Lineage, AbsentWasRemoved
    <3> QED
      BY <1>2, <1>7, <2>2, <3>2
  <2> QED
    BY <1>10, <2>1, <2>2
<1>13. RemovedForGood(a)
  <2> SUFFICES ASSUME NEW i \in 1 .. n, NEW j \in 1 .. n, NEW k \in 1 .. n,
                      i <= j, j <= k, NEW y \in a[i].devs \ a[j].devs
               PROVE  y \notin a[k].devs
    BY <1>2 DEF RemovedForGood
  <2>1. CASE k \in 1 .. Len(c)
    BY <1>2, <2>1 DEF Lineage, RemovedForGood
  <2>2. CASE k = n /\ j = n
    BY <2>2
  <2>3. CASE k = n /\ j # n
    <3>1. j \in 1 .. Len(c) /\ i \in 1 .. Len(c) /\ n - 1 \in 1 .. Len(c)
          /\ j <= n - 1
      BY <1>2, <1>3, <2>3
    <3>2. y \in c[i].devs \ c[j].devs
      BY <1>2, <3>1
    <3>3. y \notin c[n - 1].devs
      BY <3>1, <3>2 DEF Lineage, RemovedForGood
    <3> QED
      BY <1>2, <1>5, <2>3, <3>1, <3>2, <3>3
  <2> QED
    BY <1>2, <2>1, <2>2, <2>3
<1>14. RotationsDiffer(a)
  <2> SUFFICES ASSUME NEW i \in 1 .. n, NEW j \in 1 .. n, i <= j,
                      a[j].gen > a[i].gen + 1
               PROVE  \E y, z : /\ y # z
                                /\ \E k \in i + 1 .. j : y \in Left(a, k)
                                /\ \E k \in i + 1 .. j : z \in Left(a, k)
    BY <1>2 DEF RotationsDiffer
  <2>1. CASE j \in 1 .. Len(c) /\ i \in 1 .. Len(c)
    <3>1. PICK y, z : /\ y # z
                      /\ \E k \in i + 1 .. j : y \in Left(c, k)
                      /\ \E k \in i + 1 .. j : z \in Left(c, k)
      BY <1>2, <2>1 DEF Lineage, RotationsDiffer
    <3> QED
      BY <1>2, <1>7, <2>1, <3>1
  <2>2. CASE j = n /\ i \in 1 .. Len(c) /\ n - 1 \in 1 .. Len(c) /\ i <= n - 1
    <3>1. c[n - 1].gen > c[i].gen + 1
      BY <1>2, <1>6, <2>2
    <3>2. PICK y, z : /\ y # z
                      /\ \E k \in i + 1 .. n - 1 : y \in Left(c, k)
                      /\ \E k \in i + 1 .. n - 1 : z \in Left(c, k)
      BY <2>2, <3>1 DEF Lineage, RotationsDiffer
    <3> QED
      BY <1>2, <1>7, <2>2, <3>2
  <2>3. CASE i = n /\ j = n
    BY <1>2, <1>3, <1>4, <1>6, <2>3
  <2> QED
    BY <1>10, <2>1, <2>2, <2>3
<1> QED
  BY <1>1, <1>3, <1>8, <1>9, <1>11, <1>12, <1>13, <1>14 DEF Lineage

\* A revocation does too: the device it removes is another one than those
\* removed before, since it was still there.
LEMMA RevocationKeepsLineage ==
    ASSUME NEW c \in Chains, Lineage(c), NEW x \in Certificate, Revokes(c, x)
    PROVE  Lineage(Append(c, x))
<1> DEFINE n == Len(c) + 1
<1>1. PICK a \in Chains :
              /\ a = Append(c, x) /\ Len(c) \in Nat /\ Len(a) = n
              /\ \A i \in 1 .. Len(c) : a[i] = c[i]
              /\ a[n] = x /\ a # <<>>
  BY Appended
<1>2. /\ a \in Chains /\ Len(a) = n /\ n \in Nat /\ Len(c) \in Nat
      /\ \A i \in 1 .. Len(c) : a[i] = c[i]
      /\ a[n] = x
  BY <1>1
<1>3. n >= 2 /\ a # <<>> /\ Len(c) >= 1
  BY <1>1, ChainElements DEF Lineage
<1>4. \A i \in 1 .. Len(c) : /\ c[i].gen \in Nat /\ c[i].devs \subseteq Devices
  BY ChainElements
<1>5. PICK old \in c[n - 1].devs : x.devs = c[n - 1].devs \ {old}
  BY <1>2 DEF Revokes
<1>6. x.gen = c[n - 1].gen + 1
  BY <1>2 DEF Revokes
<1>7. /\ \A i \in 2 .. Len(c) : Left(a, i) = Left(c, i)
      /\ Left(a, n) = {old}
  BY <1>2, <1>3, <1>5 DEF Left
<1>8. NeverFalls(a)
  BY <1>2, <1>3, <1>4, <1>6 DEF Lineage, NeverFalls
<1>9. RemovalRotates(a)
  <2> SUFFICES ASSUME NEW i \in 2 .. n, Left(a, i) # {}
               PROVE  One(Left(a, i)) /\ a[i].gen = a[i - 1].gen + 1
    BY <1>2 DEF RemovalRotates
  <2>1. CASE i = n
    <3>1. One(Left(a, i))
      BY <1>7, <2>1 DEF One
    <3> QED
      BY <1>2, <1>3, <1>6, <2>1, <3>1
  <2>2. CASE i # n
    <3>1. i \in 2 .. Len(c) /\ i \in 1 .. Len(c) /\ i - 1 \in 1 .. Len(c)
      BY <1>2, <1>3, <2>2
    <3> QED
      BY <1>2, <1>7, <3>1 DEF Lineage, RemovalRotates
  <2> QED
    BY <2>1, <2>2
<1>10. ASSUME NEW i \in 1 .. n, NEW j \in 1 .. n, i <= j
       PROVE  \/ j \in 1 .. Len(c) /\ i \in 1 .. Len(c)
              \/ i = n /\ j = n
              \/ j = n /\ i \in 1 .. Len(c) /\ n - 1 \in 1 .. Len(c) /\ i <= n - 1
  <2>1. i \in Nat /\ j \in Nat /\ 1 <= i /\ i <= n /\ 1 <= j /\ j <= n
    BY <1>2
  <2>2. CASE j = n
    BY <1>2, <1>3, <1>10, <2>1, <2>2
  <2>3. CASE j # n
    BY <1>2, <1>3, <1>10, <2>1, <2>3
  <2> QED
    BY <2>2, <2>3
<1>11. RotationRemoves(a)
  <2> SUFFICES ASSUME NEW i \in 1 .. n, NEW j \in 1 .. n, i <= j,
                      a[i].gen # a[j].gen
               PROVE  \E k \in i + 1 .. j : Left(a, k) # {}
    BY <1>2 DEF RotationRemoves
  <2>1. CASE j \in 1 .. Len(c) /\ i \in 1 .. Len(c)
    <3>1. PICK k \in i + 1 .. j : Left(c, k) # {}
      BY <1>2, <2>1 DEF Lineage, RotationRemoves
    <3> QED
      BY <1>2, <1>7, <2>1, <3>1
  <2>2. CASE j = n /\ i \in 1 .. Len(c) /\ n - 1 \in 1 .. Len(c) /\ i <= n - 1
    BY <1>2, <1>7, <2>2
  <2> QED
    BY <1>10, <2>1, <2>2
<1>12. AbsentWasRemoved(a)
  <2> SUFFICES ASSUME NEW i \in 1 .. n, NEW j \in 1 .. n, i <= j,
                      NEW y \in a[i].devs \ a[j].devs
               PROVE  \E k \in i + 1 .. j : y \in Left(a, k)
    BY <1>2 DEF AbsentWasRemoved
  <2>1. CASE j \in 1 .. Len(c) /\ i \in 1 .. Len(c)
    <3>1. PICK k \in i + 1 .. j : y \in Left(c, k)
      BY <1>2, <2>1 DEF Lineage, AbsentWasRemoved
    <3> QED
      BY <1>2, <1>7, <2>1, <3>1
  <2>2. CASE j = n /\ i \in 1 .. Len(c) /\ n - 1 \in 1 .. Len(c) /\ i <= n - 1
    <3>1. CASE y = old
      BY <1>2, <1>7, <2>2, <3>1
    <3>2. CASE y # old
      <4>1. y \in c[i].devs \ c[n - 1].devs
        BY <1>2, <1>5, <2>2, <3>2
      <4>2. PICK k \in i + 1 .. n - 1 : y \in Left(c, k)
        BY <2>2, <4>1 DEF Lineage, AbsentWasRemoved
      <4> QED
        BY <1>2, <1>7, <2>2, <4>2
    <3> QED
      BY <3>1, <3>2
  <2> QED
    BY <1>10, <2>1, <2>2
<1>13. RemovedForGood(a)
  <2> SUFFICES ASSUME NEW i \in 1 .. n, NEW j \in 1 .. n, NEW k \in 1 .. n,
                      i <= j, j <= k, NEW y \in a[i].devs \ a[j].devs
               PROVE  y \notin a[k].devs
    BY <1>2 DEF RemovedForGood
  <2>1. CASE k \in 1 .. Len(c)
    BY <1>2, <2>1 DEF Lineage, RemovedForGood
  <2>2. CASE k = n /\ j = n
    BY <2>2
  <2>3. CASE k = n /\ j # n
    <3>1. j \in 1 .. Len(c) /\ i \in 1 .. Len(c) /\ n - 1 \in 1 .. Len(c)
          /\ j <= n - 1
      BY <1>2, <1>3, <2>3
    <3>2. y \in c[i].devs \ c[j].devs
      BY <1>2, <3>1
    <3>3. y \notin c[n - 1].devs
      BY <3>1, <3>2 DEF Lineage, RemovedForGood
    <3> QED
      BY <1>2, <1>5, <2>3, <3>3
  <2> QED
    BY <1>2, <2>1, <2>2, <2>3
<1>14. RotationsDiffer(a)
  <2> SUFFICES ASSUME NEW i \in 1 .. n, NEW j \in 1 .. n, i <= j,
                      a[j].gen > a[i].gen + 1
               PROVE  \E y, z : /\ y # z
                                /\ \E k \in i + 1 .. j : y \in Left(a, k)
                                /\ \E k \in i + 1 .. j : z \in Left(a, k)
    BY <1>2 DEF RotationsDiffer
  <2>1. CASE j \in 1 .. Len(c) /\ i \in 1 .. Len(c)
    <3>1. PICK y, z : /\ y # z
                      /\ \E k \in i + 1 .. j : y \in Left(c, k)
                      /\ \E k \in i + 1 .. j : z \in Left(c, k)
      BY <1>2, <2>1 DEF Lineage, RotationsDiffer
    <3> QED
      BY <1>2, <1>7, <2>1, <3>1
  <2>2. CASE j = n /\ i \in 1 .. Len(c) /\ n - 1 \in 1 .. Len(c) /\ i <= n - 1
    <3>1. c[i].gen # c[n - 1].gen
      BY <1>2, <1>4, <1>6, <2>2
    <3>2. PICK k \in i + 1 .. n - 1 : Left(c, k) # {}
      BY <2>2, <3>1 DEF Lineage, RotationRemoves
    <3>3. PICK y : y \in Left(c, k)
      BY <3>2
    <3>4. k - 1 \in 1 .. Len(c) /\ k \in 1 .. Len(c) /\ k - 1 <= k /\ k <= n - 1
      BY <1>2, <2>2, <3>2
    <3>5. y \notin c[n - 1].devs
      BY <2>2, <3>3, <3>4 DEF Left, Lineage, RemovedForGood
    <3>6. y # old /\ old \in Left(a, n)
      BY <1>5, <1>7, <3>5
    <3>7. y \in Left(a, k) /\ k \in i + 1 .. j /\ n \in i + 1 .. j
      BY <1>2, <1>7, <2>2, <3>2, <3>3
    <3> QED
      BY <3>6, <3>7
  <2>3. CASE i = n /\ j = n
    BY <1>2, <1>3, <1>4, <1>6, <2>3
  <2> QED
    BY <1>10, <2>1, <2>2, <2>3
<1> QED
  BY <1>1, <1>3, <1>8, <1>9, <1>11, <1>12, <1>13, <1>14 DEF Lineage

-----------------------------------------------------------------------------
(* What a device that missed part of a chain can tell from it.             *)

\* The last certificate of a chain, and of one that continues it.
LEMMA LastOfChain ==
    ASSUME NEW s \in Snapshot, s.chain # <<>>
    PROVE  /\ s.chain \in Chains /\ Len(s.chain) \in Nat \ {0}
           /\ LastCertificate(s) \in Certificate
           /\ KeyGeneration(s) \in Nat /\ Trusted(s) \subseteq Devices
<1>1. s.chain \in Chains
  BY DEF Snapshot, Chains
<1>2. Len(s.chain) \in Nat /\ Len(s.chain) >= 1
  BY <1>1, ChainElements
<1>3. s.chain[Len(s.chain)] \in Certificate
  BY <1>1, <1>2, ChainElements
<1> QED
  BY <1>1, <1>2, <1>3 DEF LastCertificate, KeyGeneration, Trusted, Certificate

\* Following a chain never goes back to an earlier key.
LEMMA GenerationsGrow ==
    ASSUME NEW s \in Snapshot, NEW l \in Snapshot, Lineage(s.chain),
           l.chain # <<>>, IsPrefix(l.chain, s.chain)
    PROVE  /\ KeyGeneration(l) <= KeyGeneration(s)
           /\ LastCertificate(l) = s.chain[Len(l.chain)]
           /\ Len(l.chain) \in 1 .. Len(s.chain)
<1>1. /\ s.chain \in Chains /\ Len(s.chain) \in Nat \ {0}
      /\ l.chain \in Chains /\ Len(l.chain) \in Nat \ {0}
  BY LastOfChain DEF Lineage
<1>2. Len(l.chain) \in 1 .. Len(s.chain) /\ LastCertificate(l) = s.chain[Len(l.chain)]
  BY <1>1, PrefixElements DEF LastCertificate
<1>3. Len(s.chain) \in 1 .. Len(s.chain) /\ Len(l.chain) <= Len(s.chain)
  BY <1>1, <1>2
<1> QED
  BY <1>2, <1>3 DEF Lineage, NeverFalls, KeyGeneration, LastCertificate

\* A device that missed enrollments only is trusted as it was, and has the
\* generation of the key it had.
LEMMA EnrollmentsKeepTrust ==
    ASSUME NEW s \in Snapshot, NEW l \in Snapshot, Lineage(s.chain),
           l.chain # <<>>, Descends(s, l),
           \A i \in Suffix(l, s) : Removed(s, i) = {}
    PROVE  /\ KeyGeneration(s) = KeyGeneration(l)
           /\ Trusted(l) \subseteq Trusted(s)
<1> DEFINE m == Len(l.chain)
           n == Len(s.chain)
<1>1. /\ m \in 1 .. n /\ n \in Nat \ {0} /\ m \in Nat /\ n \in 1 .. n /\ m <= n
      /\ LastCertificate(l) = s.chain[m]
  BY GenerationsGrow, LastOfChain DEF Descends, Lineage
<1>2. \A k \in m + 1 .. n : Left(s.chain, k) = {}
  BY DEF Suffix, Removed, Left
<1>3. s.chain[m].gen = s.chain[n].gen
  BY <1>1, <1>2 DEF Lineage, RotationRemoves
<1>4. s.chain[m].devs \subseteq s.chain[n].devs
  BY <1>1, <1>2 DEF Lineage, AbsentWasRemoved
<1> QED
  BY <1>1, <1>3, <1>4 DEF KeyGeneration, Trusted, LastCertificate

\* A device that missed a revocation missed exactly one rotation if and only if
\* exactly one device was removed: two revocations never remove the same one.
LEMMA RotationsMissed ==
    ASSUME NEW s \in Snapshot, NEW l \in Snapshot, Lineage(s.chain),
           l.chain # <<>>, Descends(s, l),
           \E i \in Suffix(l, s) : IsRevocation(s, i)
    PROVE  /\ KeyGeneration(l) < KeyGeneration(s)
           /\ One(RevokedSince(l, s)) <=> KeyGeneration(s) = KeyGeneration(l) + 1
<1> DEFINE c == s.chain
           m == Len(l.chain)
           n == Len(s.chain)
<1>1. /\ m \in 1 .. n /\ n \in Nat \ {0} /\ m \in Nat /\ n \in 1 .. n
      /\ LastCertificate(l) = c[m] /\ c \in Chains
  BY GenerationsGrow, LastOfChain DEF Descends, Lineage
<1>2. /\ KeyGeneration(l) = c[m].gen /\ KeyGeneration(s) = c[n].gen
      /\ \A i \in 1 .. n : c[i].gen \in Nat /\ c[i].devs \subseteq Devices
  BY <1>1, ChainElements DEF KeyGeneration, LastCertificate
<1>3. \A i : Removed(s, i) = Left(c, i)
  BY DEF Removed, Left
<1>4. \A i \in m + 1 .. n : i \in 2 .. n /\ i - 1 \in 1 .. n /\ m <= i - 1 /\ i <= n
  BY <1>1
<1>5. RevokedSince(l, s) = UNION {Left(c, i) : i \in m + 1 .. n}
  BY <1>3 DEF RevokedSince, Suffix
<1>6. ASSUME NEW i \in m + 1 .. n, Left(c, i) # {}
      PROVE  /\ One(Left(c, i)) /\ c[i].gen = c[i - 1].gen + 1
             /\ c[i].gen \in Nat /\ c[i - 1].gen \in Nat
             /\ c[m].gen <= c[i - 1].gen /\ c[i].gen <= c[n].gen
  BY <1>1, <1>2, <1>4, <1>6 DEF Lineage, NeverFalls, RemovalRotates
<1>7. PICK i \in m + 1 .. n : Left(c, i) # {}
  BY <1>3 DEF Suffix, IsRevocation
<1>8. c[m].gen < c[n].gen /\ c[m].gen \in Nat /\ c[n].gen \in Nat
  <2>1. c[m].gen \in Nat /\ c[n].gen \in Nat
    BY <1>1, <1>2
  <2>2. /\ c[i].gen = c[i - 1].gen + 1
        /\ c[i].gen \in Nat /\ c[i - 1].gen \in Nat
        /\ c[m].gen <= c[i - 1].gen /\ c[i].gen <= c[n].gen
    BY <1>6, <1>7
  <2> QED
    BY <2>1, <2>2
<1>9. ASSUME One(RevokedSince(l, s)), c[n].gen # c[m].gen + 1
      PROVE  FALSE
  <2>1. c[n].gen > c[m].gen + 1
    BY <1>8, <1>9
  <2>2. PICK x, y : /\ x # y
                    /\ \E k \in m + 1 .. n : x \in Left(c, k)
                    /\ \E k \in m + 1 .. n : y \in Left(c, k)
    BY <1>1, <2>1 DEF Lineage, RotationsDiffer
  <2>3. x \in RevokedSince(l, s) /\ y \in RevokedSince(l, s)
    BY <1>5, <2>2
  <2> QED
    BY <1>9, <2>2, <2>3 DEF One
<1>10. ASSUME c[n].gen = c[m].gen + 1
       PROVE  One(RevokedSince(l, s))
  <2>2. ASSUME NEW k \in m + 1 .. n, Left(c, k) # {}
        PROVE  k = i
    <3>1. ASSUME NEW p \in m + 1 .. n, NEW q \in m + 1 .. n, p < q,
                 Left(c, p) # {}, Left(c, q) # {}
          PROVE  FALSE
      <4>1. c[p].gen = c[p - 1].gen + 1 /\ c[m].gen <= c[p - 1].gen
        BY <1>6, <3>1
      <4>2. c[q].gen = c[q - 1].gen + 1 /\ c[q].gen <= c[n].gen
        BY <1>6, <3>1
      <4>3. p \in 1 .. n /\ q - 1 \in 1 .. n /\ p <= q - 1 /\ p - 1 \in 1 .. n
            /\ q \in 1 .. n
        BY <1>1, <1>4, <3>1
      <4>4. c[p].gen <= c[q - 1].gen
        BY <1>1, <4>3 DEF Lineage, NeverFalls
      <4>5. /\ c[p].gen \in Nat /\ c[p - 1].gen \in Nat /\ c[q].gen \in Nat
            /\ c[q - 1].gen \in Nat /\ c[m].gen \in Nat /\ c[n].gen \in Nat
        BY <1>1, <1>2, <4>3
      <4>6. \A u, v, w, x, y, z \in Nat :
               u = v + 1 /\ w <= v /\ x = y + 1 /\ x <= z /\ u <= y => z # w + 1
        OBVIOUS
      <4> QED
        BY <1>10, <4>1, <4>2, <4>4, <4>5, <4>6
    <3>2. ~(k < i) /\ ~(i < k)
      BY <1>7, <2>2, <3>1
    <3> QED
      BY <1>1, <3>2
  <2>3. RevokedSince(l, s) = Left(c, i)
    BY <1>5, <1>7, <2>2
  <2>4. One(Left(c, i))
    BY <1>6, <1>7
  <2> QED
    BY <2>3, <2>4
<1> QED
  BY <1>2, <1>8, <1>9, <1>10

\* A snapshot whose chain has one more certificate.
LEMMA OneMoreCertificate ==
    ASSUME NEW s \in Snapshot, NEW t \in Snapshot, t.chain # <<>>,
           NEW x \in Certificate, s.chain = Append(t.chain, x)
    PROVE  /\ LastCertificate(s) = x
           /\ Trusted(s) = x.devs /\ KeyGeneration(s) = x.gen
           /\ EverTrusted(s) = EverTrusted(t) \cup x.devs
           /\ Len(s.chain) = Len(t.chain) + 1 /\ s.chain # t.chain
           /\ IsPrefix(t.chain, s.chain)
           /\ Trusted(t) \subseteq EverTrusted(t)
           /\ \A i \in 1 .. Len(t.chain) : t.chain[i].devs \subseteq EverTrusted(t)
<1>1. t.chain \in Chains /\ Len(t.chain) \in Nat \ {0} /\ s.chain \in Chains
  BY LastOfChain DEF Snapshot, Chains
<1>2. PICK a \in Chains :
              /\ a = Append(t.chain, x) /\ Len(a) = Len(t.chain) + 1
              /\ \A i \in 1 .. Len(t.chain) : a[i] = t.chain[i]
              /\ a[Len(t.chain) + 1] = x
              /\ a # <<>> /\ IsPrefix(t.chain, a)
  BY <1>1, Appended
<1>3. a = s.chain
  BY <1>2
<1>4. /\ DOMAIN s.chain = 1 .. Len(t.chain) + 1
      /\ DOMAIN t.chain = 1 .. Len(t.chain)
  BY <1>1, <1>2, <1>3, LenProperties DEF Chains
<1>5. EverTrusted(s) = EverTrusted(t) \cup x.devs
  <2>1. \A i \in DOMAIN t.chain : i \in DOMAIN s.chain /\ s.chain[i] = t.chain[i]
    BY <1>1, <1>2, <1>3, <1>4
  <2>2. /\ Len(t.chain) + 1 \in DOMAIN s.chain
        /\ s.chain[Len(t.chain) + 1] = x
        /\ \A i \in DOMAIN s.chain : i \in DOMAIN t.chain \/ i = Len(t.chain) + 1
    BY <1>1, <1>2, <1>3, <1>4
  <2> QED
    BY <2>1, <2>2 DEF EverTrusted
<1>6. LastCertificate(s) = x
  BY <1>1, <1>2, <1>3 DEF LastCertificate
<1>7. \A i \in 1 .. Len(t.chain) : t.chain[i].devs \subseteq EverTrusted(t)
  BY <1>4 DEF EverTrusted
<1>8. Trusted(t) \subseteq EverTrusted(t)
  BY <1>1, <1>7 DEF Trusted, LastCertificate
<1>9. Len(s.chain) # Len(t.chain)
  BY <1>1, <1>2, <1>3
<1> QED
  BY <1>2, <1>3, <1>5, <1>6, <1>7, <1>8, <1>9 DEF Trusted, KeyGeneration

-----------------------------------------------------------------------------
(* The kinds of values.                                                    *)

\* Counting on and merging give vectors.
LEMMA VectorKinds ==
    ASSUME NEW v \in Vector, NEW w \in Vector, NEW d \in Devices
    PROVE  /\ IncrementVersionVector(v, d) \in Vector
           /\ MergeVersionVectors(v, w) \in Vector
           /\ Zero \in Vector
<1>1. /\ \A x \in Devices : Component(v, x) \in Nat /\ Component(w, x) \in Nat
      /\ DOMAIN v = Devices /\ DOMAIN w = Devices
  BY DEF Vector, Component
<1>2. \A x \in Devices : Larger(Component(v, x), Component(w, x)) \in Nat
  BY <1>1 DEF Larger
<1>3. IncrementVersionVector(v, d) \in Vector
  BY <1>1 DEF IncrementVersionVector, Vector
<1>4. MergeVersionVectors(v, w) \in Vector
  BY <1>1, <1>2 DEF MergeVersionVectors, Vector
<1>5. Zero \in Vector
  BY DEF Zero, Vector
<1> QED
  BY <1>3, <1>4, <1>5

LEMMA ZeroKind == Zero \in Vector
BY DEF Zero, Vector

Profiles == [Devices -> Profile]

\* The changes of profiles give profiles.
LEMMA AddProfileKind ==
    ASSUME NEW p \in Profiles, NEW d \in Devices
    PROVE  AddProfile(p, d) \in Profiles
<1>1. IncrementVersionVector(Zero, d) \in Vector
  BY VectorKinds, ZeroKind
<1> QED
  BY <1>1 DEF AddProfile, Profiles, Profile

LEMMA RevokeProfileKind ==
    ASSUME NEW p \in Profiles, NEW by \in Devices, NEW d \in Devices
    PROVE  RevokeProfile(p, by, d) \in Profiles
<1>1. IncrementVersionVector(p[d].vv, by) \in Vector
  BY VectorKinds DEF Profiles, Profile
<1> QED
  BY <1>1 DEF RevokeProfile, Tombstone, Profiles, Profile

LEMMA BaselineKind ==
    ASSUME NEW l \in Snapshot, NEW s \in Snapshot
    PROVE  Baseline(l, s) \in Profiles
BY DEF Baseline, Profiles, Snapshot

LEMMA StampedProfilesKind ==
    ASSUME NEW p \in Profiles, NEW s \in Snapshot, NEW by \in Devices
    PROVE  StampedProfiles(p, s, by) \in Profiles
<1>1. ASSUME NEW d \in Devices
      PROVE  IncrementVersionVector(
                MergeVersionVectors(p[d].vv, s.profiles[d].vv), by) \in Vector
  <2>1. p[d].vv \in Vector /\ s.profiles[d].vv \in Vector
    BY DEF Profiles, Profile, Snapshot
  <2> QED
    BY <2>1, VectorKinds
<1>2. \A d \in Devices : p[d] \in Profile /\ s.profiles[d] \in Profile
  BY DEF Profiles, Snapshot
<1>3. ASSUME NEW d \in Devices
      PROVE  [s.profiles[d] EXCEPT !.vv =
                IncrementVersionVector(MergeVersionVectors(p[d].vv, @), by)]
                \in Profile
  BY <1>1, <1>2 DEF Profile
<1> QED
  BY <1>2, <1>3 DEF StampedProfiles, Profiles

\* What Resolved makes of a snapshot, and what it keeps of it.
LEMMA ResolvedKind ==
    ASSUME NEW l \in Snapshot, NEW s \in Snapshot, NEW d \in Devices
    PROVE  /\ Resolved(d, l, s) \in Snapshot
           /\ Resolved(d, l, s).by = d
           /\ Resolved(d, l, s).chain = s.chain
           /\ Resolved(d, l, s).key = s.key /\ Resolved(d, l, s).cred = s.cred
           /\ Resolved(d, l, s).marker = s.marker
<1> DEFINE v == IncrementVersionVector(MergeVersionVectors(l.vv, s.vv), d)
           p == StampedProfiles(Baseline(l, s), s, d)
           c == IF l.content = s.content THEN s.content ELSE
                  IncrementVersionVector(MergeVersionVectors(l.content, s.content), d)
<1>1. v \in Vector
  <2>1. l.vv \in Vector /\ s.vv \in Vector
    BY DEF Snapshot
  <2> QED
    BY <2>1, VectorKinds
<1>2. c \in Vector
  <2>1. l.content \in Vector /\ s.content \in Vector
    BY DEF Snapshot
  <2> QED
    BY <2>1, VectorKinds
<1>3. p \in Profiles
  BY BaselineKind, StampedProfilesKind
<1>4. Resolved(d, l, s) =
        [s EXCEPT !.vv = v, !.by = d, !.profiles = p, !.content = c]
  BY DEF Resolved, Snapshot
<1> HIDE DEF v, p, c
<1> QED
  BY <1>1, <1>2, <1>3, <1>4 DEF Snapshot, Profiles

\* What Successor makes of a snapshot, and what it keeps of it.
LEMMA SuccessorKind ==
    ASSUME NEW s \in Snapshot, NEW d \in Devices
    PROVE  /\ Successor(d, s) \in Snapshot
           /\ Successor(d, s).by = d
           /\ Successor(d, s).chain = s.chain
           /\ Successor(d, s).key = s.key /\ Successor(d, s).cred = s.cred
           /\ Successor(d, s).marker = s.marker
           /\ Successor(d, s).slots = s.slots
           /\ Successor(d, s).profiles = s.profiles
           /\ Successor(d, s).content = s.content
<1>1. IncrementVersionVector(s.vv, d) \in Vector
  BY VectorKinds DEF Snapshot
<1> QED
  BY <1>1 DEF Successor, Snapshot


-----------------------------------------------------------------------------
(* What a snapshot says by itself, what a device makes of the one it       *)
(* replaces, and what a later one has kept of an earlier one.              *)

\* Profiles speak of the chain, a marker of its last certificate, and devices
\* that have no profile yet have no vector for it either.
WellFormed(s) ==
    /\ ValidSnapshot(s) /\ ProfilesMatchTrust(s) /\ MarkerOfLastRevocation(s)
    /\ \A x \in Devices :
          s.profiles[x].st = "missing" => s.profiles[x] = Missing

NotAbove(v, w) == \A x \in Devices : v[x] <= w[x]
Above(v, w) == NotAbove(w, v) /\ \E x \in Devices : v[x] > w[x]

\* A profile is there to stay, and every change of it is counted.
Grew(p, q) == \/ q = p
              \/ p.st = "missing"
              \/ q.st # "missing" /\ Above(q.vv, p.vv)
ProfilesGrew(e, s) == \A x \in Devices : Grew(e.profiles[x], s.profiles[x])

\* The chain of the snapshot stays, or gets one certificate: of a device that
\* joins, when no marker is left, or of one that is removed, which buries the
\* profile.
SameTrust(e, s) == /\ s.chain = e.chain /\ s.key = e.key
                   /\ s.marker \in {e.marker, None}
Joins(e, s, c) == /\ s.chain = Append(e.chain, c) /\ Enrolls(e.chain, c)
                  /\ s.key = e.key /\ s.marker = None /\ e.marker = None
Buries(e, s, c) ==
    /\ s.chain = Append(e.chain, c) /\ Revokes(e.chain, c)
    /\ \A x \in Trusted(e) \ Trusted(s) : e.profiles[x].st = "active" =>
           s.profiles[x] = Tombstone(e.profiles[x], c.by)

Child(d, e, s) ==
    /\ WellFormed(s)
    /\ s.vv = IncrementVersionVector(e.vv, d)
    /\ ProfilesGrew(e, s)
    /\ \/ SameTrust(e, s)
       \/ \E c \in Certificate : c.by = d /\ (Joins(e, s, c) \/ Buries(e, s, c))

\* Snapshot s was made from l, by any devices in any number of steps.
SameKeyAndMarker(l, s) == KeyGeneration(s) = KeyGeneration(l) =>
    s.key = l.key /\ s.marker \in {l.marker, None}
Arrived(l, s) == Trusted(s) \ Trusted(l) \subseteq Enrolled(l, s)
Buried(l, s) == \A i \in Suffix(l, s) : \A x \in Removed(s, i) :
    l.profiles[x].st = "active" =>
        /\ s.profiles[x].st = "deleted"
        /\ NotAbove(Tombstone(l.profiles[x], s.chain[i].by).vv, s.profiles[x].vv)
Leads(l, s) ==
    /\ NotAbove(l.vv, s.vv) /\ Descends(s, l)
    /\ SameKeyAndMarker(l, s) /\ ProfilesGrew(l, s)
    /\ Arrived(l, s) /\ Buried(l, s)


-----------------------------------------------------------------------------
(* Vectors and profiles that only grow.                                    *)

LEMMA Counted ==
    ASSUME NEW v \in Vector, NEW d \in Devices
    PROVE  /\ IncrementVersionVector(v, d) \in Vector
           /\ \A x \in Devices : v[x] \in Nat
           /\ IncrementVersionVector(v, d)[d] = v[d] + 1
           /\ \A x \in Devices \ {d} : IncrementVersionVector(v, d)[x] = v[x]
           /\ Above(IncrementVersionVector(v, d), v)
<1>1. DOMAIN v = Devices /\ \A x \in Devices : v[x] \in Nat
  BY DEF Vector
<1>2. IncrementVersionVector(v, d) =
        [x \in Devices |-> IF x = d THEN v[d] + 1 ELSE v[x]]
  BY <1>1 DEF IncrementVersionVector, Component
<1>3. /\ IncrementVersionVector(v, d)[d] = v[d] + 1
      /\ \A x \in Devices \ {d} : IncrementVersionVector(v, d)[x] = v[x]
  BY <1>2
<1>4. /\ \A x \in Devices : v[x] <= IncrementVersionVector(v, d)[x]
      /\ IncrementVersionVector(v, d)[d] > v[d]
  <2>1. ASSUME NEW x \in Devices
        PROVE  v[x] <= IncrementVersionVector(v, d)[x]
    <3>1. CASE x = d
      BY <1>1, <1>3, <3>1
    <3>2. CASE x # d
      <4>1. IncrementVersionVector(v, d)[x] = v[x] /\ v[x] \in Nat
        BY <1>1, <1>3, <3>2
      <4> QED
        BY <4>1
    <3> QED
      BY <3>1, <3>2
  <2> QED
    BY <1>1, <1>3, <2>1
<1>5. IncrementVersionVector(v, d) \in Vector
  BY VectorKinds
<1> QED
  BY <1>1, <1>3, <1>4, <1>5 DEF Above, NotAbove

\* Merging gives at least both, and what dominates is the merge itself.
LEMMA Merged ==
    ASSUME NEW v \in Vector, NEW w \in Vector
    PROVE  /\ NotAbove(v, MergeVersionVectors(v, w))
           /\ NotAbove(w, MergeVersionVectors(v, w))
           /\ NotAbove(v, w) => MergeVersionVectors(v, w) = w
<1>1. /\ DOMAIN v = Devices /\ DOMAIN w = Devices
      /\ \A x \in Devices : v[x] \in Nat /\ w[x] \in Nat
  BY DEF Vector
<1>2. MergeVersionVectors(v, w) =
        [x \in Devices |-> IF v[x] >= w[x] THEN v[x] ELSE w[x]]
  BY <1>1 DEF MergeVersionVectors, Component, Larger
<1>3. ASSUME NotAbove(v, w)
      PROVE  MergeVersionVectors(v, w) = w
  <2>1. ASSUME NEW x \in Devices
        PROVE  (IF v[x] >= w[x] THEN v[x] ELSE w[x]) = w[x]
    <3>1. v[x] <= w[x] /\ v[x] \in Nat /\ w[x] \in Nat
      BY <1>1, <1>3 DEF NotAbove
    <3> QED
      BY <3>1
  <2>2. w = [x \in Devices |-> w[x]]
    BY DEF Vector
  <2> QED
    BY <1>2, <2>1, <2>2
<1>4. ASSUME NEW x \in Devices
      PROVE  /\ v[x] <= MergeVersionVectors(v, w)[x]
             /\ w[x] <= MergeVersionVectors(v, w)[x]
  <2>1. MergeVersionVectors(v, w)[x] = IF v[x] >= w[x] THEN v[x] ELSE w[x]
    BY <1>2
  <2>2. v[x] \in Nat /\ w[x] \in Nat
    BY <1>1
  <2> QED
    BY <2>1, <2>2
<1> QED
  BY <1>3, <1>4 DEF NotAbove

\* A vector is behind another exactly when the other is above it.
LEMMA BehindIsBelow ==
    ASSUME NEW v \in Vector, NEW w \in Vector
    PROVE  CompareVersionVectors(v, w) = "remote_ahead" <=> Above(w, v)
<1>1. /\ DOMAIN v = Devices /\ DOMAIN w = Devices
      /\ \A x \in Devices : v[x] \in Nat /\ w[x] \in Nat
  BY DEF Vector
<1>2. \A x \in Devices : ~(v[x] > w[x]) <=> v[x] <= w[x]
  <2>1. \A m, n \in Nat : ~(m > n) <=> m <= n
    OBVIOUS
  <2> QED
    BY <1>1, <2>1
<1>3. /\ \A x \in Devices : Component(v, x) = v[x] /\ Component(w, x) = w[x]
      /\ DOMAIN v \cup DOMAIN w = Devices
  BY <1>1 DEF Component
<1>4. CompareVersionVectors(v, w) = "remote_ahead" <=>
        /\ ~ \E x \in Devices : v[x] > w[x]
        /\ \E x \in Devices : w[x] > v[x]
  BY <1>3 DEF CompareVersionVectors
<1> QED
  BY <1>2, <1>4 DEF Above, NotAbove

LEMMA NotAboveReflexive ==
    ASSUME NEW v \in Vector
    PROVE  NotAbove(v, v)
<1>1. \A x \in Devices : v[x] \in Nat
  BY DEF Vector
<1>2. \A n \in Nat : n <= n
  OBVIOUS
<1> QED
  BY <1>1, <1>2 DEF NotAbove

LEMMA NotAboveTransitive ==
    ASSUME NEW u \in Vector, NEW v \in Vector, NEW w \in Vector,
           NotAbove(u, v), NotAbove(v, w)
    PROVE  NotAbove(u, w)
<1>1. \A x \in Devices : u[x] \in Nat /\ v[x] \in Nat /\ w[x] \in Nat
  BY DEF Vector
<1>2. \A m, n, o \in Nat : m <= n /\ n <= o => m <= o
  OBVIOUS
<1> QED
  BY <1>1, <1>2 DEF NotAbove

LEMMA AboveTransitive ==
    ASSUME NEW u \in Vector, NEW v \in Vector, NEW w \in Vector,
           NotAbove(u, v), NotAbove(v, w), Above(v, u) \/ Above(w, v)
    PROVE  Above(w, u)
<1>1. \A x \in Devices : u[x] \in Nat /\ v[x] \in Nat /\ w[x] \in Nat
  BY DEF Vector
<1>2. \A m, n, o \in Nat : m <= n /\ n <= o /\ (n > m \/ o > n) => o > m
  OBVIOUS
<1>3. \E x \in Devices : w[x] > u[x]
  BY <1>1, <1>2 DEF NotAbove, Above
<1> QED
  BY <1>3, NotAboveTransitive DEF Above

\* What is not above and not the same is below.
LEMMA DifferentIsAbove ==
    ASSUME NEW v \in Vector, NEW w \in Vector, NotAbove(v, w), v # w
    PROVE  Above(w, v)
<1>1. /\ v \in [Devices -> Nat] /\ w \in [Devices -> Nat]
  BY DEF Vector
<1>2. PICK x \in Devices : v[x] # w[x]
  BY <1>1
<1>3. v[x] \in Nat /\ w[x] \in Nat /\ v[x] <= w[x]
  BY <1>1 DEF NotAbove
<1>4. w[x] > v[x]
  BY <1>2, <1>3
<1> QED
  BY <1>4 DEF Above

\* Profiles that grew and grew again have grown.
LEMMA GrewTransitive ==
    ASSUME NEW p \in Profile, NEW q \in Profile, NEW r \in Profile,
           Grew(p, q), Grew(q, r)
    PROVE  Grew(p, r)
<1>1. p.vv \in Vector /\ q.vv \in Vector /\ r.vv \in Vector
  BY DEF Profile
<1>2. CASE q.st # "missing" /\ Above(q.vv, p.vv) /\ r.st # "missing" /\ Above(r.vv, q.vv)
  BY <1>1, <1>2, AboveTransitive DEF Grew, Above
<1> QED
  BY <1>2 DEF Grew

\* A profile that is there has not become less.
LEMMA GrewKeeps ==
    ASSUME NEW p \in Profile, NEW q \in Profile, Grew(p, q), p.st # "missing"
    PROVE  q.st # "missing" /\ NotAbove(p.vv, q.vv)
<1>1. p.vv \in Vector
  BY DEF Profile
<1> QED
  BY <1>1, NotAboveReflexive DEF Grew, Above

\* The tombstone of a profile is above it, and of a later one above that of an
\* earlier one.
LEMMA TombstoneFacts ==
    ASSUME NEW p \in Profile, NEW by \in Devices
    PROVE  /\ Tombstone(p, by) \in Profile /\ Tombstone(p, by).st = "deleted"
           /\ Tombstone(p, by).vv = IncrementVersionVector(p.vv, by)
           /\ Tombstone(p, by).vv \in Vector
           /\ Above(Tombstone(p, by).vv, p.vv)
<1>1. p.vv \in Vector
  BY DEF Profile
<1>2. /\ IncrementVersionVector(p.vv, by) \in Vector
      /\ Above(IncrementVersionVector(p.vv, by), p.vv)
  BY <1>1, Counted
<1> QED
  BY <1>2 DEF Tombstone, Profile

LEMMA TombstonesGrow ==
    ASSUME NEW p \in Profile, NEW q \in Profile, NEW by \in Devices,
           NotAbove(p.vv, q.vv)
    PROVE  NotAbove(Tombstone(p, by).vv, Tombstone(q, by).vv)
<1>1. p.vv \in Vector /\ q.vv \in Vector
  BY DEF Profile
<1>2. /\ Tombstone(p, by).vv = IncrementVersionVector(p.vv, by)
      /\ Tombstone(q, by).vv = IncrementVersionVector(q.vv, by)
  BY TombstoneFacts
<1>3. ASSUME NEW x \in Devices
      PROVE  IncrementVersionVector(p.vv, by)[x] <= IncrementVersionVector(q.vv, by)[x]
  <2>1. p.vv[x] \in Nat /\ q.vv[x] \in Nat /\ p.vv[x] <= q.vv[x]
    BY <1>1 DEF NotAbove, Vector
  <2>2. CASE x = by
    <3>1. /\ IncrementVersionVector(p.vv, by)[x] = p.vv[x] + 1
          /\ IncrementVersionVector(q.vv, by)[x] = q.vv[x] + 1
      BY <1>1, <2>2, Counted
    <3> QED
      BY <2>1, <3>1
  <2>3. CASE x # by
    <3>1. /\ IncrementVersionVector(p.vv, by)[x] = p.vv[x]
          /\ IncrementVersionVector(q.vv, by)[x] = q.vv[x]
      BY <1>1, <2>3, Counted
    <3> QED
      BY <2>1, <3>1
  <2> QED
    BY <2>2, <2>3
<1> QED
  BY <1>2, <1>3 DEF NotAbove


-----------------------------------------------------------------------------
(* A snapshot leads to all that is made from it.                           *)

\* A device that was removed is not trusted any more, and one that was added
\* had never been trusted before.
LEMMA NeverReturns ==
    ASSUME NEW s \in Snapshot, Lineage(s.chain)
    PROVE  \A i \in 2 .. Len(s.chain) :
              /\ s.chain[i].devs \subseteq Devices
              /\ s.chain[i - 1].devs \subseteq Devices
              /\ \A x \in Removed(s, i) : x \notin Trusted(s)
              /\ \A x \in Added(s, i), j \in 1 .. i - 1 : x \notin s.chain[j].devs
<1> DEFINE c == s.chain
           n == Len(c)
<1>1. c \in Chains /\ n \in Nat \ {0} /\ n \in 1 .. n
  BY LastOfChain DEF Lineage
<1> SUFFICES ASSUME NEW i \in 2 .. n
             PROVE  /\ c[i].devs \subseteq Devices /\ c[i - 1].devs \subseteq Devices
                    /\ \A x \in Removed(s, i) : x \notin Trusted(s)
                    /\ \A x \in Added(s, i), j \in 1 .. i - 1 : x \notin c[j].devs
  OBVIOUS
<1>2. i \in 1 .. n /\ i - 1 \in 1 .. n /\ i - 1 <= i /\ i <= n
  BY <1>1
<1>3. \A x \in Removed(s, i) : x \notin Trusted(s)
  BY <1>1, <1>2 DEF Lineage, RemovedForGood, Removed, Trusted, LastCertificate
<1>4. ASSUME NEW x \in Added(s, i), NEW j \in 1 .. i - 1, x \in c[j].devs
      PROVE  FALSE
  <2>1. j \in 1 .. n /\ j <= i - 1
    BY <1>1, <1>2
  <2> QED
    BY <1>2, <1>4, <2>1 DEF Lineage, RemovedForGood, Added
<1> QED
  BY <1>1, <1>2, <1>3, <1>4, ChainElements

\* What was missed of a chain with one more certificate.
MissesOneMore(l, e, s, c) ==
    /\ Suffix(l, s) = Suffix(l, e) \cup {Len(s.chain)}
    /\ \A i \in Suffix(l, e) : /\ Removed(s, i) = Removed(e, i)
                               /\ Added(s, i) = Added(e, i)
                               /\ s.chain[i] = e.chain[i]
    /\ Removed(s, Len(s.chain)) = Trusted(e) \ Trusted(s)
    /\ Added(s, Len(s.chain)) = Trusted(s) \ Trusted(e)
    /\ s.chain[Len(s.chain)] = c

LEMMA MissedOneMore ==
    ASSUME NEW l \in Snapshot, NEW e \in Snapshot, NEW s \in Snapshot,
           l.chain # <<>>, e.chain # <<>>, IsPrefix(l.chain, e.chain),
           NEW c \in Certificate, s.chain = Append(e.chain, c)
    PROVE  MissesOneMore(l, e, s, c)
<1>1. /\ e.chain \in Chains /\ Len(e.chain) \in Nat \ {0}
      /\ l.chain \in Chains /\ Len(l.chain) \in Nat \ {0}
  BY LastOfChain
<1>2. PICK a \in Chains :
              /\ a = Append(e.chain, c) /\ Len(a) = Len(e.chain) + 1
              /\ \A i \in 1 .. Len(e.chain) : a[i] = e.chain[i]
              /\ a[Len(e.chain) + 1] = c
  BY <1>1, Appended
<1>3. a = s.chain /\ Len(l.chain) <= Len(e.chain)
  BY <1>1, <1>2, PrefixElements
<1>4. \A i \in Suffix(l, e) : i \in 1 .. Len(e.chain) /\ i - 1 \in 1 .. Len(e.chain)
  BY <1>1 DEF Suffix
<1>5. \A i \in Suffix(l, e) : s.chain[i] = e.chain[i] /\ s.chain[i - 1] = e.chain[i - 1]
  BY <1>2, <1>3, <1>4
<1>6. Suffix(l, s) = Suffix(l, e) \cup {Len(s.chain)}
  BY <1>1, <1>2, <1>3 DEF Suffix
<1>7. /\ s.chain[Len(s.chain)] = c
      /\ s.chain[Len(s.chain) - 1] = e.chain[Len(e.chain)]
  <2>1. /\ Len(s.chain) - 1 = Len(e.chain) /\ Len(e.chain) \in 1 .. Len(e.chain)
    BY <1>1, <1>2, <1>3
  <2> QED
    BY <1>2, <1>3, <2>1
<1> QED
  BY <1>5, <1>6, <1>7 DEF MissesOneMore, Removed, Added, Trusted, LastCertificate

\* Every snapshot leads to itself.
LEMMA LeadsReflexive ==
    ASSUME NEW s \in Snapshot, s.chain # <<>>
    PROVE  Leads(s, s)
<1>1. s.chain \in Chains /\ Len(s.chain) \in Nat
  BY LastOfChain
<1>2. Suffix(s, s) = {}
  BY <1>1 DEF Suffix
<1>3. s.vv \in Vector
  BY DEF Snapshot
<1> QED
  BY <1>1, <1>2, <1>3, NotAboveReflexive, PrefixReflexive
     DEF Leads, Descends, SameKeyAndMarker, ProfilesGrew, Grew, Arrived, Buried

\* The state of a profile is one of three, and it fits the chain.
LEMMA ProfileStates ==
    ASSUME NEW s \in Snapshot, NEW x \in Devices
    PROVE  /\ s.profiles[x] \in Profile /\ s.profiles[x].vv \in Vector
           /\ s.profiles[x].st \in {"missing", "active", "deleted"}
           /\ ProfilesMatchTrust(s) => 
                 /\ x \notin Trusted(s) => s.profiles[x].st # "active"
                 /\ x \in Trusted(s) => s.profiles[x].st # "deleted"
<1>1. s.profiles[x] \in Profile
  BY DEF Snapshot
<1> QED
  BY <1>1 DEF Profile, ProfilesMatchTrust, Revoked

\* What leads to a snapshot leads to all its children.
LEMMA LeadsOn ==
    ASSUME NEW l \in Snapshot, NEW e \in Snapshot, NEW s \in Snapshot,
           NEW d \in Devices, l.chain # <<>>,
           Lineage(e.chain), Lineage(s.chain), WellFormed(e),
           Leads(l, e), Child(d, e, s)
    PROVE  Leads(l, s)
<1>1. /\ e.chain \in Chains /\ e.chain # <<>> /\ Len(e.chain) \in Nat \ {0}
      /\ s.chain \in Chains /\ s.chain # <<>> /\ Len(s.chain) \in Nat \ {0}
      /\ l.chain \in Chains /\ Len(l.chain) \in Nat \ {0}
      /\ IsPrefix(l.chain, e.chain)
  BY LastOfChain DEF Lineage, Leads, Descends
<1>2. NotAbove(l.vv, s.vv)
  <2>1. l.vv \in Vector /\ e.vv \in Vector /\ s.vv \in Vector
    BY DEF Snapshot
  <2>2. NotAbove(e.vv, s.vv)
    BY <2>1, Counted DEF Child, Above
  <2> QED
    BY <2>1, <2>2, NotAboveTransitive DEF Leads
<1>3. ProfilesGrew(l, s)
  BY ProfileStates, GrewTransitive DEF Leads, Child, ProfilesGrew
<1>4. ASSUME NEW i \in Suffix(l, e), i \in Suffix(l, s),
             Removed(s, i) = Removed(e, i), s.chain[i] = e.chain[i],
             NEW x \in Removed(s, i), l.profiles[x].st = "active"
      PROVE  /\ s.profiles[x].st = "deleted"
             /\ NotAbove(Tombstone(l.profiles[x], s.chain[i].by).vv, s.profiles[x].vv)
  <2>1. i \in 2 .. Len(s.chain)
    BY <1>1, <1>4 DEF Suffix
  <2>2. /\ x \in Devices /\ x \notin Trusted(s) /\ s.chain[i].by \in Devices
    BY <2>1, NeverReturns DEF Removed, Child, WellFormed, ValidSnapshot, ValidChain
  <2>3. /\ e.profiles[x].st = "deleted"
        /\ NotAbove(Tombstone(l.profiles[x], s.chain[i].by).vv, e.profiles[x].vv)
    BY <1>4 DEF Leads, Buried
  <2>4. s.profiles[x].st # "missing" /\ NotAbove(e.profiles[x].vv, s.profiles[x].vv)
    BY <2>2, <2>3, ProfileStates, GrewKeeps DEF Child, ProfilesGrew
  <2>5. s.profiles[x].st = "deleted"
    BY <2>2, <2>4, ProfileStates DEF Child, WellFormed
  <2>6. Tombstone(l.profiles[x], s.chain[i].by).vv \in Vector
    BY <2>2, ProfileStates, TombstoneFacts
  <2> QED
    BY <2>2, <2>3, <2>4, <2>5, <2>6, ProfileStates, NotAboveTransitive
<1>5. CASE SameTrust(e, s)
  <2>1. s.chain = e.chain /\ s.key = e.key /\ s.marker \in {e.marker, None}
    BY <1>5 DEF SameTrust
  <2>2. /\ Suffix(l, s) = Suffix(l, e)
        /\ \A i : Removed(s, i) = Removed(e, i) /\ Added(s, i) = Added(e, i)
        /\ Trusted(s) = Trusted(e) /\ KeyGeneration(s) = KeyGeneration(e)
    BY <2>1 DEF Suffix, Removed, Added, Trusted, KeyGeneration, LastCertificate
  <2>3. Descends(s, l) /\ SameKeyAndMarker(l, s)
    BY <2>1, <2>2 DEF Leads, Descends, SameKeyAndMarker
  <2>4. Arrived(l, s)
    BY <2>2 DEF Leads, Arrived, Enrolled
  <2>5. Buried(l, s)
    BY <1>4, <2>1, <2>2 DEF Buried
  <2> QED
    BY <1>2, <1>3, <2>3, <2>4, <2>5 DEF Leads
<1>6. ASSUME NEW c \in Certificate, c.by = d, Joins(e, s, c) \/ Buries(e, s, c)
      PROVE  Leads(l, s)
  <2>1. s.chain = Append(e.chain, c)
    BY <1>6 DEF Joins, Buries
  <2>2. /\ Suffix(l, s) = Suffix(l, e) \cup {Len(s.chain)}
        /\ \A i \in Suffix(l, e) : /\ Removed(s, i) = Removed(e, i)
                                   /\ Added(s, i) = Added(e, i)
                                   /\ s.chain[i] = e.chain[i]
        /\ Removed(s, Len(s.chain)) = Trusted(e) \ Trusted(s)
        /\ Added(s, Len(s.chain)) = Trusted(s) \ Trusted(e)
        /\ s.chain[Len(s.chain)] = c
    <3>1. MissesOneMore(l, e, s, c)
      BY <1>1, <2>1, MissedOneMore
    <3> QED
      BY <3>1 DEF MissesOneMore
  <2>3. /\ Trusted(s) = c.devs /\ KeyGeneration(s) = c.gen
        /\ IsPrefix(e.chain, s.chain)
    BY <1>1, <2>1, OneMoreCertificate
  <2>4. Descends(s, l)
    BY <1>1, <2>3, PrefixTransitive DEF Descends
  <2>5. Arrived(l, s)
    BY <2>2 DEF Leads, Arrived, Enrolled
  <2>6. /\ KeyGeneration(l) \in Nat /\ KeyGeneration(e) \in Nat
        /\ KeyGeneration(l) <= KeyGeneration(e)
    BY <1>1, LastOfChain, GenerationsGrow
  <2>7. CASE Joins(e, s, c)
    <3>1. /\ KeyGeneration(s) = KeyGeneration(e) /\ s.key = e.key /\ s.marker = None
          /\ Trusted(e) \ Trusted(s) = {}
      BY <2>3, <2>7 DEF Joins, Enrolls, KeyGeneration, LastCertificate, Trusted
    <3>2. SameKeyAndMarker(l, s)
      BY <3>1 DEF Leads, SameKeyAndMarker
    <3>3. Buried(l, s)
      BY <1>4, <2>2, <3>1 DEF Buried
    <3> QED
      BY <1>2, <1>3, <2>4, <2>5, <3>2, <3>3 DEF Leads
  <2>8. CASE Buries(e, s, c)
    <3>1. KeyGeneration(s) = KeyGeneration(e) + 1
      BY <2>3, <2>8 DEF Buries, Revokes, KeyGeneration, LastCertificate
    <3>2. SameKeyAndMarker(l, s)
      BY <2>6, <3>1 DEF SameKeyAndMarker
    <3>3. ASSUME NEW x \in Trusted(e) \ Trusted(s), l.profiles[x].st = "active"
          PROVE  /\ s.profiles[x].st = "deleted"
                 /\ NotAbove(Tombstone(l.profiles[x], c.by).vv, s.profiles[x].vv)
      <4>1. x \in Devices
        BY <1>1, LastOfChain
      <4>2. e.profiles[x].st # "missing" /\ NotAbove(l.profiles[x].vv, e.profiles[x].vv)
        BY <3>3, <4>1, ProfileStates, GrewKeeps DEF Leads, ProfilesGrew
      <4>3. e.profiles[x].st = "active"
        BY <4>1, <4>2, ProfileStates DEF WellFormed
      <4>4. s.profiles[x] = Tombstone(e.profiles[x], d)
        BY <1>6, <2>8, <4>3 DEF Buries
      <4> QED
        BY <1>6, <4>1, <4>2, <4>4, ProfileStates, TombstoneFacts, TombstonesGrow
    <3>4. Buried(l, s)
      BY <1>4, <2>2, <3>3 DEF Buried
    <3> QED
      BY <1>2, <1>3, <2>4, <2>5, <3>2, <3>4 DEF Leads
  <2> QED
    BY <1>6, <2>7, <2>8
<1> QED
  BY <1>5, <1>6 DEF Child


-----------------------------------------------------------------------------
(* A device can follow what its snapshot led to.                           *)

\* Devices that were enrolled meanwhile are new to it.
LEMMA EnrolledAreNew ==
    ASSUME NEW l \in Snapshot, NEW s \in Snapshot, l.chain # <<>>,
           Lineage(s.chain), WellFormed(l), WellFormed(s), Descends(s, l)
    PROVE  EnrollmentsConsistent(l, s)
<1>1. /\ s.chain \in Chains /\ Len(s.chain) \in Nat \ {0}
      /\ l.chain \in Chains /\ Len(l.chain) \in Nat \ {0}
  BY LastOfChain DEF Lineage
<1>2. /\ Len(l.chain) <= Len(s.chain)
      /\ \A j \in 1 .. Len(l.chain) : l.chain[j] = s.chain[j]
  BY <1>1, PrefixElements DEF Descends
<1> SUFFICES ASSUME NEW i \in Suffix(l, s), NEW x \in Added(s, i)
             PROVE  /\ l.profiles[x].st = "missing"
                    /\ s.profiles[x].st # (IF x \in Trusted(s) THEN "deleted" ELSE "active")
  BY DEF EnrollmentsConsistent, Enrolled
<1>3. i \in 2 .. Len(s.chain) /\ \A j \in 1 .. Len(l.chain) : j \in 1 .. i - 1
  BY <1>1, <1>2 DEF Suffix
<1>4. x \in Devices /\ \A j \in 1 .. Len(l.chain) : x \notin l.chain[j].devs
  BY <1>2, <1>3, NeverReturns DEF Added
<1>5. x \notin EverTrusted(l) /\ x \notin Trusted(l)
  <2>1. DOMAIN l.chain = 1 .. Len(l.chain) /\ Len(l.chain) \in 1 .. Len(l.chain)
    BY <1>1, LenProperties DEF Chains
  <2> QED
    BY <1>4, <2>1 DEF EverTrusted, Trusted, LastCertificate
<1>6. l.profiles[x].st = "missing"
  BY <1>4, <1>5, ProfileStates DEF WellFormed, ProfilesMatchTrust, Revoked
<1>7. s.profiles[x].st # (IF x \in Trusted(s) THEN "deleted" ELSE "active")
  BY <1>4, ProfileStates DEF WellFormed
<1> QED
  BY <1>6, <1>7

\* What is up for review can be reviewed.
LEMMA GrownIsReviewable ==
    ASSUME NEW l \in Snapshot, NEW s \in Snapshot, ProfilesGrew(l, s)
    PROVE  Reviewable(l.profiles, s) /\ Reviewable(Baseline(l, s), s)
<1>1. ASSUME NEW x \in Devices, l.profiles[x] # s.profiles[x]
      PROVE  \/ l.profiles[x].st = "missing"
             \/ /\ s.profiles[x].st # "missing"
                /\ CompareVersionVectors(l.profiles[x].vv, s.profiles[x].vv) = "remote_ahead"
  <2>1. l.profiles[x].vv \in Vector /\ s.profiles[x].vv \in Vector
    BY ProfileStates
  <2> QED
    BY <1>1, <2>1, BehindIsBelow DEF ProfilesGrew, Grew
<1>2. \A x \in Devices : \/ Baseline(l, s)[x] = s.profiles[x]
                         \/ Baseline(l, s)[x] = l.profiles[x]
  BY DEF Baseline
<1> QED
  BY <1>1, <1>2 DEF Reviewable, ChangedProfiles

\* One that missed enrollments trusts who was trusted and who has joined.
LEMMA OnlyArrivals ==
    ASSUME NEW l \in Snapshot, NEW s \in Snapshot, l.chain # <<>>,
           Lineage(s.chain), Leads(l, s), \A i \in Suffix(l, s) : Removed(s, i) = {}
    PROVE  /\ KeyGeneration(s) = KeyGeneration(l)
           /\ Trusted(s) = Trusted(l) \cup Enrolled(l, s)
<1> DEFINE c == s.chain
           n == Len(c)
<1>1. /\ c \in Chains /\ n \in Nat \ {0} /\ n \in 1 .. n
      /\ l.chain \in Chains /\ Len(l.chain) \in Nat \ {0}
  BY LastOfChain DEF Lineage
<1>2. KeyGeneration(s) = KeyGeneration(l) /\ Trusted(l) \subseteq Trusted(s)
  BY EnrollmentsKeepTrust DEF Leads
<1>3. ASSUME NEW i \in Suffix(l, s), NEW x \in Added(s, i), x \notin Trusted(s)
      PROVE  FALSE
  <2>1. i \in 1 .. n /\ i <= n /\ \A k \in i + 1 .. n : k \in Suffix(l, s)
    BY <1>1 DEF Suffix
  <2>2. x \in c[i].devs \ c[n].devs
    BY <1>3 DEF Added, Trusted, LastCertificate
  <2>3. PICK k \in i + 1 .. n : x \in Left(c, k)
    BY <1>1, <2>1, <2>2 DEF Lineage, AbsentWasRemoved
  <2> QED
    BY <2>1, <2>3 DEF Left, Removed
<1>4. Enrolled(l, s) \subseteq Trusted(s)
  BY <1>3 DEF Enrolled
<1> QED
  BY <1>2, <1>4 DEF Leads, Arrived

LEMMA SlotsAreTrusted ==
    ASSUME NEW s, WellFormed(s)
    PROVE  s.slots = Trusted(s)
BY DEF WellFormed, ValidSnapshot

\* A device that missed revocations may consume them, and can unless a profile
\* that was removed had been stamped meanwhile.
LEMMA RevocationsMissed ==
    ASSUME NEW l \in Snapshot, NEW s \in Snapshot, NEW d \in Trusted(s),
           l.chain # <<>>, Lineage(s.chain), WellFormed(l), WellFormed(s),
           Leads(l, s), Verified(l, s), \E i \in Suffix(l, s) : IsRevocation(s, i)
    PROVE  /\ MayConsumeRevocations(d, l, s)
           /\ CanConsumeRevocations(d, l, s) \/ MissedStamp(l, s)
<1> DEFINE c == s.chain
           n == Len(c)
           m == Len(l.chain)
<1>1. /\ c \in Chains /\ n \in Nat \ {0} /\ n \in 1 .. n
      /\ l.chain \in Chains /\ m \in Nat \ {0}
  BY LastOfChain DEF Lineage
<1>2. /\ m <= n /\ \A j \in 1 .. m : l.chain[j] = c[j]
  BY <1>1, PrefixElements DEF Leads, Descends
<1>3. \A i \in Suffix(l, s) : i \in 2 .. n /\ m <= i - 1 /\ i - 1 <= i
  BY <1>1 DEF Suffix
<1>4. ASSUME NEW i \in Suffix(l, s)
      PROVE  Cardinality(Removed(s, i)) <= 1
  <2>1. Removed(s, i) = {} \/ One(Removed(s, i))
    BY <1>3 DEF Lineage, RemovalRotates, Removed, Left
  <2>2. CASE Removed(s, i) = {}
    BY <2>2, FS_EmptySet
  <2>3. CASE One(Removed(s, i))
    <3>1. PICK x : Removed(s, i) = {x}
      BY <2>3 DEF One
    <3>2. Cardinality({x}) = 1
      BY FS_Singleton, Zenon
    <3> QED
      BY <3>1, <3>2
  <2> QED
    BY <2>1, <2>2, <2>3
<1>5. MayConsumeRevocations(d, l, s)
  BY <1>4, SlotsAreTrusted, EnrolledAreNew DEF MayConsumeRevocations, WellFormed, Leads
<1>6. ASSUME NEW i \in Suffix(l, s), NEW x \in Removed(s, i)
      PROVE  x \in Devices /\ s.profiles[x].st # "active" /\ l.profiles[x].st # "deleted"
  <2>1. x \in Devices /\ x \notin Trusted(s)
    BY <1>3, NeverReturns DEF Removed
  <2>2. s.profiles[x].st # "active"
    BY <2>1, ProfileStates DEF WellFormed
  <2>3. ASSUME x \in Revoked(l)
        PROVE  FALSE
    <3>1. PICK j \in 1 .. m : x \in l.chain[j].devs
      <4>1. DOMAIN l.chain = 1 .. m
        BY <1>1, LenProperties DEF Chains
      <4> QED
        BY <2>3, <4>1 DEF Revoked, EverTrusted
    <3>2. j \in 1 .. n /\ m \in 1 .. n /\ i - 1 \in 1 .. n /\ j <= m /\ m <= i - 1
      BY <1>1, <1>2, <1>3
    <3>3. x \in c[j].devs /\ x \notin c[m].devs
      BY <1>1, <1>2, <2>3, <3>1 DEF Revoked, Trusted, LastCertificate
    <3>4. x \notin c[i - 1].devs
      BY <3>2, <3>3 DEF Lineage, RemovedForGood
    <3> QED
      BY <3>4 DEF Removed
  <2>4. l.profiles[x].st # "deleted"
    BY <2>1, <2>3 DEF WellFormed, ProfilesMatchTrust
  <2> QED
    BY <2>1, <2>2, <2>4
<1>7. CASE \A i \in Suffix(l, s) : TombstoneExpected(l, s, i)
  BY <1>5, <1>6, <1>7, GrownIsReviewable
     DEF CanConsumeRevocations, RevocationsConsistent, Leads
<1>8. ASSUME NEW i \in Suffix(l, s), ~TombstoneExpected(l, s, i)
      PROVE  MissedStamp(l, s)
  <2>1. PICK x \in Removed(s, i) :
            /\ l.profiles[x].st = "active"
            /\ s.profiles[x] # Tombstone(l.profiles[x], c[i].by)
    BY <1>8 DEF TombstoneExpected
  <2> DEFINE t == Tombstone(l.profiles[x], c[i].by)
  <2>2. x \in Devices /\ c[i].by \in Devices
    BY <1>3, <1>6, NeverReturns DEF WellFormed, ValidSnapshot, ValidChain
  <2>3. s.profiles[x].st = "deleted" /\ NotAbove(t.vv, s.profiles[x].vv)
    BY <2>1 DEF Leads, Buried
  <2>4. t \in Profile /\ t.st = "deleted" /\ t.vv \in Vector
    BY <2>2, ProfileStates, TombstoneFacts
  <2>5. s.profiles[x] \in Profile /\ s.profiles[x].vv \in Vector
    BY <2>2, ProfileStates
  <2>6. s.profiles[x] # t
    BY <2>1
  <2> HIDE DEF t
  <2>7. s.profiles[x].vv # t.vv
    BY <2>3, <2>4, <2>5, <2>6 DEF Profile
  <2>8. PICK y \in Devices : s.profiles[x].vv[y] > t.vv[y]
    BY <2>3, <2>4, <2>5, <2>7, DifferentIsAbove DEF Above
  <2>9. IsVersionVectorAheadOf(s.profiles[x].vv, t.vv)
    BY <2>4, <2>5, <2>8 DEF IsVersionVectorAheadOf, Component, Vector
  <2> QED
    BY <2>1, <2>9 DEF MissedStamp, t
<1> QED
  BY <1>5, <1>7, <1>8

\* Whatever was missed can be followed, but for a stamp.
LEMMA CanFollowUnlessStamped ==
    ASSUME NEW l \in Snapshot, NEW s \in Snapshot, NEW d \in Trusted(s),
           l.chain # <<>>, Lineage(s.chain), WellFormed(l), WellFormed(s),
           Leads(l, s), Behind(l, s)
    PROVE  \/ CanReview(l, s) \/ CanConsumeEnrollments(l, s)
           \/ CanConsumeRevocations(d, l, s)
           \/ (MayConsumeRevocations(d, l, s) /\ MissedStamp(l, s))
<1>1. /\ s.chain \in Chains /\ Len(s.chain) \in Nat \ {0}
      /\ l.chain \in Chains /\ Len(l.chain) \in Nat \ {0}
  BY LastOfChain DEF Lineage
<1>2. Verified(l, s)
  BY DEF Verified, WellFormed, Leads
<1>3. s.slots = Trusted(s) /\ l.slots = Trusted(l)
  BY SlotsAreTrusted
<1>4. Reviewable(l.profiles, s) /\ Reviewable(Baseline(l, s), s)
  BY GrownIsReviewable DEF Leads
<1>5. CASE s.chain = l.chain
  <2>1. Trusted(s) = Trusted(l) /\ KeyGeneration(s) = KeyGeneration(l)
    BY <1>5 DEF Trusted, KeyGeneration, LastCertificate
  <2>2. s.key = l.key /\ s.marker \in {l.marker, None}
    BY <2>1 DEF Leads, SameKeyAndMarker
  <2> QED
    BY <1>2, <1>3, <1>4, <1>5, <2>1, <2>2 DEF CanReview, MarkerMayFollow
<1>6. CASE s.chain # l.chain /\ \A i \in Suffix(l, s) : IsEnrollment(s, i)
  <2>1. \A i \in Suffix(l, s) : Removed(s, i) = {}
    BY <1>6 DEF IsEnrollment
  <2>2. /\ KeyGeneration(s) = KeyGeneration(l)
        /\ Trusted(s) = Trusted(l) \cup Enrolled(l, s)
    BY <2>1, OnlyArrivals
  <2>3. s.key = l.key /\ s.marker \in {l.marker, None}
    BY <2>2 DEF Leads, SameKeyAndMarker
  <2>4. EnrollmentsConsistent(l, s)
    BY EnrolledAreNew DEF Leads
  <2> QED
    BY <1>2, <1>3, <1>4, <1>6, <2>2, <2>3, <2>4 DEF CanConsumeEnrollments, MarkerMayFollow
<1>7. ASSUME NEW i \in Suffix(l, s), ~IsEnrollment(s, i)
      PROVE  \/ CanConsumeRevocations(d, l, s)
             \/ MayConsumeRevocations(d, l, s) /\ MissedStamp(l, s)
  <2>1. i \in 2 .. Len(s.chain)
    BY <1>1 DEF Suffix
  <2>2. IsRevocation(s, i)
    BY <1>7, <2>1 DEF WellFormed, ValidSnapshot, ValidChain
  <2> QED
    BY <1>2, <2>2, RevocationsMissed
<1> QED
  BY <1>5, <1>6, <1>7


-----------------------------------------------------------------------------
(* What the operations make is a child of what they start from.            *)

\* Nothing but the chain decides if it is valid, and who was revoked.
LEMMA SameValidity ==
    ASSUME NEW e, NEW s, s.chain = e.chain
    PROVE  /\ ValidChain(s) = ValidChain(e)
           /\ Trusted(s) = Trusted(e) /\ Revoked(s) = Revoked(e)
           /\ KeyGeneration(s) = KeyGeneration(e)
           /\ \A i : /\ IsRevocation(s, i) = IsRevocation(e, i)
                     /\ Removed(s, i) = Removed(e, i)
BY DEF ValidChain, IsEnrollment, IsRevocation, Added, Removed, Trusted, Revoked,
       EverTrusted, KeyGeneration, LastCertificate

\* With the chain and key as they are, profiles may be added for those who are
\* trusted, and what is there changes by counting on.
LEMMA SameTrustChild ==
    ASSUME NEW e \in Snapshot, NEW s \in Snapshot, NEW d \in Trusted(e),
           WellFormed(e), SameTrust(e, s), ProfilesGrew(e, s),
           s.vv = IncrementVersionVector(e.vv, d), s.by = d, s.slots = e.slots,
           \A x \in Devices : \/ s.profiles[x].st = e.profiles[x].st
                              \/ s.profiles[x].st = "active" /\ x \in Trusted(e),
           \A x \in Devices : s.profiles[x].st = "missing" => s.profiles[x] = Missing
    PROVE  Child(d, e, s)
<1>1. s.chain = e.chain /\ s.marker \in {e.marker, None}
  BY DEF SameTrust
<1>2. /\ ValidChain(s) /\ Trusted(s) = Trusted(e) /\ Revoked(s) = Revoked(e)
      /\ KeyGeneration(s) = KeyGeneration(e)
      /\ IsRevocation(s, Len(s.chain)) = IsRevocation(e, Len(e.chain))
      /\ Removed(s, Len(s.chain)) = Removed(e, Len(e.chain))
  BY <1>1, SameValidity DEF WellFormed, ValidSnapshot
<1>3. ValidSnapshot(s)
  BY <1>2 DEF WellFormed, ValidSnapshot
<1>4. ProfilesMatchTrust(s)
  BY <1>2 DEF WellFormed, ProfilesMatchTrust
<1>5. MarkerOfLastRevocation(s)
  BY <1>1, <1>2 DEF WellFormed, MarkerOfLastRevocation
<1> QED
  BY <1>3, <1>4, <1>5 DEF Child, WellFormed

\* Counting on makes a profile that has grown.
LEMMA ProfilesStay ==
    ASSUME NEW e, NEW s, s.profiles = e.profiles
    PROVE  ProfilesGrew(e, s)
BY DEF ProfilesGrew, Grew

\* A valid chain with one certificate more.
LEMMA OneMoreIsValid ==
    ASSUME NEW e \in Snapshot, NEW s \in Snapshot, NEW c \in Certificate,
           e.chain # <<>>, s.chain = Append(e.chain, c), ValidChain(e),
           c.by \in Trusted(e),
           IsEnrollment(s, Len(s.chain)) \/ IsRevocation(s, Len(s.chain))
    PROVE  ValidChain(s)
<1> DEFINE n == Len(e.chain)
<1>1. e.chain \in Chains /\ n \in Nat \ {0}
  BY LastOfChain
<1>2. PICK a \in Chains :
              /\ a = Append(e.chain, c) /\ Len(a) = n + 1
              /\ \A i \in 1 .. n : a[i] = e.chain[i]
              /\ a[n + 1] = c
  BY <1>1, Appended
<1>3. a = s.chain
  BY <1>2
<1> SUFFICES ASSUME NEW i \in 2 .. Len(s.chain)
             PROVE  /\ s.chain[i].by \in s.chain[i - 1].devs
                    /\ IsEnrollment(s, i) \/ IsRevocation(s, i)
  BY DEF ValidChain
<1>4. CASE i = Len(s.chain)
  <2>1. s.chain[i] = c /\ s.chain[i - 1] = e.chain[n]
    <3>1. i - 1 = n /\ n \in 1 .. n /\ i = n + 1
      BY <1>1, <1>2, <1>3, <1>4
    <3> QED
      BY <1>2, <1>3, <3>1
  <2> QED
    BY <1>4, <2>1 DEF Trusted, LastCertificate
<1>5. CASE i # Len(s.chain)
  <2>1. i \in 2 .. n /\ i \in 1 .. n /\ i - 1 \in 1 .. n
    BY <1>1, <1>2, <1>3, <1>5
  <2>2. s.chain[i] = e.chain[i] /\ s.chain[i - 1] = e.chain[i - 1]
    BY <1>2, <1>3, <2>1
  <2>3. /\ e.chain[i].by \in e.chain[i - 1].devs
        /\ IsEnrollment(e, i) \/ IsRevocation(e, i)
    BY <2>1 DEF ValidChain
  <2> QED
    BY <2>2, <2>3 DEF IsEnrollment, IsRevocation, Added, Removed
<1> QED
  BY <1>4, <1>5

\* The last transition of a chain with one certificate more.
LEMMA LastTransition ==
    ASSUME NEW e \in Snapshot, NEW s \in Snapshot, NEW c \in Certificate,
           e.chain # <<>>, s.chain = Append(e.chain, c)
    PROVE  /\ Removed(s, Len(s.chain)) = Trusted(e) \ Trusted(s)
           /\ Added(s, Len(s.chain)) = Trusted(s) \ Trusted(e)
           /\ s.chain[Len(s.chain)] = c
           /\ s.chain[Len(s.chain) - 1] = LastCertificate(e)
<1>1. e.chain \in Chains /\ Len(e.chain) \in Nat \ {0}
  BY LastOfChain
<1>2. IsPrefix(e.chain, e.chain)
  BY <1>1, PrefixReflexive
<1>3. MissesOneMore(e, e, s, c)
  BY <1>2, MissedOneMore
<1>4. s.chain[Len(s.chain) - 1] = LastCertificate(e)
  <2>1. PICK a \in Chains :
              /\ a = Append(e.chain, c) /\ Len(a) = Len(e.chain) + 1
              /\ \A i \in 1 .. Len(e.chain) : a[i] = e.chain[i]
    BY <1>1, Appended
  <2>2. /\ a = s.chain /\ Len(s.chain) - 1 = Len(e.chain)
        /\ Len(e.chain) \in 1 .. Len(e.chain)
    BY <1>1, <2>1
  <2> QED
    BY <2>1, <2>2 DEF LastCertificate
<1> QED
  BY <1>3, <1>4 DEF MissesOneMore

\* An enrollment adds a device that was never trusted, while no marker is left.
LEMMA JoinsChild ==
    ASSUME NEW e \in Snapshot, NEW s \in Snapshot, NEW c \in Certificate,
           NEW d \in Trusted(e), NEW new \in Devices \ EverTrusted(e),
           WellFormed(e), e.chain # <<>>, e.marker = None,
           s.chain = Append(e.chain, c), c.by = d, c.gen = KeyGeneration(e),
           c.devs = Trusted(e) \cup {new}, s.key = e.key, s.marker = None,
           s.slots = e.slots \cup {new}, s.profiles = e.profiles,
           s.vv = IncrementVersionVector(e.vv, d), s.by = d
    PROVE  Child(d, e, s)
<1>1. /\ Trusted(s) = c.devs /\ KeyGeneration(s) = c.gen
      /\ EverTrusted(s) = EverTrusted(e) \cup c.devs
      /\ Trusted(e) \subseteq EverTrusted(e)
      /\ \A i \in 1 .. Len(e.chain) : e.chain[i].devs \subseteq EverTrusted(e)
  BY OneMoreCertificate
<1>2. /\ Removed(s, Len(s.chain)) = {} /\ Added(s, Len(s.chain)) = {new}
      /\ s.chain[Len(s.chain)].gen = s.chain[Len(s.chain) - 1].gen
  <2>1. /\ Removed(s, Len(s.chain)) = Trusted(e) \ Trusted(s)
        /\ Added(s, Len(s.chain)) = Trusted(s) \ Trusted(e)
        /\ s.chain[Len(s.chain)] = c
        /\ s.chain[Len(s.chain) - 1] = LastCertificate(e)
    BY LastTransition
  <2>2. Trusted(e) \ Trusted(s) = {} /\ Trusted(s) \ Trusted(e) = {new}
    BY <1>1
  <2> QED
    BY <2>1, <2>2 DEF KeyGeneration
<1>3. IsEnrollment(s, Len(s.chain))
  <2>1. Cardinality({new}) = 1
    BY FS_Singleton, Zenon
  <2> QED
    BY <1>2, <2>1 DEF IsEnrollment
<1>4. ValidSnapshot(s)
  BY <1>1, <1>3, OneMoreIsValid DEF WellFormed, ValidSnapshot
<1>5. ProfilesMatchTrust(s)
  <2>1. Trusted(e) \subseteq Trusted(s) /\ Revoked(e) \subseteq Revoked(s)
    BY <1>1 DEF Revoked
  <2> QED
    BY <2>1 DEF WellFormed, ProfilesMatchTrust
<1>6. WellFormed(s)
  BY <1>4, <1>5 DEF WellFormed, MarkerOfLastRevocation
<1>7. Joins(e, s, c)
  BY <1>1 DEF Joins, Enrolls, KeyGeneration, LastCertificate, Trusted
<1> QED
  BY <1>6, <1>7, ProfilesStay DEF Child

\* A revocation removes another device and buries its profile, with a marker.
LEMMA BuriesChild ==
    ASSUME NEW e \in Snapshot, NEW s \in Snapshot, NEW c \in Certificate,
           NEW d \in Trusted(e), NEW old \in Trusted(e) \ {d},
           WellFormed(e), e.chain # <<>>,
           s.chain = Append(e.chain, c), c.by = d, c.gen = KeyGeneration(e) + 1,
           c.devs = Trusted(e) \ {old}, s.slots = Trusted(e) \ {old},
           s.profiles = RevokeProfile(e.profiles, d, old),
           s.marker = [ids |-> {old}, gen |-> c.gen],
           s.vv = IncrementVersionVector(e.vv, d), s.by = d
    PROVE  Child(d, e, s)
<1>1. /\ Trusted(s) = c.devs /\ KeyGeneration(s) = c.gen
      /\ EverTrusted(s) = EverTrusted(e) \cup c.devs
      /\ Trusted(e) \subseteq EverTrusted(e)
      /\ Trusted(e) \subseteq Devices
  BY OneMoreCertificate, LastOfChain
<1>2. /\ Removed(s, Len(s.chain)) = {old} /\ Added(s, Len(s.chain)) = {}
      /\ s.chain[Len(s.chain)].gen = s.chain[Len(s.chain) - 1].gen + 1
      /\ s.chain[Len(s.chain)].by \in s.chain[Len(s.chain)].devs
  <2>1. /\ Removed(s, Len(s.chain)) = Trusted(e) \ Trusted(s)
        /\ Added(s, Len(s.chain)) = Trusted(s) \ Trusted(e)
        /\ s.chain[Len(s.chain)] = c
        /\ s.chain[Len(s.chain) - 1] = LastCertificate(e)
    BY LastTransition
  <2>2. /\ Trusted(e) \ Trusted(s) = {old} /\ Trusted(s) \ Trusted(e) = {}
        /\ d \in c.devs
    BY <1>1
  <2> QED
    BY <2>1, <2>2 DEF KeyGeneration
<1>3. IsRevocation(s, Len(s.chain))
  BY <1>2 DEF IsRevocation
<1>4. ValidSnapshot(s)
  BY <1>1, <1>3, OneMoreIsValid DEF WellFormed, ValidSnapshot
<1>5. /\ \A x \in Devices \ {old} : s.profiles[x] = e.profiles[x]
      /\ e.profiles[old].st # "active" => s.profiles[old] = e.profiles[old]
      /\ e.profiles[old].st = "active" =>
            s.profiles[old] = Tombstone(e.profiles[old], d)
  BY <1>1 DEF RevokeProfile, Snapshot
<1>6. /\ Tombstone(e.profiles[old], d).st = "deleted"
      /\ Above(Tombstone(e.profiles[old], d).vv, e.profiles[old].vv)
  BY <1>1, ProfileStates, TombstoneFacts
<1>7. ASSUME NEW x \in Devices
      PROVE  /\ s.profiles[x].st = "active" => x \in Trusted(s)
             /\ s.profiles[x].st = "deleted" => x \in Revoked(s)
             /\ s.profiles[x].st = "missing" => s.profiles[x] = Missing
             /\ Grew(e.profiles[x], s.profiles[x])
  <2>1. CASE x = old
    BY <1>1, <1>5, <1>6, <2>1 DEF WellFormed, ProfilesMatchTrust, Revoked, Grew
  <2>2. CASE x # old
    BY <1>1, <1>5, <2>2 DEF WellFormed, ProfilesMatchTrust, Revoked, Grew
  <2> QED
    BY <2>1, <2>2
<1>8. WellFormed(s) /\ ProfilesGrew(e, s)
  BY <1>1, <1>2, <1>3, <1>4, <1>7
     DEF WellFormed, ProfilesMatchTrust, MarkerOfLastRevocation, ProfilesGrew
<1>9. Buries(e, s, c)
  BY <1>1, <1>5 DEF Buries, Revokes, KeyGeneration, LastCertificate, Trusted
<1> QED
  BY <1>8, <1>9 DEF Child

\* A resolution stamps what it reviewed and keeps the rest.
LEMMA ResolvedChild ==
    ASSUME NEW l \in Snapshot, NEW s \in Snapshot, NEW d \in Trusted(s),
           d \in Devices, WellFormed(l), WellFormed(s), Behind(l, s),
           Reviewable(Baseline(l, s), s)
    PROVE  Child(d, s, Resolved(d, l, s))
<1> DEFINE r == Resolved(d, l, s)
           b == Baseline(l, s)
<1>1. /\ r \in Snapshot /\ r.by = d /\ r.chain = s.chain /\ r.key = s.key
      /\ r.marker = s.marker
  BY ResolvedKind
<1>2. /\ r.vv = IncrementVersionVector(MergeVersionVectors(l.vv, s.vv), d)
      /\ r.slots = s.slots /\ r.profiles = StampedProfiles(b, s, d)
  BY DEF Resolved, Snapshot
<1>3. /\ l.vv \in Vector /\ s.vv \in Vector
  BY DEF Snapshot
<1>4. MergeVersionVectors(l.vv, s.vv) = s.vv
  BY <1>3, BehindIsBelow, Merged DEF Behind, Above
<1>5. ASSUME NEW x \in Devices, b[x] # s.profiles[x]
      PROVE  /\ r.profiles[x].st = s.profiles[x].st
             /\ Above(r.profiles[x].vv, s.profiles[x].vv)
             /\ s.profiles[x].st # "missing"
  <2> DEFINE m == MergeVersionVectors(b[x].vv, s.profiles[x].vv)
             v == IncrementVersionVector(m, d)
  <2>1. b[x] \in Profile /\ b[x].vv \in Vector
    BY BaselineKind DEF Profiles, Profile
  <2>2. s.profiles[x] \in Profile /\ s.profiles[x].vv \in Vector
    BY ProfileStates
  <2>3. m \in Vector /\ v \in Vector /\ Above(v, m) /\ NotAbove(s.profiles[x].vv, m)
    BY <2>1, <2>2, VectorKinds, Counted, Merged
  <2>4. StampedProfiles(b, s, d)[x] = [s.profiles[x] EXCEPT !.vv = v]
    BY <1>5, <2>2 DEF StampedProfiles
  <2> HIDE DEF m, v, b, r
  <2>5. r.profiles[x].st = s.profiles[x].st /\ r.profiles[x].vv = v
    BY <1>2, <2>2, <2>4 DEF Profile
  <2>6. Above(v, s.profiles[x].vv)
    BY <2>2, <2>3, AboveTransitive DEF Above
  <2>7. ASSUME s.profiles[x].st = "missing"
        PROVE  FALSE
    <3>1. b[x].st = "missing" /\ s.profiles[x] = Missing
      BY <1>5, <2>7 DEF Reviewable, ChangedProfiles, WellFormed, b
    <3>2. b[x] = l.profiles[x]
      BY <1>5 DEF Baseline, b
    <3>3. l.profiles[x] = Missing
      BY <3>1, <3>2 DEF WellFormed
    <3> QED
      BY <1>5, <3>1, <3>2, <3>3
  <2> QED
    BY <2>5, <2>6, <2>7
<1>6. ASSUME NEW x \in Devices, b[x] = s.profiles[x]
      PROVE  r.profiles[x] = s.profiles[x]
  BY <1>2, <1>6 DEF StampedProfiles
<1> HIDE DEF r, b
<1>7. ProfilesGrew(s, r)
  BY <1>5, <1>6 DEF ProfilesGrew, Grew
<1>8. /\ \A x \in Devices : r.profiles[x].st = s.profiles[x].st
      /\ \A x \in Devices : r.profiles[x].st = "missing" => r.profiles[x] = Missing
  BY <1>5, <1>6 DEF WellFormed
<1>9. SameTrust(s, r)
  BY <1>1 DEF SameTrust
<1>10. Child(d, s, r)
  BY <1>1, <1>2, <1>4, <1>7, <1>8, <1>9, SameTrustChild
<1> QED
  BY <1>10 DEF r
=============================================================================
