------------------------- MODULE SnapshotSync_proofs -------------------------
(* The safety of synchronization, for any devices, pages and operations and  *)
(* any lost, late or repeated request.  IInv ties what is under way, on the  *)
(* pages and in the network, to the counters of the version vectors, to the  *)
(* encrypted records and to the sessions.  It is inductive with OpeningInv,  *)
(* which says what an unlock that goes on can still open.                    *)
EXTENDS SnapshotSync, VersionVectors_proofs, SequenceTheorems, FiniteSetTheorems

-----------------------------------------------------------------------------
(* The inductive invariant                                                   *)

Known == DOMAIN snapshots
Count(s, d) == snapshots[s].vv[d]
Under(s, r) == \A d \in Devices : Count(s, d) <= Count(r, d)
Synced(s) == snapshots[s].synced
RollbackOf(s) == snapshots[s].removal.rollback
TargetOf(s) == snapshots[s].removal.target

\* The snapshot may be uploaded over the remote object e.
Ready(s, e) == Synced(s) /\ ~Removing(s) /\ snapshots[s].exp = e /\ e # Unset

TypeInv ==
    /\ snapshots \in Seq(Snapshot) /\ Len(snapshots) \in Ids
    /\ local \in [Devices -> Known]
    /\ cred \in [Devices -> Artifact]
    /\ session \in [Devices -> Known \cup {None}]
    /\ task \in [Tasks -> Task]
    /\ remote \in committed \cup {None}
    /\ wire \subseteq Request
    /\ committed \subseteq Known
    /\ withdrawn \subseteq Known

\* Every snapshot is later than the first one and than what it expects to
\* replace; a removal mark was put on a snapshot that was remote, and is not.
SnapshotInv(s) ==
    /\ snapshots[s].exp \in Known \cup {None, Unset}
    /\ snapshots[s].exp \in Known =>
           Under(snapshots[s].exp, s) /\ ~Under(s, snapshots[s].exp)
    /\ s # 1 => Under(1, s) /\ ~Under(s, 1)
    /\ Removing(s) => /\ RollbackOf(s) \in committed
                      /\ ~Removing(RollbackOf(s))
                      /\ TargetOf(s) = RollbackOf(s)
                      /\ Synced(s)
                      /\ Under(RollbackOf(s), s)
                      /\ s \notin committed

OneMore(d, s, r) == /\ Count(s, d) = Count(r, d) + 1
                    /\ \A e \in Devices \ {d} : Count(s, e) = Count(r, e)

SnapshotsInv ==
    /\ snapshots[1].exp = Unset
    /\ ~Removing(1)
    /\ Synced(1) => 1 \in committed
    /\ \A s \in Known : SnapshotInv(s)
    /\ \A d \in Devices : Removing(local[d]) => OneMore(d, local[d], RollbackOf(local[d]))

\* How far the operation of a page has come.
Tracked(t) == task[t].pc \in {"persisted", "staged", "sent", "landed", "failed"}
Maker(t)   == Tracked(t) /\ task[t].op # "upload"
Committing(t) == Maker(t) \/ task[t].pc = "committing"
CanFail(t) ==
    \/ task[t].pc \in {"persisted", "staged", "failed"}
    \/ /\ task[t].pc = "sent"
       /\ \E w \in wire : w.from = t /\ w.st = "sent" /\ w.tries = 1

\* Nobody has seen more changes of a device than the device itself, and nobody
\* has seen those of a snapshot that was never remote.
Others(d) == committed \cup {local[e] : e \in Devices \ {d}}
Unseen(d, s) ==
    s \notin committed \cup {1} => \A r \in Others(d) : Count(r, d) < Count(s, d)

CountsInv ==
    /\ \A d \in Devices : \A r \in Others(d) : Count(r, d) <= Count(local[d], d)
    /\ \A d \in Devices : Unseen(d, local[d])
    /\ \A t \in Tasks : /\ Maker(t)
                        /\ local[Owner[t]] = task[t].cand
                        /\ task[t].cand \notin committed
                        => Unseen(Owner[t], task[t].base)
    /\ \A s, r \in committed : Under(s, r) /\ Under(r, s) => s = r

OpenedInv(k) ==
    /\ k.base \in Known
    /\ k.exp = snapshots[k.base].exp
    /\ Admits(k.op, k.base, k.mine)
    /\ k.op = "mutate" => Synced(k.base)

CheckedInv(k) ==
    /\ k.base \in Known
    /\ Admits(k.op, k.base, k.mine)
    /\ k.op = "mutate" => IF Synced(k.base)
                          THEN k.exp = k.base /\ k.base \in committed
                          ELSE k.exp = snapshots[k.base].exp
    /\ k.op = "resolve" => k.exp \in committed /\ MayFollow(k.base, k.exp)
    /\ k.op = "setup" => k.exp = None
    /\ k.op = "disable" => /\ k.exp = k.base
                           /\ k.base \in committed
                           /\ ~Removing(k.base)

UploadInv(k) ==
    /\ k.op = "upload"
    /\ k.base \in Known
    /\ k.cand = k.base
    /\ Ready(k.cand, k.exp)
    /\ k.pc = "matched" => k.cand \in committed

MakerInv(k, d) ==
    /\ k.op \in {"mutate", "resolve", "setup"}
    /\ Count(k.cand, d) = Count(k.base, d) + 1
    /\ Under(k.base, k.cand)
    /\ ~Removing(k.base)
    /\ Synced(k.base) => k.base \in committed
    /\ HasMarker(k.back) => k.back.cand = k.base /\ Ready(k.base, k.back.exp)

RetryInv(k) ==
    /\ k.op = "upload"
    /\ k.cand = k.base
    /\ k.pc # "persisted"
    /\ HasMarker(k.back) => k.back.cand = k.cand /\ k.back.exp = k.exp

TrackedInv(k, d) ==
    /\ k.base \in Known
    /\ k.cand \in Known
    /\ Ready(k.cand, k.exp)
    /\ MakerInv(k, d) \/ RetryInv(k)
    /\ k.pc = "persisted" => ~HasMarker(k.mine)
    /\ k.pc \in {"staged", "sent", "landed"} =>
           k.mine.cand = k.cand /\ k.mine.exp = k.exp /\ ~HasMarker(k.clear)
    /\ k.pc = "landed" => k.cand \in committed

RemovalInv(k) ==
    /\ k.op = "disable"
    /\ k.cand \in Known
    /\ Removing(k.cand)
    /\ k.exp = TargetOf(k.cand)

TaskInv(t) ==
    LET k == task[t]
    IN  /\ k.pc = "idle" => k = Idle
        /\ k.pc # "idle" => k.op # "none"
        /\ k.pc = "opened" => OpenedInv(k)
        /\ k.pc = "checked" => CheckedInv(k)
        /\ k.pc \in {"staging", "restaging", "matched"} => UploadInv(k)
        /\ Tracked(t) => TrackedInv(k, Owner[t])
        /\ k.pc = "committing" =>
               /\ k.cand \in Known
               /\ k.op = "disable" /\ Removing(k.cand) => k.exp = TargetOf(k.cand)
        /\ k.pc \in {"removing", "deleting", "removed", "conflicted"} => RemovalInv(k)

TasksInv == \A t \in Tasks : TaskInv(t)

\* A request belongs to the one page that waits for it, or to nobody.
PutInv(w) ==
    /\ w.cand \in Known
    /\ Ready(w.cand, w.match)
    /\ w.st # "refused"
    /\ w.st = "landed" => w.cand \in committed
    /\ w.st = "sent" => w.cand \notin withdrawn
    /\ w.from \in Tasks => /\ task[w.from].pc = "sent"
                           /\ task[w.from].cand = w.cand
                           /\ task[w.from].exp = w.match

DeleteInv(w) == /\ w.cand = None
                /\ w.from \in Tasks => task[w.from].pc = "deleting"

WireInv ==
    /\ \A w \in wire : /\ w.kind = "put" => PutInv(w)
                       /\ w.kind = "delete" => DeleteInv(w)
                       /\ w.st # "sent" => w.from \in Tasks
    /\ \A w, v \in wire : w.from = v.from /\ w.from \in Tasks => w = v

\* What would clear a marker is nobody else's record.
TokensInv ==
    \A t \in Tasks : task[t].pc \in {"staged", "sent", "landed"} =>
        /\ task[t].clear.tok # 0
        /\ task[t].clear.tok # cred[Owner[t]].tok
        /\ \A u \in Tasks \ {t} : Owner[u] = Owner[t] =>
               task[t].clear.tok \notin {task[u].mine.tok, task[u].clear.tok,
                                         task[u].back.tok}

\* Rolling back from record a, one failing upload after the other, takes back
\* neither the snapshot c of device d nor, while it was never remote, its marker.
\* X holds the records that may come back; the operation of f is exempt.
Closed(X, d, c, f) ==
    \A u \in Tasks : /\ Owner[u] = d /\ u # f
                     /\ CanFail(u) /\ task[u].cand = c
                     /\ task[u].mine \in X
                     => task[u].op = "upload" /\ task[u].back \in X
Shielded(d, c, a, f) ==
    \E X \in SUBSET Artifact :
        /\ a \in X
        /\ c \notin committed => \A x \in X : x.cand = c
        /\ Closed(X, d, c, f)

Remembered(d, c, f) == /\ local[d] = c
                       /\ cred[d].cand = c
                       /\ Shielded(d, c, cred[d], f)

ClaimsInv ==
    /\ \A w \in wire : w.kind = "put" /\ w.st = "sent" /\ w.cand \notin committed
           => \E d \in Devices : Remembered(d, w.cand, w.from)
    /\ \A t \in Tasks : task[t].pc = "staged" /\ task[t].cand \notin committed
           => Remembered(Owner[t], task[t].cand, t)
    /\ \A d \in Devices : Content(local[d]) \in committed
           => Shielded(d, Content(local[d]), cred[d], "nobody")
    /\ \A t \in Tasks : Maker(t) /\ CanFail(t) /\ task[t].base \in committed
           => Shielded(Owner[t], task[t].base, task[t].back, "nobody")

MarkersInv ==
    \A d \in Devices : HasMarker(cred[d]) =>
        cred[d].cand = local[d] /\ Ready(local[d], cred[d].exp)

\* While an operation is in the session it began in and has not marked its
\* snapshot yet, nothing else has to do with that snapshot; and nothing has to
\* do with a snapshot that was not made yet.
Mentions(u) == {task[u].base, task[u].cand}

LiveInv ==
    /\ \A t \in Tasks : task[t].live =>
          /\ session[Owner[t]] # None
          /\ task[t].pc = "persisted" =>
                 /\ task[t].cand \notin committed
                 /\ local[Owner[t]] = task[t].cand
                 /\ session[Owner[t]] # task[t].cand
                 /\ \A w \in wire : w.cand # task[t].cand
                 /\ \A u \in Tasks \ {t} : /\ task[u].base # task[t].cand
                                           /\ task[u].cand # task[t].cand
    /\ \A t \in Tasks : Mentions(t) \subseteq Known \cup {None}

\* A session in which an operation goes on, and what operations will bring it to,
\* are not ahead of the local snapshot, nor of what an operation may roll it back
\* to.
Inert(d) == \A t \in Tasks : Owner[t] = d => ~task[t].live

SessionInv ==
    /\ \A d \in Devices : session[d] # None /\ ~Inert(d) =>
           Under(Content(session[d]), Content(local[d]))
    /\ \A u \in Tasks : Committing(u) =>
           Under(Content(task[u].cand), Content(local[Owner[u]]))
    /\ \A t \in Tasks : /\ Maker(t) /\ CanFail(t)
                        /\ local[Owner[t]] = task[t].cand
                        /\ task[t].cand \notin committed
           => \A u \in Tasks \ {t} : Owner[u] = Owner[t] /\ Committing(u) =>
                  Under(Content(task[u].cand), task[t].base)

\* What an unlock has read was not changed since, or was rolled back.
OpeningInv ==
    /\ opening \in [Tasks -> Known \cup {None}]
    /\ \A t \in Tasks : opening[t] \in {None, local[Owner[t]]} \cup withdrawn

WithdrawnInv ==
    /\ withdrawn \cap committed = {}
    /\ \A d \in Devices : local[d] \notin withdrawn
    /\ \A s \in withdrawn : Synced(s)

IInv == /\ TypeInv /\ SnapshotsInv /\ TasksInv /\ WireInv
        /\ CountsInv /\ TokensInv /\ ClaimsInv /\ MarkersInv
        /\ LiveInv /\ SessionInv /\ WithdrawnInv

-----------------------------------------------------------------------------
(* Vectors with a counter for every device                                   *)

LEMMA FullVectors ==
    ASSUME NEW v \in [Devices -> Nat], NEW w \in [Devices -> Nat]
    PROVE  /\ CompareVersionVectors(v, w) = "equal"
                 <=> \A d \in Devices : v[d] = w[d]
           /\ CompareVersionVectors(v, w) = "local_ahead"
                 <=> /\ \A d \in Devices : w[d] <= v[d]
                     /\ ~\A d \in Devices : v[d] <= w[d]
           /\ CompareVersionVectors(v, w) = "remote_ahead"
                 <=> /\ \A d \in Devices : v[d] <= w[d]
                     /\ ~\A d \in Devices : w[d] <= v[d]
<1>1. IsVersionVector(v) /\ IsVersionVector(w)
  BY DEF IsVersionVector
<1>2. \A d \in Devices : Component(v, d) = v[d] /\ Component(w, d) = w[d]
  BY DEF Component
<1>3. AtMost(v, w) <=> \A d \in Devices : v[d] <= w[d]
  BY <1>2 DEF AtMost
<1>4. AtMost(w, v) <=> \A d \in Devices : w[d] <= v[d]
  BY <1>2 DEF AtMost
<1>5. AtMost(v, w) /\ AtMost(w, v) <=> \A d \in Devices : v[d] = w[d]
  BY <1>3, <1>4
<1> QED
  BY <1>1, <1>3, <1>4, <1>5, CompareIsPointwise

LEMMA FullIncrement ==
    ASSUME NEW v \in [Devices -> Nat], NEW d \in Devices
    PROVE  /\ IncrementVersionVector(v, d) \in [Devices -> Nat]
           /\ IncrementVersionVector(v, d)[d] = v[d] + 1
           /\ \A e \in Devices \ {d} : IncrementVersionVector(v, d)[e] = v[e]
BY DEF IncrementVersionVector, Component

LEMMA FullMerge ==
    ASSUME NEW v \in [Devices -> Nat], NEW w \in [Devices -> Nat]
    PROVE  /\ MergeVersionVectors(v, w) \in [Devices -> Nat]
           /\ \A d \in Devices : /\ MergeVersionVectors(v, w)[d] \in {v[d], w[d]}
                                 /\ MergeVersionVectors(v, w)[d] >= v[d]
                                 /\ MergeVersionVectors(v, w)[d] >= w[d]
BY DEF MergeVersionVectors, Component, Larger

-----------------------------------------------------------------------------
(* Fresh records                                                             *)

LEMMA NewNumberIsNew ==
    ASSUME NEW S, IsFiniteSet(S)
    PROVE  NewNumber(S) \in Nat \ {0} /\ NewNumber(S) \notin S
<1> DEFINE n == Cardinality(S) + 1
<1>1. Cardinality(S) \in Nat
  BY FS_CardinalityType
<1>2. \E x \in 1 .. n : x \notin S
  <2> SUFFICES ASSUME 1 .. n \subseteq S PROVE FALSE
    OBVIOUS
  <2>1. Cardinality(1 .. n) <= Cardinality(S)
    BY FS_Subset
  <2>2. Cardinality(1 .. n) = n
    BY <1>1, FS_Interval
  <2> QED
    BY <1>1, <2>1, <2>2
<1>3. NewNumber(S) \in 1 .. n /\ NewNumber(S) \notin S
  BY <1>2 DEF NewNumber
<1> QED
  BY <1>1, <1>3

LEMMA TokensAreFinite ==
    ASSUME NEW d \in Devices
    PROVE  IsFiniteSet(TokensOf(d))
<1> DEFINE Mine == {t \in Tasks : Owner[t] = d}
           tokens(t) == {task[t].mine.tok, task[t].clear.tok, task[t].back.tok}
           S == {tokens(t) : t \in Mine}
<1>1. IsFiniteSet(Mine)
  BY TasksAssumption, FS_Subset
<1>2. IsFiniteSet(S)
  <2>1. [t \in Mine |-> tokens(t)] \in Surjection(Mine, S)
    BY DEF Surjection
  <2> QED
    BY <1>1, <2>1, FS_Surjection
<1>3. \A T \in S : IsFiniteSet(T)
  <2>1. ASSUME NEW a, NEW b, NEW c PROVE IsFiniteSet({a, b, c})
    <3>1. IsFiniteSet({a}) /\ IsFiniteSet({b}) /\ IsFiniteSet({c})
      BY FS_Singleton
    <3>2. IsFiniteSet({a} \cup {b})
      BY <3>1, FS_Union
    <3>3. IsFiniteSet(({a} \cup {b}) \cup {c})
      BY <3>1, <3>2, FS_Union
    <3>4. ({a} \cup {b}) \cup {c} = {a, b, c}
      OBVIOUS
    <3> QED
      BY <3>3, <3>4
  <2>2. ASSUME NEW t \in Mine PROVE IsFiniteSet(tokens(t))
    <3> HIDE DEF Mine
    <3> QED
      BY <2>1
  <2> QED
    BY <2>2
<1>4. IsFiniteSet(UNION S)
  BY <1>2, <1>3, FS_UNION
<1>5. IsFiniteSet({cred[d].tok})
  BY FS_Singleton
<1>6. IsFiniteSet({cred[d].tok} \cup UNION S)
  BY <1>4, <1>5, FS_Union
<1> QED
  BY <1>6 DEF TokensOf

\* A fresh token differs from every one in use on the device.
Unused(n, d) == /\ n \in Nat \ {0}
                /\ n # cred[d].tok
                /\ \A t \in Tasks : Owner[t] = d =>
                       n \notin {task[t].mine.tok, task[t].clear.tok, task[t].back.tok}

LEMMA TokensAreUnused ==
    ASSUME NEW d \in Devices
    PROVE  /\ Unused(Token(d), d)
           /\ Unused(NextToken(d), d)
           /\ Token(d) # NextToken(d)
<1>1. IsFiniteSet(TokensOf(d))
  BY TokensAreFinite
<1>2. Token(d) \in Nat \ {0} /\ Token(d) \notin TokensOf(d)
  BY <1>1, NewNumberIsNew DEF Token
<1>3. IsFiniteSet({Token(d)})
  BY FS_Singleton
<1>4. IsFiniteSet(TokensOf(d) \cup {Token(d)})
  BY <1>1, <1>3, FS_Union
<1>5. /\ NextToken(d) \in Nat \ {0}
      /\ NextToken(d) \notin TokensOf(d) \cup {Token(d)}
  BY <1>4, NewNumberIsNew DEF NextToken
<1>6. ASSUME NEW n \in Nat \ {0}, n \notin TokensOf(d) PROVE Unused(n, d)
  BY <1>6 DEF Unused, TokensOf
<1> QED
  BY <1>2, <1>5, <1>6

-----------------------------------------------------------------------------
(* What a step does to the operation of its page                             *)

OnlyTask(t) == /\ task' \in [Tasks -> Task]
               /\ \A u \in Tasks \ {t} : task'[u] = task[u]

Advances(t, pc) ==
    /\ OnlyTask(t)
    /\ task'[t].pc = pc
    /\ task'[t].op = task[t].op
    /\ task'[t].live = task[t].live
    /\ task'[t].base = task[t].base
    /\ task'[t].cand = task[t].cand
    /\ task'[t].exp = task[t].exp
    /\ task'[t].mine = task[t].mine
    /\ task'[t].clear = task[t].clear
    /\ task'[t].back = task[t].back

Finishes(t) == OnlyTask(t) /\ task'[t] = Idle

TurnsToCommit(t, s) ==
    /\ OnlyTask(t)
    /\ task'[t].pc = "committing"
    /\ task'[t].op = task[t].op
    /\ task'[t].live = task[t].live
    /\ task'[t].base = None
    /\ task'[t].cand = s
    /\ task'[t].exp = IF task[t].op = "disable" THEN task[t].exp ELSE None
    /\ task'[t].mine = IF task[t].op = "disable" THEN task[t].mine ELSE NoRecord
    /\ task'[t].clear = NoRecord
    /\ task'[t].back = NoRecord

Pends(t) == IF task[t].op = "upload" THEN Finishes(t)
            ELSE TurnsToCommit(t, task[t].cand)

Looked(t, pc, exp) ==
    /\ OnlyTask(t)
    /\ task'[t].pc = pc
    /\ task'[t].op = task[t].op
    /\ task'[t].live = task[t].live
    /\ task'[t].base = task[t].base
    /\ task'[t].cand = IF pc \in {"checked", "opened"} THEN None ELSE task[t].base
    /\ task'[t].exp = exp
    /\ task'[t].mine = task[t].mine
    /\ task'[t].clear = task[t].clear
    /\ task'[t].back = task[t].back

LEMMA NoneIsTyped ==
    /\ NoRecord \in Artifact
    /\ Idle \in Task
    /\ None \notin Ids /\ Unset \notin Ids /\ None # Unset
    /\ \A n \in Nat : Unmarked(n) \in Artifact
<1>1. NoRecord \in Artifact
  BY DEF NoRecord, Artifact, None
<1>2. None \notin Ids /\ Unset \notin Ids /\ None # Unset
  BY MaxSnapshotsAssumption DEF None, Unset, Ids
<1>3. Idle \in Task
  BY <1>1 DEF Idle, Task, Phases
<1>4. \A n \in Nat : Unmarked(n) \in Artifact
  BY DEF Unmarked, Artifact
<1> QED
  BY <1>1, <1>2, <1>3, <1>4

LEMMA IdsAreKnown ==
    ASSUME TypeInv
    PROVE  /\ Known = 1 .. Len(snapshots)
           /\ Len(snapshots) \in Nat
           /\ Known \subseteq Ids
           /\ 1 \in Known
           /\ \A s \in Known : snapshots[s] \in Snapshot
BY LenProperties, ElementOfSeq, MaxSnapshotsAssumption DEF TypeInv, Known, Ids

LEMMA TaskUpdate ==
    ASSUME TypeInv, NEW t \in Tasks, NEW k \in Task,
           task' = [task EXCEPT ![t] = k]
    PROVE  OnlyTask(t) /\ task'[t] = k
BY DEF TypeInv, OnlyTask

LEMMA AdvanceType ==
    ASSUME TypeInv, NEW t \in Tasks, NEW pc \in Phases, Goes(t, pc)
    PROVE  Advances(t, pc)
<1> DEFINE k == task[t]
           new == [k EXCEPT !.pc = pc]
<1>1. k \in Task
  BY DEF TypeInv
<1>2. new \in Task
  BY <1>1 DEF Task
<1>3. task' = [task EXCEPT ![t] = new]
  BY DEF Goes, TypeInv
<1>4. OnlyTask(t) /\ task'[t] = new
  BY <1>2, <1>3, TaskUpdate
<1> QED
  BY <1>1, <1>4 DEF Advances, Task

LEMMA EndType ==
    ASSUME TypeInv, NEW t \in Tasks, Ends(t)
    PROVE  Finishes(t)
BY NoneIsTyped, TaskUpdate DEF Ends, Finishes

LEMMA CommitType ==
    ASSUME TypeInv, NEW t \in Tasks, NEW s \in Ids \cup {None}, Commits(t, s)
    PROVE  TurnsToCommit(t, s)
<1> DEFINE k == task[t]
           held == IF k.op = "disable" THEN k ELSE Idle
           new == [Idle EXCEPT !.pc = "committing", !.op = k.op,
                               !.live = k.live, !.cand = s,
                               !.exp = held.exp, !.mine = held.mine]
<1>1. k \in Task /\ held \in Task /\ Idle \in Task
  BY NoneIsTyped DEF TypeInv
<1>2. new \in Task
  <2> HIDE DEF held, k
  <2> QED
    BY <1>1 DEF Task, Phases
<1>3. /\ new.pc = "committing" /\ new.op = k.op /\ new.live = k.live
      /\ new.base = Idle.base /\ new.cand = s /\ new.exp = held.exp
      /\ new.mine = held.mine /\ new.clear = Idle.clear /\ new.back = Idle.back
  <2> HIDE DEF held, k
  <2> QED
    BY <1>1 DEF Task
<1>4. task' = [task EXCEPT ![t] = new]
  BY DEF Commits
<1>5. OnlyTask(t) /\ task'[t] = new
  BY <1>2, <1>4, TaskUpdate
<1>6. /\ Idle.exp = None /\ Idle.mine = NoRecord /\ Idle.base = None
      /\ Idle.clear = NoRecord /\ Idle.back = NoRecord
  BY DEF Idle
<1> HIDE DEF new
<1> QED
  BY <1>3, <1>5, <1>6 DEF TurnsToCommit

LEMMA PendType ==
    ASSUME TypeInv, NEW t \in Tasks, StaysPending(t)
    PROVE  Pends(t)
<1>1. task[t].cand \in Ids \cup {None}
  BY DEF TypeInv, Task
<1> QED
  BY <1>1, EndType, CommitType DEF StaysPending, Pends

LEMMA LookType ==
    ASSUME TypeInv, NEW t \in Tasks, NEW pc \in Phases,
           NEW exp \in Ids \cup {None, Unset}, Proceed(t, pc, exp)
    PROVE  Looked(t, pc, exp)
<1> DEFINE k == task[t]
           cand == IF pc \in {"checked", "opened"} THEN None ELSE k.base
           new == [k EXCEPT !.pc = pc, !.exp = exp, !.cand = cand]
<1>1. k \in Task
  BY DEF TypeInv
<1>2. cand \in Ids \cup {None}
  BY <1>1 DEF Task
<1>3. new \in Task
  <2> HIDE DEF cand
  <2> QED
    BY <1>1, <1>2 DEF Task
<1>4. task' = [task EXCEPT ![t] = new]
  BY DEF Proceed, TypeInv
<1>5. OnlyTask(t) /\ task'[t] = new
  BY <1>3, <1>4, TaskUpdate
<1>6. /\ new.pc = pc /\ new.exp = exp /\ new.cand = cand
      /\ new.op = k.op /\ new.live = k.live /\ new.base = k.base
      /\ new.mine = k.mine /\ new.clear = k.clear /\ new.back = k.back
  BY <1>1 DEF Task
<1> HIDE DEF new
<1> QED
  BY <1>5, <1>6 DEF Looked

-----------------------------------------------------------------------------
(* Snapshots are only added, and none ceases to have been remote             *)

Grows == /\ Known \subseteq Known'
         /\ \A s \in Known : snapshots'[s] = snapshots[s]
         /\ committed \subseteq committed'

LEMMA Appended ==
    ASSUME TypeInv, NEW x \in Snapshot, Len(snapshots) + 1 <= MaxSnapshots,
           snapshots' = Append(snapshots, x)
    PROVE  /\ snapshots' \in Seq(Snapshot)
           /\ Len(snapshots') = Len(snapshots) + 1
           /\ Len(snapshots') \in Ids
           /\ Known' = Known \cup {Len(snapshots) + 1}
           /\ Len(snapshots) + 1 \notin Known
           /\ \A s \in Known : snapshots'[s] = snapshots[s]
           /\ snapshots'[Len(snapshots) + 1] = x
<1>1. snapshots \in Seq(Snapshot) /\ Len(snapshots) \in Ids
  BY DEF TypeInv
<1>2. Known = 1 .. Len(snapshots) /\ Len(snapshots) \in Nat
  BY IdsAreKnown
<1>3. /\ snapshots' \in Seq(Snapshot)
      /\ Len(snapshots') = Len(snapshots) + 1
      /\ \A i \in 1 .. Len(snapshots) : snapshots'[i] = snapshots[i]
      /\ snapshots'[Len(snapshots) + 1] = x
  BY <1>1, AppendProperties
<1>4. DOMAIN snapshots' = 1 .. Len(snapshots')
  BY <1>3, LenProperties
<1>5. Len(snapshots') \in Ids
  BY <1>2, <1>3, MaxSnapshotsAssumption DEF Ids
<1>6. Known' = Known \cup {Len(snapshots) + 1} /\ Len(snapshots) + 1 \notin Known
  BY <1>2, <1>3, <1>4 DEF Known
<1> QED
  BY <1>2, <1>3, <1>5, <1>6

LEMMA SnapshotsStay ==
    ASSUME Grows, NEW s \in Known
    PROVE  /\ s \in Known'
           /\ Synced(s)' = Synced(s)
           /\ Removing(s)' <=> Removing(s)
           /\ RollbackOf(s)' = RollbackOf(s)
           /\ TargetOf(s)' = TargetOf(s)
           /\ \A e : Ready(s, e)' <=> Ready(s, e)
           /\ \A d : Count(s, d)' = Count(s, d)
           /\ \A r \in Known : /\ Under(s, r)' <=> Under(s, r)
                               /\ Relation(s, r)' = Relation(s, r)
           /\ \A op, a : Admits(op, s, a)' <=> Admits(op, s, a)
<1>1. snapshots'[s] = snapshots[s] /\ s \in Known'
  BY DEF Grows
<1>2. /\ Synced(s)' = Synced(s)
      /\ Removing(s)' <=> Removing(s)
      /\ RollbackOf(s)' = RollbackOf(s)
      /\ TargetOf(s)' = TargetOf(s)
  BY <1>1 DEF Synced, Removing, RollbackOf, TargetOf
<1>3. \A e : Ready(s, e)' <=> Ready(s, e)
  BY <1>1, <1>2 DEF Ready
<1>4. \A d : Count(s, d)' = Count(s, d)
  BY <1>1 DEF Count
<1>5. ASSUME NEW r \in Known
      PROVE  /\ Under(s, r)' <=> Under(s, r)
             /\ Relation(s, r)' = Relation(s, r)
  <2>1. snapshots'[r] = snapshots[r]
    BY DEF Grows
  <2> QED
    BY <1>1, <2>1 DEF Under, Count, Relation
<1>6. \A op, a : Admits(op, s, a)' <=> Admits(op, s, a)
  BY <1>1, <1>2 DEF Admits
<1> QED
  BY <1>1, <1>2, <1>3, <1>4, <1>5, <1>6

LEMMA FollowStays ==
    ASSUME Grows, NEW s \in Known, NEW r \in Known, MayFollow(s, r)
    PROVE  MayFollow(s, r)'
BY SnapshotsStay DEF MayFollow, Grows

\* What is known of an operation stays true while the operation stays as it is,
\* in its session or not.
SameButLive(u) ==
    /\ task'[u].pc = task[u].pc /\ task'[u].op = task[u].op
    /\ task'[u].base = task[u].base /\ task'[u].cand = task[u].cand
    /\ task'[u].exp = task[u].exp /\ task'[u].mine = task[u].mine
    /\ task'[u].clear = task[u].clear /\ task'[u].back = task[u].back
    /\ task[u].pc = "idle" => task'[u] = task[u]

LEMMA TaskStays ==
    ASSUME TypeInv, Grows, NEW u \in Tasks, TaskInv(u), SameButLive(u)
    PROVE  TaskInv(u)'
<1> DEFINE k == task[u]
           j == task'[u]
<1> USE DEF SameButLive
<1>0. committed \subseteq Known
  BY DEF TypeInv
<1>1. j.pc = "opened" => OpenedInv(k)'
  <2> SUFFICES ASSUME k.pc = "opened" PROVE OpenedInv(k)'
    OBVIOUS
  <2>1. OpenedInv(k)
    BY DEF TaskInv
  <2> QED
    BY <2>1, SnapshotsStay DEF OpenedInv, Grows
<1>2. j.pc = "checked" => CheckedInv(k)'
  <2> SUFFICES ASSUME k.pc = "checked" PROVE CheckedInv(k)'
    OBVIOUS
  <2>1. CheckedInv(k)
    BY DEF TaskInv
  <2>2. snapshots'[k.base] = snapshots[k.base]
    BY <2>1 DEF CheckedInv, Grows
  <2>3. k.op = "resolve" => MayFollow(k.base, k.exp)'
    BY <1>0, <2>1, FollowStays DEF CheckedInv
  <2> QED
    BY <2>1, <2>2, <2>3, SnapshotsStay DEF CheckedInv, Grows
<1>3. j.pc \in {"staging", "restaging", "matched"} => UploadInv(k)'
  <2> SUFFICES ASSUME k.pc \in {"staging", "restaging", "matched"}
               PROVE  UploadInv(k)'
    OBVIOUS
  <2>1. UploadInv(k)
    BY DEF TaskInv
  <2> QED
    BY <2>1, SnapshotsStay DEF UploadInv, Grows
<1>4. Tracked(u)' => TrackedInv(k, Owner[u])'
  <2> SUFFICES ASSUME Tracked(u) PROVE TrackedInv(k, Owner[u])'
    BY DEF Tracked
  <2>1. TrackedInv(k, Owner[u])
    BY DEF TaskInv
  <2>2. MakerInv(k, Owner[u]) => MakerInv(k, Owner[u])'
    <3> SUFFICES ASSUME MakerInv(k, Owner[u]) PROVE MakerInv(k, Owner[u])'
      OBVIOUS
    <3>1. k.base \in Known /\ k.cand \in Known
      BY <2>1 DEF TrackedInv
    <3>2. /\ Count(k.cand, Owner[u])' = Count(k.cand, Owner[u])
          /\ Count(k.base, Owner[u])' = Count(k.base, Owner[u])
          /\ Under(k.base, k.cand)' <=> Under(k.base, k.cand)
          /\ Removing(k.base)' <=> Removing(k.base)
          /\ Synced(k.base)' = Synced(k.base)
          /\ Ready(k.base, k.back.exp)' <=> Ready(k.base, k.back.exp)
      BY <3>1, SnapshotsStay
    <3> QED
      BY <3>1, <3>2 DEF MakerInv, Grows, HasMarker
  <2>3. RetryInv(k) => RetryInv(k)'
    BY DEF RetryInv, HasMarker
  <2>4. Ready(k.cand, k.exp)'
    BY <2>1, SnapshotsStay DEF TrackedInv
  <2> QED
    BY <2>1, <2>2, <2>3, <2>4 DEF TrackedInv, Grows, HasMarker
<1>5. j.pc = "committing" =>
        /\ k'.cand \in Known'
        /\ k'.op = "disable" /\ Removing(k.cand)' => k'.exp = TargetOf(k.cand)'
  BY SnapshotsStay DEF TaskInv, Grows
<1>6. j.pc \in {"removing", "deleting", "removed", "conflicted"} => RemovalInv(k)'
  <2> SUFFICES ASSUME k.pc \in {"removing", "deleting", "removed", "conflicted"}
               PROVE  RemovalInv(k)'
    OBVIOUS
  <2>1. RemovalInv(k)
    BY DEF TaskInv
  <2> QED
    BY <2>1, SnapshotsStay DEF RemovalInv
<1>7. /\ j.pc = "idle" => j = Idle
      /\ j.pc # "idle" => j.op # "none"
  BY DEF TaskInv
<1> QED
  BY <1>1, <1>2, <1>3, <1>4, <1>5, <1>6, <1>7 DEF TaskInv

-----------------------------------------------------------------------------
(* Types and the progress of operations: looking at the remote object        *)

LEMMA TypesStay ==
    ASSUME TypeInv, task' \in [Tasks -> Task],
           UNCHANGED <<snapshots, local, cred, session, remote, wire,
                       committed, withdrawn>>
    PROVE  TypeInv' /\ Grows
BY DEF TypeInv, Grows, Known

LEMMA OthersStay ==
    ASSUME TypeInv, TasksInv, Grows, NEW t \in Tasks, OnlyTask(t), TaskInv(t)'
    PROVE  TasksInv'
<1>1. ASSUME NEW u \in Tasks \ {t} PROVE TaskInv(u)'
  <2>1. SameButLive(u) /\ TaskInv(u)
    BY DEF OnlyTask, SameButLive, TasksInv
  <2> QED
    BY <2>1, TaskStays
<1> QED
  BY <1>1 DEF TasksInv

Started(t) ==
    /\ OnlyTask(t)
    /\ task'[t].pc \in {"opened", "checked"}
    /\ task'[t].live = TRUE
    /\ task'[t].base = local[Owner[t]]
    /\ task'[t].cand = None
    /\ task'[t].mine = cred[Owner[t]]
    /\ task'[t].clear = NoRecord
    /\ task'[t].back = NoRecord

LEMMA BeginStep ==
    ASSUME TypeInv, TasksInv, NEW t \in Tasks, NEW op \in Operations, Begin(t, op)
    PROVE  TypeInv' /\ Grows /\ TasksInv' /\ Started(t)
<1> DEFINE d == Owner[t]
           s == local[d]
           pc == IF op = "mutate" /\ ~snapshots[s].synced THEN "checked" ELSE "opened"
           new == [Idle EXCEPT !.pc = pc, !.op = op, !.live = TRUE, !.base = s,
                               !.exp = snapshots[s].exp, !.mine = cred[d]]
<1>1. d \in Devices /\ s \in Known /\ s \in Ids /\ cred[d] \in Artifact
  BY OwnerAssumption, IdsAreKnown DEF TypeInv
<1>2. snapshots[s].exp \in Ids \cup {None, Unset} /\ snapshots[s].synced \in BOOLEAN
  BY <1>1, IdsAreKnown DEF Snapshot
<1>3. Idle \in Task /\ pc \in Phases
  BY NoneIsTyped DEF Phases
<1>4. new \in Task
  <2> HIDE DEF s, pc, d
  <2> QED
    BY <1>1, <1>2, <1>3 DEF Task
<1>5. /\ new.pc = pc /\ new.op = op /\ new.live = TRUE /\ new.base = s
      /\ new.exp = snapshots[s].exp /\ new.mine = cred[d]
      /\ new.cand = Idle.cand /\ new.clear = Idle.clear /\ new.back = Idle.back
  <2> HIDE DEF s, pc, d
  <2> QED
    BY <1>3 DEF Task
<1>6. task' = [task EXCEPT ![t] = new]
  BY DEF Begin
<1>7. OnlyTask(t) /\ task'[t] = new
  BY <1>4, <1>6, TaskUpdate
<1>8. /\ UNCHANGED <<snapshots, local, cred, session, remote, wire, committed,
                     withdrawn>>
      /\ Admits(op, s, cred[d])
  BY DEF Begin
<1>9. TypeInv' /\ Grows
  BY <1>7, <1>8, TypesStay DEF OnlyTask
<1>10. Idle.cand = None /\ Idle.clear = NoRecord /\ Idle.back = NoRecord
  BY DEF Idle
<1>11. Started(t)
  <2> HIDE DEF new, s
  <2> QED
    BY <1>5, <1>7, <1>10 DEF Started, s
<1>12. TaskInv(t)'
  <2> DEFINE k == task'[t]
  <2> HIDE DEF new
  <2>1. k.pc = pc /\ k.op = op /\ k.base = s /\ k.exp = snapshots[s].exp /\ k.mine = cred[d]
    BY <1>5, <1>7
  <2>2. /\ Known' = Known /\ snapshots' = snapshots
        /\ local' = local /\ cred' = cred
    BY <1>8 DEF Known
  <2>3. Admits(op, s, cred[d])'
    BY <1>8, <2>2 DEF Admits, Removing
  <2>4. Admits(task[t].op, task[t].base, task[t].mine)'
    BY <2>1, <2>2, <2>3
  <2>8. k.pc = "opened" => OpenedInv(task[t])'
    BY <1>1, <2>1, <2>2, <2>4 DEF OpenedInv, Synced
  <2>9. k.pc = "checked" => CheckedInv(task[t])'
    BY <1>1, <2>1, <2>2, <2>4 DEF CheckedInv, Synced
  <2>5. k.op # "none"
    BY <2>1, OperationsAssumption DEF AllOperations
  <2>6. k.pc \in {"opened", "checked"}
    BY <2>1
  <2>7. ~Tracked(t)'
    BY <2>6 DEF Tracked
  <2> QED
    BY <2>5, <2>6, <2>7, <2>8, <2>9 DEF TaskInv
<1> QED
  BY <1>7, <1>9, <1>11, <1>12, OthersStay

\* The six ways to look at the remote object have the same form.
CheckStep(t) == \/ CheckForMutation(t) \/ CheckForResolution(t) \/ CheckForSetup(t)
                \/ CheckForRemoval(t) \/ CheckForCredentials(t) \/ CheckForUpload(t)

After == {"checked", "removing", "matched", "restaging", "staging"}

LEMMA LookKeeps ==
    ASSUME TypeInv, TasksInv, NEW t \in Tasks, NEW pc \in After,
           NEW exp \in Ids \cup {None, Unset}, Proceed(t, pc, exp), OnlyLooked,
           task[t].pc = "opened",
           pc = "checked" =>
              /\ task[t].op = "mutate" => exp = task[t].base /\ exp \in committed
              /\ task[t].op = "resolve" => exp \in committed /\ MayFollow(task[t].base, exp)
              /\ task[t].op = "setup" => exp = None
              /\ task[t].op = "disable" => /\ exp = task[t].base
                                           /\ task[t].base \in committed
                                           /\ ~Removing(task[t].base),
           pc = "removing" => /\ task[t].op = "disable" /\ Removing(task[t].base)
                              /\ exp = TargetOf(task[t].base),
           pc \in {"matched", "restaging", "staging"} =>
              task[t].op = "upload" /\ exp = task[t].exp,
           pc = "matched" => task[t].base \in committed
    PROVE  TypeInv' /\ Grows /\ TasksInv' /\ Looked(t, pc, exp)
<1>1. pc \in Phases
  BY DEF After, Phases
<1>2. Looked(t, pc, exp)
  BY <1>1, LookType
<1>3. UNCHANGED <<snapshots, local, cred, session, remote, wire, committed,
                  withdrawn>>
  BY DEF OnlyLooked
<1>4. TypeInv' /\ Grows
  BY <1>2, <1>3, TypesStay DEF Looked, OnlyTask
<1>5. TaskInv(t)'
  <2> DEFINE k == task[t]
             j == task'[t]
  <2>1. OpenedInv(k) /\ k.op # "none"
    BY DEF TasksInv, TaskInv
  <2>2. /\ j.pc = pc /\ j.op = k.op /\ j.base = k.base /\ j.exp = exp
        /\ j.cand = (IF pc = "checked" THEN None ELSE k.base)
        /\ j.mine = k.mine
    BY <1>2 DEF Looked, After
  <2>3. k.base \in Known /\ k.base \in Known'
    BY <2>1, <1>3 DEF OpenedInv, Known
  <2>4. j.pc = "checked" => CheckedInv(task[t])'
    <3>1. k.op = "resolve" /\ j.pc = "checked" => MayFollow(k.base, exp)'
      BY <1>3, <1>4, <2>2, <2>3, FollowStays DEF TypeInv
    <3>2. Admits(k.op, k.base, k.mine)'
      BY <1>4, <2>1, <2>2, <2>3, SnapshotsStay DEF OpenedInv
    <3> QED
      BY <1>3, <1>4, <2>1, <2>2, <2>3, <3>1, <3>2, SnapshotsStay DEF CheckedInv, OpenedInv
  <2>5. j.pc \in {"staging", "restaging", "matched"} => UploadInv(task[t])'
    <3> SUFFICES ASSUME pc \in {"staging", "restaging", "matched"}
                 PROVE  UploadInv(task[t])'
      BY <2>2
    <3>1. Ready(k.base, exp)
      BY <2>1 DEF OpenedInv, Admits, Ready, Synced
    <3>2. Ready(k.base, exp)'
      BY <1>4, <2>2, <2>3, <3>1, SnapshotsStay
    <3> QED
      BY <1>3, <2>2, <2>3, <3>2 DEF UploadInv
  <2>6. j.pc = "removing" => RemovalInv(task[t])'
    BY <1>4, <2>2, <2>3, SnapshotsStay DEF RemovalInv
  <2>7. ~Tracked(t)' /\ j.pc \in After
    BY <2>2 DEF Tracked, After
  <2> QED
    BY <2>1, <2>2, <2>4, <2>5, <2>6, <2>7 DEF TaskInv, After
<1> QED
  BY <1>2, <1>4, <1>5, OthersStay DEF Looked

LEMMA CheckSteps ==
    ASSUME TypeInv, TasksInv, NEW t \in Tasks, CheckStep(t)
    PROVE  /\ TypeInv' /\ Grows /\ TasksInv'
           /\ OnlyLooked /\ task[t].pc = "opened"
           /\ \E pc \in After : \E exp \in Ids \cup {None, Unset} : Looked(t, pc, exp)
<1> DEFINE k == task[t]
           Result == /\ TypeInv' /\ Grows /\ TasksInv'
                     /\ \E pc \in After : \E exp \in Ids \cup {None, Unset} :
                            Looked(t, pc, exp)
<1>1. k.pc = "opened" /\ OnlyLooked
  BY DEF CheckStep, Looks, CheckForMutation, CheckForResolution, CheckForSetup,
         CheckForRemoval, CheckForCredentials, CheckForUpload
<1>2. OpenedInv(k)
  BY <1>1 DEF TasksInv, TaskInv
<1>3. /\ k.base \in Known /\ k.base \in Ids /\ k.base # None
      /\ k.exp \in Ids \cup {None, Unset}
      /\ remote \in Ids \cup {None} /\ (remote # None => remote \in committed)
      /\ snapshots[k.base].removal.target \in Ids \cup {None}
  BY <1>2, IdsAreKnown, NoneIsTyped DEF OpenedInv, TypeInv, Snapshot, Task
<1>4. CASE CheckForMutation(t)
  <2>1. Proceed(t, "checked", remote) /\ k.op = "mutate" /\ remote = k.base
    BY <1>4 DEF CheckForMutation, Looks
  <2> QED
    BY <1>1, <1>3, <2>1, LookKeeps DEF After
<1>5. CASE CheckForResolution(t)
  <2>1. /\ Proceed(t, "checked", remote) /\ k.op = "resolve"
        /\ MayFollow(k.base, remote) /\ remote # None
    BY <1>5 DEF CheckForResolution, Looks, MayFollow
  <2> QED
    BY <1>1, <1>3, <2>1, LookKeeps DEF After
<1>6. CASE CheckForSetup(t)
  <2>1. Proceed(t, "checked", None) /\ k.op = "setup"
    BY <1>6 DEF CheckForSetup, Looks
  <2> QED
    BY <1>1, <2>1, LookKeeps DEF After
<1>7. CASE CheckForRemoval(t)
  <2>1. k.op = "disable"
    BY <1>7 DEF CheckForRemoval, Looks
  <2>2. CASE ~Removing(k.base) /\ remote = k.base /\ Proceed(t, "checked", k.base)
    BY <1>1, <1>3, <2>1, <2>2, LookKeeps DEF After
  <2>3. CASE /\ Removing(k.base)
             /\ Proceed(t, "removing", snapshots[k.base].removal.target)
    BY <1>1, <1>3, <2>1, <2>3, LookKeeps DEF After, TargetOf
  <2> QED
    BY <1>7, <2>2, <2>3 DEF CheckForRemoval
<1>8. CASE CheckForCredentials(t)
  <2>1. Proceed(t, "checked", k.exp) /\ k.op = "credentials"
    BY <1>8 DEF CheckForCredentials, Looks
  <2> QED
    BY <1>1, <1>3, <2>1, LookKeeps DEF After
<1>9. CASE CheckForUpload(t)
  <2>1. k.op = "upload"
    BY <1>9 DEF CheckForUpload, Looks
  <2>2. CASE remote = k.base /\ Proceed(t, "matched", k.exp)
    BY <1>1, <1>3, <2>1, <2>2, LookKeeps DEF After
  <2>3. CASE Proceed(t, "restaging", k.exp)
    BY <1>1, <1>3, <2>1, <2>3, LookKeeps DEF After
  <2>4. CASE Proceed(t, "staging", k.exp)
    BY <1>1, <1>3, <2>1, <2>4, LookKeeps DEF After
  <2> QED
    BY <1>9, <2>2, <2>3, <2>4 DEF CheckForUpload
<1> QED
  BY <1>1, <1>4, <1>5, <1>6, <1>7, <1>8, <1>9 DEF CheckStep

-----------------------------------------------------------------------------
(* Types and the progress of operations: storing a snapshot                  *)

LEMMA DeviceTypes ==
    ASSUME TypeInv, NEW t \in Tasks
    PROVE  /\ Owner[t] \in Devices
           /\ local[Owner[t]] \in Known
           /\ cred[Owner[t]] \in Artifact
           /\ task[t] \in Task
           /\ task[t].mine \in Artifact /\ task[t].clear \in Artifact
           /\ task[t].back \in Artifact
BY OwnerAssumption DEF TypeInv, Task

LEMMA RecordTypes ==
    ASSUME TypeInv, NEW t \in Tasks, task[t].op \in AllOperations \ {"upload"}
    PROVE  /\ RecordAfter(t) \in Artifact
           /\ task[t].op \in {"mutate", "disable"} => RecordAfter(t) = cred[Owner[t]]
           /\ task[t].op \in {"setup", "resolve"} =>
                  /\ RecordAfter(t) = Unmarked(Token(Owner[t]))
                  /\ ~HasMarker(RecordAfter(t))
           /\ task[t].op = "credentials" =>
                  /\ RecordAfter(t).tok = Token(Owner[t])
                  /\ RecordAfter(t).cand = cred[Owner[t]].cand
                  /\ RecordAfter(t).exp = cred[Owner[t]].exp
<1> DEFINE d == Owner[t]
<1>1. d \in Devices /\ cred[d] \in Artifact
  BY DeviceTypes
<1>2. Token(d) \in Nat
  BY <1>1, TokensAreUnused DEF Unused
<1>3. /\ Unmarked(Token(d)) \in Artifact
      /\ ~HasMarker(Unmarked(Token(d)))
  BY <1>2, NoneIsTyped DEF Unmarked, HasMarker
<1>4. /\ [cred[d] EXCEPT !.tok = Token(d)] \in Artifact
      /\ [cred[d] EXCEPT !.tok = Token(d)].tok = Token(d)
      /\ [cred[d] EXCEPT !.tok = Token(d)].cand = cred[d].cand
      /\ [cred[d] EXCEPT !.tok = Token(d)].exp = cred[d].exp
  BY <1>1, <1>2 DEF Artifact
<1>5. CASE task[t].op \in {"mutate", "disable"}
  BY <1>1, <1>5 DEF RecordAfter
<1>6. CASE task[t].op \in {"setup", "resolve"}
  BY <1>3, <1>6 DEF RecordAfter
<1>7. CASE task[t].op = "credentials"
  BY <1>4, <1>7 DEF RecordAfter
<1> QED
  BY <1>5, <1>6, <1>7 DEF AllOperations

\* The new snapshot has one change of the device more than the one it is made
\* from, and whatever the reviewed remote snapshot has.
LEMMA SuccessorFacts ==
    ASSUME TypeInv, NEW t \in Tasks, CheckedInv(task[t]),
           task[t].op \in {"mutate", "resolve", "setup", "disable"}
    PROVE  LET k == task[t]
               d == Owner[t]
               x == Successor(t)
               b == snapshots[k.base]
           IN  /\ x \in Snapshot
               /\ x.synced = (k.op = "setup" \/ b.synced)
               /\ x.removal = IF k.op = "disable"
                              THEN [target |-> k.exp, rollback |-> k.base]
                              ELSE b.removal
               /\ x.exp = IF k.op = "disable" THEN b.exp ELSE k.exp
               /\ k.op # "resolve" =>
                     /\ x.vv[d] = b.vv[d] + 1
                     /\ \A e \in Devices \ {d} : x.vv[e] = b.vv[e]
               /\ k.op = "resolve" =>
                     /\ x.vv[d] \in {b.vv[d] + 1, snapshots[k.exp].vv[d] + 1}
                     /\ x.vv[d] > b.vv[d] /\ x.vv[d] > snapshots[k.exp].vv[d]
                     /\ \A e \in Devices \ {d} :
                            /\ x.vv[e] \in {b.vv[e], snapshots[k.exp].vv[e]}
                            /\ x.vv[e] >= b.vv[e]
                            /\ x.vv[e] >= snapshots[k.exp].vv[e]
<1> DEFINE k == task[t]
           d == Owner[t]
           b == snapshots[k.base]
           up == IncrementVersionVector(b.vv, d)
           next == [b EXCEPT !.vv = up]
<1>1. d \in Devices /\ k \in Task
  BY DeviceTypes
<1>2. b \in Snapshot /\ b.vv \in [Devices -> Nat]
  BY IdsAreKnown DEF CheckedInv, Snapshot
<1>3. /\ up \in [Devices -> Nat] /\ up[d] = b.vv[d] + 1
      /\ \A e \in Devices \ {d} : up[e] = b.vv[e]
  BY <1>1, <1>2, FullIncrement
<1>4. /\ next \in Snapshot /\ next.vv = up /\ next.exp = b.exp
      /\ next.synced = b.synced /\ next.removal = b.removal
  <2> HIDE DEF up, b
  <2> QED
    BY <1>2, <1>3 DEF Snapshot
<1>5. k.exp \in Ids \cup {None, Unset} /\ k.base \in Ids
  BY <1>1, IdsAreKnown DEF Task, CheckedInv
<1>6. CASE k.op = "mutate"
  <2>1. Successor(t) = [next EXCEPT !.exp = k.exp]
    BY <1>6 DEF Successor
  <2> HIDE DEF next, up, b
  <2>2. /\ Successor(t) \in Snapshot /\ Successor(t).vv = up
        /\ Successor(t).exp = k.exp /\ Successor(t).synced = b.synced
        /\ Successor(t).removal = b.removal
    BY <1>4, <1>5, <2>1 DEF Snapshot
  <2>3. b.synced \in BOOLEAN
    BY <1>2 DEF Snapshot
  <2> QED
    BY <1>3, <1>6, <2>2, <2>3 DEF b
<1>7. CASE k.op = "setup"
  <2>1. Successor(t) = [next EXCEPT !.exp = None, !.synced = TRUE]
    BY <1>7 DEF Successor
  <2>2. k.exp = None
    BY <1>7 DEF CheckedInv
  <2> HIDE DEF next, up, b
  <2>3. /\ Successor(t) \in Snapshot /\ Successor(t).vv = up
        /\ Successor(t).exp = None /\ Successor(t).synced = TRUE
        /\ Successor(t).removal = b.removal
    BY <1>4, <2>1 DEF Snapshot
  <2> QED
    BY <1>3, <1>7, <2>2, <2>3 DEF b
<1>8. CASE k.op = "disable"
  <2>1. Successor(t) = [next EXCEPT !.removal = [target |-> k.exp, rollback |-> k.base]]
    BY <1>8 DEF Successor
  <2>2. k.exp = k.base
    BY <1>8 DEF CheckedInv
  <2>3. [target |-> k.exp, rollback |-> k.base] \in
           [target : Ids \cup {None}, rollback : Ids \cup {None}]
    BY <1>5, <2>2
  <2> HIDE DEF next, up, b
  <2>4. /\ Successor(t) \in Snapshot /\ Successor(t).vv = up
        /\ Successor(t).exp = b.exp /\ Successor(t).synced = b.synced
        /\ Successor(t).removal = [target |-> k.exp, rollback |-> k.base]
    BY <1>4, <2>1, <2>3 DEF Snapshot
  <2>5. b.synced \in BOOLEAN
    BY <1>2 DEF Snapshot
  <2> QED
    BY <1>3, <1>8, <2>4, <2>5 DEF b
<1>9. CASE k.op = "resolve"
  <2> DEFINE r == snapshots[k.exp]
             both == MergeVersionVectors(b.vv, r.vv)
             top == IncrementVersionVector(both, d)
  <2>1. k.exp \in Known /\ k.exp \in Ids
    BY <1>9, IdsAreKnown DEF CheckedInv, TypeInv
  <2>2. r.vv \in [Devices -> Nat]
    BY <2>1, IdsAreKnown DEF Snapshot
  <2>3. /\ both \in [Devices -> Nat]
        /\ \A e \in Devices : /\ both[e] \in {b.vv[e], r.vv[e]}
                              /\ both[e] >= b.vv[e] /\ both[e] >= r.vv[e]
    BY <1>2, <2>2, FullMerge
  <2>4. /\ top \in [Devices -> Nat] /\ top[d] = both[d] + 1
        /\ \A e \in Devices \ {d} : top[e] = both[e]
    BY <1>1, <2>3, FullIncrement
  <2>5. Successor(t) = [next EXCEPT !.exp = k.exp, !.vv = top]
    BY <1>9 DEF Successor
  <2>6. /\ Successor(t) \in Snapshot /\ Successor(t).vv = top
        /\ Successor(t).exp = k.exp /\ Successor(t).synced = b.synced
        /\ Successor(t).removal = b.removal
    <3> HIDE DEF next, up, b, top
    <3> QED
      BY <1>4, <1>5, <2>4, <2>5 DEF Snapshot
  <2>7. b.synced \in BOOLEAN
    BY <1>2 DEF Snapshot
  <2>8. /\ top[d] \in {b.vv[d] + 1, r.vv[d] + 1}
        /\ top[d] > b.vv[d] /\ top[d] > r.vv[d]
    <3>1. b.vv[d] \in Nat /\ r.vv[d] \in Nat
      BY <1>1, <1>2, <2>2 DEF Snapshot
    <3>2. both[d] \in {b.vv[d], r.vv[d]} /\ both[d] >= b.vv[d] /\ both[d] >= r.vv[d]
      BY <1>1, <2>3
    <3>3. top[d] = both[d] + 1
      BY <2>4
    <3> HIDE DEF top, both, b, r
    <3> QED
      BY <3>1, <3>2, <3>3
  <2>9. \A e \in Devices \ {d} : /\ top[e] \in {b.vv[e], r.vv[e]}
                                 /\ top[e] >= b.vv[e] /\ top[e] >= r.vv[e]
    BY <2>3, <2>4
  <2> HIDE DEF top, b, r
  <2> QED
    BY <1>9, <2>6, <2>7, <2>8, <2>9 DEF b, r
<1> QED
  BY <1>6, <1>7, <1>8, <1>9

New == Len(snapshots) + 1

TurnsToUpload(t) ==
    /\ OnlyTask(t)
    /\ task'[t].pc = "persisted"
    /\ task'[t].op = task[t].op
    /\ task'[t].live = task[t].live
    /\ task'[t].base = task[t].base
    /\ task'[t].cand = New
    /\ task'[t].exp = task[t].exp
    /\ task'[t].mine = RecordAfter(t)
    /\ task'[t].clear = task[t].clear
    /\ task'[t].back = cred[Owner[t]]

\* The new snapshot is of the device and stored by it.
Added(d) ==
    /\ snapshots' \in Seq(Snapshot) /\ Len(snapshots') \in Ids
    /\ Known' = Known \cup {New}
    /\ New \in Ids /\ New \notin Known /\ New # 1
    /\ Grows
    /\ local' = [local EXCEPT ![d] = New]
    /\ UNCHANGED <<session, remote, wire, committed, withdrawn>>

LEMMA AddedFacts ==
    ASSUME TypeInv, NEW d \in Devices, NEW x \in Snapshot, New <= MaxSnapshots,
           snapshots' = Append(snapshots, x), local' = [local EXCEPT ![d] = New],
           UNCHANGED <<session, remote, wire, committed, withdrawn>>
    PROVE  Added(d) /\ snapshots'[New] = x
<1>1. /\ snapshots' \in Seq(Snapshot) /\ Len(snapshots') \in Ids
      /\ Known' = Known \cup {New} /\ New \notin Known
      /\ \A s \in Known : snapshots'[s] = snapshots[s]
      /\ snapshots'[New] = x
  BY Appended DEF New
<1>2. New \in Ids /\ New # 1
  BY <1>1, IdsAreKnown DEF New, Ids
<1>3. Grows
  BY <1>1 DEF Grows
<1> QED
  BY <1>1, <1>2, <1>3 DEF Added

Persisted(t) ==
    /\ Added(Owner[t])
    /\ snapshots'[New] = Successor(t)
    /\ cred' = [cred EXCEPT ![Owner[t]] = RecordAfter(t)]
    /\ RecordAfter(t) \in Artifact
    /\ task[t].pc = "checked" /\ task[t].live
    /\ task[t].op \in {"mutate", "resolve", "setup", "disable"}
    /\ task[t].base = local[Owner[t]]
    /\ RecordFits(t)
    /\ IF task[t].op # "disable" /\ Successor(t).synced
       THEN TurnsToUpload(t) ELSE TurnsToCommit(t, New)

LEMMA PersistEffect ==
    ASSUME TypeInv, TasksInv, NEW t \in Tasks, Persist(t)
    PROVE  Persisted(t) /\ CheckedInv(task[t])
<1> DEFINE d == Owner[t]
           k == task[t]
<1>1. /\ k.pc = "checked" /\ k.live /\ local[d] = k.base
      /\ k.op \in {"mutate", "resolve", "setup", "disable"}
      /\ New <= MaxSnapshots
      /\ snapshots' = Append(snapshots, Successor(t))
      /\ local' = [local EXCEPT ![d] = New]
      /\ cred' = [cred EXCEPT ![d] = RecordAfter(t)]
      /\ UNCHANGED <<session, remote, wire, committed, withdrawn>>
      /\ RecordFits(t)
  BY DEF Persist, MayStore, InSession, Store, New
<1>2. CheckedInv(k)
  BY <1>1 DEF TasksInv, TaskInv
<1>3. Successor(t) \in Snapshot /\ d \in Devices
  BY <1>1, <1>2, SuccessorFacts, DeviceTypes
<1>4. Added(d) /\ snapshots'[New] = Successor(t)
  BY <1>1, <1>3, AddedFacts
<1>5. RecordAfter(t) \in Artifact
  BY <1>1, RecordTypes DEF AllOperations
<1>6. New \in Ids
  BY <1>4 DEF Added
<1>7. CASE k.op # "disable" /\ Successor(t).synced
  <2> DEFINE new == [k EXCEPT !.pc = "persisted", !.cand = New,
                              !.mine = RecordAfter(t), !.back = cred[d]]
  <2>1. task' = [task EXCEPT ![t] = new]
    BY <1>7 DEF Persist, New, TypeInv
  <2>2. k \in Task /\ cred[d] \in Artifact
    BY DeviceTypes
  <2>3. /\ new \in Task /\ new.pc = "persisted" /\ new.op = k.op
        /\ new.live = k.live /\ new.base = k.base /\ new.cand = New
        /\ new.exp = k.exp /\ new.mine = RecordAfter(t)
        /\ new.clear = k.clear /\ new.back = cred[d]
    <3> HIDE DEF k, d
    <3> QED
      BY <1>5, <1>6, <2>2 DEF Task, Phases
  <2>4. OnlyTask(t) /\ task'[t] = new
    BY <2>1, <2>3, TaskUpdate
  <2>5. TurnsToUpload(t)
    <3> HIDE DEF new
    <3> QED
      BY <2>3, <2>4 DEF TurnsToUpload
  <2> QED
    BY <1>1, <1>2, <1>4, <1>5, <1>7, <2>5 DEF Persisted
<1>8. CASE ~(k.op # "disable" /\ Successor(t).synced)
  <2>1. Commits(t, New)
    BY <1>8 DEF Persist, New
  <2>2. TurnsToCommit(t, New)
    BY <1>6, <2>1, CommitType
  <2> QED
    BY <1>1, <1>2, <1>4, <1>5, <1>8, <2>2 DEF Persisted
<1> QED
  BY <1>7, <1>8

\* Counters are numbers and the order of snapshots is transitive.
LEMMA UnderFacts ==
    ASSUME TypeInv
    PROVE  /\ \A s \in Known, d \in Devices : Count(s, d) \in Nat
           /\ \A s \in Known : Under(s, s)
           /\ \A s, r, q \in Known : Under(s, r) /\ Under(r, q) => Under(s, q)
<1>1. \A s \in Known, d \in Devices : Count(s, d) \in Nat
  BY IdsAreKnown DEF Count, Snapshot
<1>2. \A s \in Known : Under(s, s)
  BY <1>1 DEF Under
<1>3. ASSUME NEW s \in Known, NEW r \in Known, NEW q \in Known,
             Under(s, r), Under(r, q)
      PROVE  Under(s, q)
  <2> SUFFICES ASSUME NEW d \in Devices PROVE Count(s, d) <= Count(q, d)
    BY DEF Under
  <2>1. Count(s, d) <= Count(r, d) /\ Count(r, d) <= Count(q, d)
    BY <1>3 DEF Under
  <2>2. Count(s, d) \in Nat /\ Count(r, d) \in Nat /\ Count(q, d) \in Nat
    BY <1>1
  <2> QED
    BY <2>1, <2>2
<1> QED
  BY <1>1, <1>2, <1>3

\* No snapshot is made from a removal mark but the end of the removal.
LEMMA BaseIsNoMark ==
    ASSUME SnapshotsInv, NEW t \in Tasks, CheckedInv(task[t]),
           task[t].op \in {"mutate", "resolve", "setup", "disable"}
    PROVE  ~Removing(task[t].base)
BY DEF SnapshotsInv, SnapshotInv, CheckedInv, Admits, Synced

\* What an addition says in terms of the old and the new snapshots.
LEMMA SuccessorCounts ==
    ASSUME TypeInv, NEW t \in Tasks, Persisted(t), CheckedInv(task[t]),
           NEW n, n = New
    PROVE  LET k == task[t]
               d == Owner[t]
           IN  /\ \A s \in Known, e \in Devices :
                      Count(s, e)' = Count(s, e) /\ Count(s, e) \in Nat
               /\ Synced(n)' = (k.op = "setup" \/ Synced(k.base))
               /\ k.op # "disable" => RollbackOf(n)' = RollbackOf(k.base)
               /\ k.op = "disable" => RollbackOf(n)' = k.base /\ TargetOf(n)' = k.base
               /\ snapshots'[n].exp = IF k.op = "disable" THEN snapshots[k.base].exp
                                        ELSE k.exp
               /\ k.op # "resolve" =>
                     /\ Count(n, d)' = Count(k.base, d) + 1
                     /\ \A e \in Devices \ {d} : Count(n, e)' = Count(k.base, e)
               /\ k.op = "resolve" =>
                     /\ Count(n, d)' \in {Count(k.base, d) + 1, Count(k.exp, d) + 1}
                     /\ Count(n, d)' > Count(k.base, d)
                     /\ Count(n, d)' > Count(k.exp, d)
                     /\ \A e \in Devices \ {d} :
                            /\ Count(n, e)' \in {Count(k.base, e), Count(k.exp, e)}
                            /\ Count(n, e)' >= Count(k.base, e)
                            /\ Count(n, e)' >= Count(k.exp, e)
<1> DEFINE k == task[t]
           d == Owner[t]
           x == Successor(t)
<1>1. /\ snapshots'[n] = x
      /\ k.op \in {"mutate", "resolve", "setup", "disable"}
      /\ Grows
  BY DEF Persisted, Added
<1>2. \A s \in Known, e \in Devices : Count(s, e)' = Count(s, e) /\ Count(s, e) \in Nat
  BY <1>1, SnapshotsStay, UnderFacts
<1>3. /\ Synced(n)' = x.synced
      /\ RollbackOf(n)' = x.removal.rollback
      /\ TargetOf(n)' = x.removal.target
      /\ \A e : Count(n, e)' = x.vv[e]
  BY <1>1 DEF Synced, RollbackOf, TargetOf, Count
<1>4. k.base \in Known /\ (k.op = "resolve" => k.exp \in Known)
  BY DEF CheckedInv, TypeInv
<1>5. k.op = "disable" => k.exp = k.base
  BY DEF CheckedInv
<1>6. /\ x.synced = (k.op = "setup" \/ Synced(k.base))
      /\ x.removal = IF k.op = "disable"
                     THEN [target |-> k.exp, rollback |-> k.base]
                     ELSE snapshots[k.base].removal
      /\ x.exp = IF k.op = "disable" THEN snapshots[k.base].exp ELSE k.exp
  BY <1>1, SuccessorFacts DEF Synced
<1>7. k.op # "resolve" =>
         /\ x.vv[d] = Count(k.base, d) + 1
         /\ \A e \in Devices \ {d} : x.vv[e] = Count(k.base, e)
  BY <1>1, SuccessorFacts DEF Count
<1>8. k.op = "resolve" =>
         /\ x.vv[d] \in {Count(k.base, d) + 1, Count(k.exp, d) + 1}
         /\ x.vv[d] > Count(k.base, d)
         /\ x.vv[d] > Count(k.exp, d)
         /\ \A e \in Devices \ {d} : /\ x.vv[e] \in {Count(k.base, e), Count(k.exp, e)}
                                     /\ x.vv[e] >= Count(k.base, e)
                                     /\ x.vv[e] >= Count(k.exp, e)
  BY <1>1, SuccessorFacts DEF Count
<1> HIDE DEF x, k, d
<1>9. k.op = "disable" => RollbackOf(n)' = k.base /\ TargetOf(n)' = k.base
  BY <1>3, <1>5, <1>6
<1>10. k.op # "disable" => RollbackOf(n)' = RollbackOf(k.base)
  BY <1>3, <1>6 DEF RollbackOf
<1>11. snapshots'[n].exp = IF k.op = "disable" THEN snapshots[k.base].exp ELSE k.exp
  BY <1>1, <1>6
<1> QED
  BY <1>2, <1>3, <1>6, <1>7, <1>8, <1>9, <1>10, <1>11 DEF k, d

LEMMA RelationFacts ==
    ASSUME TypeInv, NEW s \in Known, NEW r \in Known
    PROVE  /\ Relation(s, r) = "equal" <=> Under(s, r) /\ Under(r, s)
           /\ Relation(s, r) = "remote_ahead" <=> Under(s, r) /\ ~Under(r, s)
           /\ Relation(s, r) = "local_ahead" <=> Under(r, s) /\ ~Under(s, r)
<1>1. snapshots[s].vv \in [Devices -> Nat] /\ snapshots[r].vv \in [Devices -> Nat]
  BY IdsAreKnown DEF Snapshot
<1>2. /\ Under(s, r) <=> \A d \in Devices : snapshots[s].vv[d] <= snapshots[r].vv[d]
      /\ Under(r, s) <=> \A d \in Devices : snapshots[r].vv[d] <= snapshots[s].vv[d]
  BY DEF Under, Count
<1>3. Under(s, r) /\ Under(r, s) <=> \A d \in Devices : snapshots[s].vv[d] = snapshots[r].vv[d]
  <2>1. \A d \in Devices : snapshots[s].vv[d] \in Nat /\ snapshots[r].vv[d] \in Nat
    BY <1>1
  <2> QED
    BY <1>2, <2>1
<1> QED
  BY <1>1, <1>2, <1>3, FullVectors DEF Relation

\* The new snapshot counts one more change of its device, and of the others what
\* the old one or the reviewed one counts.
LEMMA NewCounts ==
    ASSUME IInv, NEW t \in Tasks, Persisted(t), CheckedInv(task[t]),
           NEW n, n = New
    PROVE  /\ Count(n, Owner[t])' = Count(task[t].base, Owner[t]) + 1
           /\ \A e \in Devices \ {Owner[t]} :
                 /\ Count(n, e)' >= Count(task[t].base, e)
                 /\ \E r \in committed \cup {task[t].base} : Count(n, e)' = Count(r, e)
<1> DEFINE k == task[t]
           d == Owner[t]
<1>1. TypeInv /\ CountsInv /\ d \in Devices
  BY DeviceTypes DEF IInv
<1>2. k.base \in Known /\ k.base = local[d]
  BY DEF CheckedInv, Persisted
<1>3. CASE k.op # "resolve"
  BY <1>1, <1>2, <1>3, SuccessorCounts, UnderFacts
<1>4. CASE k.op = "resolve"
  <2>1. k.exp \in committed /\ k.exp \in Known
    BY <1>1, <1>4 DEF CheckedInv, TypeInv
  <2>2. Count(k.exp, d) <= Count(k.base, d)
    BY <1>1, <1>2, <2>1 DEF CountsInv, Others
  <2>3. /\ Count(n, d)' \in {Count(k.base, d) + 1, Count(k.exp, d) + 1}
        /\ Count(n, d)' > Count(k.base, d)
        /\ \A e \in Devices \ {d} :
               /\ Count(n, e)' \in {Count(k.base, e), Count(k.exp, e)}
               /\ Count(n, e)' >= Count(k.base, e)
    BY <1>1, <1>4, SuccessorCounts
  <2>4. Count(k.exp, d) \in Nat /\ Count(k.base, d) \in Nat
    BY <1>1, <1>2, <2>1, UnderFacts
  <2>5. Count(n, d)' = Count(k.base, d) + 1
    BY <2>2, <2>3, <2>4
  <2> QED
    BY <2>1, <2>3, <2>5
<1> QED
  BY <1>3, <1>4

\* The new snapshot is later than the one it is made from and than what it is
\* to replace, and a removal mark is put on a snapshot that was remote.
LEMMA PersistSnapshot ==
    ASSUME IInv, NEW t \in Tasks, Persisted(t), CheckedInv(task[t]),
           NEW n, n = New, NEW b, b = task[t].base
    PROVE  /\ SnapshotInv(n)'
           /\ \A s \in Known : Under(s, b) => Under(s, n)' /\ ~Under(n, s)'
           /\ task[t].op # "disable" => ~Removing(n)'
           /\ task[t].op = "disable" => /\ Removing(n)'
                                        /\ OneMore(Owner[t], n, b)'
                                        /\ RollbackOf(n)' = b
                                        /\ b \in committed
<1> DEFINE k == task[t]
           d == Owner[t]
<1>1. /\ TypeInv /\ SnapshotsInv /\ d \in Devices
      /\ \A s \in Known : SnapshotInv(s)
  BY DeviceTypes DEF IInv, SnapshotsInv
<1>2. /\ b \in Known /\ Grows /\ Known' = Known \cup {n} /\ n \notin Known
      /\ committed' = committed /\ n # 1 /\ n \in Ids /\ 1 \in Known
      /\ k.op \in {"mutate", "resolve", "setup", "disable"}
  BY <1>1, IdsAreKnown DEF CheckedInv, Persisted, Added
<1>3. ~Removing(b)
  BY <1>1, <1>2, BaseIsNoMark
<1>4. /\ \A s \in Known, e \in Devices : Count(s, e)' = Count(s, e) /\ Count(s, e) \in Nat
      /\ Count(n, d)' = Count(b, d) + 1
      /\ \A e \in Devices \ {d} : Count(n, e)' >= Count(b, e)
      /\ \A e \in Devices \ {d} : \E r \in committed \cup {b} : Count(n, e)' = Count(r, e)
  BY <1>1, NewCounts, SuccessorCounts
<1>5. committed \subseteq Known
  BY <1>1 DEF TypeInv
<1>6. \A e \in Devices : Count(n, e)' \in Nat /\ Count(n, e)' >= Count(b, e)
  BY <1>1, <1>2, <1>4, <1>5
<1>7. ASSUME NEW s \in Known, Under(s, b) PROVE Under(s, n)' /\ ~Under(n, s)'
  <2>1. \A e \in Devices : Count(s, e) <= Count(b, e)
    BY <1>7 DEF Under
  <2>2. \A e \in Devices : Count(s, e)' <= Count(n, e)'
    BY <1>2, <1>4, <1>6, <2>1
  <2>3. ~(Count(n, d)' <= Count(s, d)')
    BY <1>1, <1>2, <1>4, <2>1
  <2> QED
    BY <1>1, <2>2, <2>3 DEF Under
<1>8. Under(1, b) /\ Under(b, b)
  BY <1>1, <1>2, UnderFacts DEF SnapshotInv
<1>9. /\ snapshots'[n].exp \in Known \cup {None, Unset}
      /\ snapshots'[n].exp \in Known => Under(snapshots'[n].exp, b)
                                      \/ /\ k.op = "resolve"
                                         /\ snapshots'[n].exp = k.exp
  <2>1. snapshots'[n].exp = IF k.op = "disable" THEN snapshots[k.base].exp ELSE k.exp
    BY <1>1, SuccessorCounts
  <2>2. CASE k.op = "disable" \/ (k.op = "mutate" /\ ~Synced(b))
    <3>1. snapshots'[n].exp = snapshots[b].exp
      BY <2>1, <2>2 DEF CheckedInv
    <3> QED
      BY <1>1, <1>2, <3>1 DEF SnapshotInv
  <2>3. CASE k.op = "mutate" /\ Synced(b)
    BY <1>2, <1>8, <2>1, <2>3 DEF CheckedInv
  <2>4. CASE k.op = "setup"
    BY <1>1, <2>1, <2>4, IdsAreKnown, NoneIsTyped DEF CheckedInv
  <2>5. CASE k.op = "resolve"
    BY <1>5, <2>1, <2>5 DEF CheckedInv
  <2> QED
    BY <1>2, <2>2, <2>3, <2>4, <2>5
<1>10. ASSUME k.op = "resolve", NEW r, r = k.exp
       PROVE  r \in Known /\ Under(r, n)' /\ ~Under(n, r)'
  <2>1. r \in Known
    BY <1>5, <1>10 DEF CheckedInv
  <2>2. /\ Count(n, d)' > Count(r, d)
        /\ \A e \in Devices \ {d} : Count(n, e)' >= Count(r, e)
    BY <1>1, <1>10, SuccessorCounts
  <2>3. \A e \in Devices : Count(n, e)' >= Count(r, e)
    BY <1>1, <1>4, <1>6, <2>1, <2>2
  <2>4. \A e \in Devices : Count(r, e)' <= Count(n, e)'
    BY <1>4, <1>6, <2>1, <2>3
  <2>5. ~(Count(n, d)' <= Count(r, d)')
    BY <1>1, <1>4, <1>6, <2>1, <2>2
  <2> QED
    BY <1>1, <2>1, <2>4, <2>5 DEF Under
<1>11. ASSUME NEW e, e = snapshots'[n].exp, e \in Known'
       PROVE  Under(e, n)' /\ ~Under(n, e)'
  <2>1. e \in Known
    BY <1>2, <1>9, <1>11, NoneIsTyped
  <2>2. Under(e, b) \/ (k.op = "resolve" /\ e = k.exp)
    BY <1>9, <1>11, <2>1
  <2> QED
    BY <1>7, <1>10, <2>1, <2>2
<1>12. k.op # "disable" => ~Removing(n)'
  <2>1. k.op # "disable" => RollbackOf(n)' = RollbackOf(b)
    BY <1>1, SuccessorCounts
  <2> QED
    BY <1>3, <2>1 DEF RollbackOf, Removing
<1>13. ASSUME k.op = "disable"
       PROVE  /\ Removing(n)' /\ OneMore(d, n, b)'
              /\ RollbackOf(n)' = b /\ TargetOf(n)' = b
              /\ b \in committed /\ Synced(n)'
  <2>1. RollbackOf(n)' = b /\ TargetOf(n)' = b
    BY <1>1, <1>13, SuccessorCounts
  <2>2. Removing(n)'
    BY <1>2, <2>1, IdsAreKnown, <1>1, NoneIsTyped DEF RollbackOf, Removing
  <2>3. b \in committed /\ Synced(b)
    BY <1>13 DEF CheckedInv, Admits, Synced
  <2>4. Synced(n)'
    BY <1>1, <2>3, SuccessorCounts
  <2>5. OneMore(d, n, b)'
    <3>1. \A e \in Devices \ {d} : Count(n, e)' = Count(b, e)'
      BY <1>1, <1>2, <1>4, <1>13, SuccessorCounts
    <3>2. Count(n, d)' = Count(b, d)' + 1
      BY <1>1, <1>2, <1>4
    <3>3. d' = d
      OBVIOUS
    <3> QED
      BY <3>1, <3>2 DEF OneMore
  <2> QED
    BY <2>1, <2>2, <2>3, <2>4, <2>5
<1>14. SnapshotInv(n)'
  <2>1. snapshots'[n].exp \in Known' \cup {None, Unset}
    BY <1>2, <1>9
  <2>2. Under(1, n)' /\ ~Under(n, 1)'
    BY <1>2, <1>7, <1>8
  <2>3. Removing(n)' =>
          /\ RollbackOf(n)' = b /\ b \in committed' /\ ~Removing(b)'
          /\ TargetOf(n)' = b /\ Synced(n)' /\ Under(b, n)' /\ n \notin committed'
    BY <1>2, <1>3, <1>5, <1>7, <1>8, <1>12, <1>13, SnapshotsStay
  <2> QED
    BY <1>11, <2>1, <2>2, <2>3 DEF SnapshotInv
<1> QED
  BY <1>7, <1>12, <1>13, <1>14

-----------------------------------------------------------------------------
(* What the parts of the invariant depend on                                 *)

LEMMA ExpandIInv ==
    IInv <=> /\ TypeInv /\ SnapshotsInv /\ TasksInv /\ WireInv
             /\ CountsInv /\ TokensInv /\ ClaimsInv /\ MarkersInv
             /\ LiveInv /\ SessionInv /\ WithdrawnInv
BY DEF IInv

\* A removal mark is put on a snapshot that was remote, so its content is known.
LEMMA ContentStays ==
    ASSUME TypeInv, SnapshotsInv, Grows, NEW s \in Known
    PROVE  /\ Content(s) \in Known
           /\ Content(s)' = Content(s)
           /\ \A r \in Known : Under(Content(s), Content(r))' <=> Under(Content(s), Content(r))
<1>1. \A r \in Known : Content(r) \in Known /\ Content(r)' = Content(r)
  <2> SUFFICES ASSUME NEW r \in Known PROVE Content(r) \in Known /\ Content(r)' = Content(r)
    OBVIOUS
  <2>1. Content(r) \in Known
    BY DEF SnapshotsInv, SnapshotInv, Content, RollbackOf, TypeInv
  <2>2. Content(r)' = Content(r)
    BY SnapshotsStay DEF Content, RollbackOf
  <2> QED
    BY <2>1, <2>2
<1>2. ASSUME NEW x \in Known, NEW y \in Known PROVE Under(x, y)' <=> Under(x, y)
  BY SnapshotsStay
<1>3. ASSUME NEW r \in Known
      PROVE  Under(Content(s), Content(r))' <=> Under(Content(s), Content(r))
  <2>1. PICK x \in Known : x = Content(s)
    BY <1>1
  <2>2. PICK y \in Known : y = Content(r)
    BY <1>1
  <2>3. x = Content(s)' /\ y = Content(r)'
    BY <1>1, <2>1, <2>2
  <2>4. Under(Content(s), Content(r))' <=> Under(x, y)'
    BY <2>3
  <2> QED
    BY <1>2, <2>1, <2>2, <2>4
<1> QED
  BY <1>1, <1>3

LEMMA SnapshotsKept ==
    ASSUME TypeInv, SnapshotsInv, UNCHANGED <<snapshots, local, committed>>
    PROVE  SnapshotsInv'
BY DEF SnapshotsInv, SnapshotInv, Known, Removing, RollbackOf, TargetOf, Synced,
       Under, OneMore, Count

\* The makers are among those there were, with the same snapshots.
SameMakers ==
    \A t \in Tasks : Maker(t)' => /\ Maker(t)
                                  /\ task'[t].base = task[t].base
                                  /\ task'[t].cand = task[t].cand

LEMMA CountsKept ==
    ASSUME CountsInv, UNCHANGED <<snapshots, local, committed>>, SameMakers
    PROVE  CountsInv'
<1>1. \A d : Others(d)' = Others(d)
  BY DEF Others
<1>2. \A d, s : /\ Count(s, d)' = Count(s, d)
                /\ Unseen(d, s)' <=> Unseen(d, s)
  BY <1>1 DEF Unseen, Count
<1>3. \A s, r : Under(s, r)' <=> Under(s, r)
  BY <1>2 DEF Under
<1>4. \A d \in Devices : \A r \in Others(d)' : Count(r, d)' <= Count(local[d], d)'
  BY <1>1, <1>2 DEF CountsInv
<1>5. \A d \in Devices : Unseen(d, local[d])'
  BY <1>2 DEF CountsInv
<1>6. \A t \in Tasks : (/\ Maker(t)
                        /\ local[Owner[t]] = task[t].cand
                        /\ task[t].cand \notin committed)'
                       => Unseen(Owner[t], task[t].base)'
  BY <1>2 DEF CountsInv, SameMakers
<1>7. \A s, r \in committed' : Under(s, r)' /\ Under(r, s)' => s = r
  BY <1>3 DEF CountsInv
<1> QED
  BY <1>4, <1>5, <1>6, <1>7 DEF CountsInv

\* The records of a device after a step of one of its operations: those it had,
\* the one it found, none, or fresh ones.
Holding == {"staged", "sent", "landed"}
Tokens(t) == {task[t].mine.tok, task[t].clear.tok, task[t].back.tok}
Comes(n, t) == \/ n = 0 \/ n \in Tokens(t)
               \/ n = cred[Owner[t]].tok
               \/ Unused(n, Owner[t])

LEMMA TokensKept ==
    ASSUME TypeInv, TokensInv, NEW t \in Tasks,
           \A u \in Tasks \ {t} : SameButLive(u),
           \A d \in Devices \ {Owner[t]} : cred'[d] = cred[d],
           Comes(cred'[Owner[t]].tok, t),
           \A n \in Tokens(t)' : Comes(n, t),
           task'[t].pc \in Holding =>
              /\ task'[t].clear.tok # cred'[Owner[t]].tok
              /\ \/ task[t].pc \in Holding /\ task'[t].clear = task[t].clear
                 \/ Unused(task'[t].clear.tok, Owner[t])
    PROVE  TokensInv'
<1> DEFINE d == Owner[t]
<1>1. ASSUME NEW u \in Tasks, task'[u].pc \in Holding
      PROVE  /\ task'[u].clear.tok # 0
             /\ task'[u].clear.tok # cred'[Owner[u]].tok
             /\ \A v \in Tasks \ {u} : Owner[v] = Owner[u] =>
                    task'[u].clear.tok \notin Tokens(v)'
  <2>1. CASE u = t
    <3>1. /\ task'[t].clear.tok # 0
          /\ \A v \in Tasks \ {t} : Owner[v] = d => task'[t].clear.tok \notin Tokens(v)
      <4>1. CASE task[t].pc \in Holding /\ task'[t].clear = task[t].clear
        BY <4>1 DEF TokensInv, Tokens, Holding
      <4>2. CASE Unused(task'[t].clear.tok, d)
        BY <4>2 DEF Unused, Tokens
      <4> QED
        BY <1>1, <2>1, <4>1, <4>2
    <3>2. \A v \in Tasks \ {t} : Tokens(v)' = Tokens(v)
      BY DEF SameButLive, Tokens
    <3> QED
      BY <1>1, <2>1, <3>1, <3>2
  <2>2. CASE u # t
    <3> DEFINE c == task[u].clear.tok
    <3>1. task[u].pc \in Holding /\ task'[u].clear = task[u].clear
      BY <1>1, <2>2 DEF SameButLive
    <3>2. /\ c # 0 /\ c # cred[Owner[u]].tok
          /\ \A v \in Tasks \ {u} : Owner[v] = Owner[u] => c \notin Tokens(v)
      BY <3>1 DEF TokensInv, Tokens, Holding
    <3>3. ASSUME Owner[u] = d, NEW n, Comes(n, t) PROVE c # n
      BY <2>2, <3>2, <3>3 DEF Comes, Unused
    <3>4. c # cred'[Owner[u]].tok
      BY <3>2, <3>3, OwnerAssumption
    <3>5. \A v \in Tasks \ {u} : Owner[v] = Owner[u] => c \notin Tokens(v)'
      <4> SUFFICES ASSUME NEW v \in Tasks \ {u}, Owner[v] = Owner[u]
                   PROVE  c \notin Tokens(v)'
        OBVIOUS
      <4>1. CASE v = t
        BY <3>3, <4>1
      <4>2. CASE v # t
        <5>1. Tokens(v)' = Tokens(v)
          BY <4>2 DEF SameButLive, Tokens
        <5> QED
          BY <3>2, <5>1
      <4> QED
        BY <4>1, <4>2
    <3> QED
      BY <3>1, <3>2, <3>4, <3>5
  <2> QED
    BY <2>1, <2>2
<1> QED
  BY <1>1 DEF TokensInv, Tokens, Holding

\* An upload that may fail was there already, as it was.
SameFailures(f) ==
    \A u \in Tasks \ {f} : CanFail(u)' =>
        /\ CanFail(u)
        /\ task'[u].op = task[u].op
        /\ task'[u].base = task[u].base /\ task'[u].cand = task[u].cand
        /\ task'[u].mine = task[u].mine /\ task'[u].back = task[u].back

LEMMA ShieldKept ==
    ASSUME NEW d, NEW c, NEW a, NEW f, NEW g, Shielded(d, c, a, f),
           committed \subseteq committed', SameFailures(g), f = g \/ ~CanFail(f)'
    PROVE  Shielded(d, c, a, g)'
<1>1. PICK X \in SUBSET Artifact : /\ a \in X
                                   /\ c \notin committed => \A x \in X : x.cand = c
                                   /\ Closed(X, d, c, f)
  BY DEF Shielded
<1>2. Closed(X, d, c, g)'
  BY <1>1 DEF Closed, SameFailures
<1> QED
  BY <1>1, <1>2 DEF Shielded

-----------------------------------------------------------------------------
(* Quiet steps leave every device as it is: they move operations, sessions   *)
(* and requests                                                              *)

\* Requests that are new belong to the operation that acts, or to nobody, or
\* can no longer fail it.
NewRequests(t) ==
    \A w \in wire' : \/ w \in wire \/ w.from \in {t, "nobody"}
                     \/ w.st # "sent" \/ w.tries = 2

LEMMA OthersFail ==
    ASSUME NEW t, \A u \in Tasks \ {t} : SameButLive(u), NewRequests(t)
    PROVE  SameFailures(t)
<1> SUFFICES ASSUME NEW u \in Tasks \ {t}, CanFail(u)'
             PROVE  CanFail(u)
  BY DEF SameFailures, SameButLive
<1>1. task'[u].pc = task[u].pc
  BY DEF SameButLive
<1>2. CASE task[u].pc \in {"persisted", "staged", "failed"}
  BY <1>2 DEF CanFail
<1>3. CASE task[u].pc \notin {"persisted", "staged", "failed"}
  <2>1. /\ task[u].pc = "sent"
        /\ \E w \in wire' : w.from = u /\ w.st = "sent" /\ w.tries = 1
    BY <1>1, <1>3 DEF CanFail
  <2>2. PICK w \in wire' : w.from = u /\ w.st = "sent" /\ w.tries = 1
    BY <2>1
  <2>3. w \in wire
    BY <2>2, TasksAssumption DEF NewRequests
  <2> QED
    BY <2>1, <2>2, <2>3 DEF CanFail
<1> QED
  BY <1>2, <1>3

SameCommitting ==
    \A t \in Tasks : Committing(t)' => Committing(t) /\ task'[t].cand = task[t].cand

\* An upload that is open, or about to be sent.
ClaimOf(f, c) ==
    \/ \E v \in wire : v.kind = "put" /\ v.st = "sent" /\ v.cand = c /\ v.from = f
    \/ f \in Tasks /\ task[f].pc = "staged" /\ task[f].cand = c

ClaimsFrom ==
    /\ \A t \in Tasks : task'[t].pc = "staged" =>
           task[t].pc = "staged" /\ task'[t].cand = task[t].cand
    /\ \A w \in wire' : w.kind = "put" /\ w.st = "sent" /\ w.cand \notin committed =>
           \E f : ClaimOf(f, w.cand) /\ (f = w.from \/ ~CanFail(f)')

LEMMA ClaimsAreRemembered ==
    ASSUME ClaimsInv, NEW f, NEW c, ClaimOf(f, c), c \notin committed
    PROVE  \E d \in Devices : Remembered(d, c, f)
BY OwnerAssumption DEF ClaimsInv, ClaimOf

LEMMA ClaimsKept ==
    ASSUME TypeInv, SnapshotsInv, ClaimsInv,
           UNCHANGED <<snapshots, local, cred, committed>>,
           SameFailures("nobody"), SameMakers, ClaimsFrom
    PROVE  ClaimsInv'
<1>0. \A g : SameFailures(g)
  BY TasksAssumption DEF SameFailures
<1>1. ASSUME NEW d, NEW c, NEW f, NEW g, Remembered(d, c, f), f = g \/ ~CanFail(f)'
      PROVE  Remembered(d, c, g)'
  <2>1. Shielded(d, c, cred[d], g)'
    <3>1. PICK a : a = cred[d]
      OBVIOUS
    <3>2. Shielded(d, c, a, g)'
      BY <1>0, <1>1, <3>1, ShieldKept DEF Remembered
    <3> QED
      BY <3>1, <3>2
  <2> QED
    BY <1>1, <2>1 DEF Remembered
<1>2. ASSUME NEW w \in wire', w.kind = "put", w.st = "sent", w.cand \notin committed'
      PROVE  \E d \in Devices : Remembered(d, w.cand, w.from)'
  <2>1. PICK f : ClaimOf(f, w.cand) /\ (f = w.from \/ ~CanFail(f)')
    BY <1>2 DEF ClaimsFrom
  <2>2. PICK d \in Devices : Remembered(d, w.cand, f)
    BY <1>2, <2>1, ClaimsAreRemembered
  <2>3. Remembered(d, w.cand, w.from)'
    BY <1>1, <2>1, <2>2
  <2> QED
    BY <2>3
<1>3. ASSUME NEW t \in Tasks, task'[t].pc = "staged", task'[t].cand \notin committed'
      PROVE  Remembered(Owner[t], task[t].cand, t)'
  <2>1. task[t].pc = "staged" /\ task'[t].cand = task[t].cand
    BY <1>3 DEF ClaimsFrom
  <2>2. PICK c : c = task[t].cand
    OBVIOUS
  <2>3. Remembered(Owner[t], c, t)
    BY <1>3, <2>1, <2>2 DEF ClaimsInv
  <2>4. Remembered(Owner[t], c, t)'
    BY <1>1, <2>3
  <2> QED
    BY <2>1, <2>2, <2>4
<1>4. ASSUME NEW d \in Devices, Content(local[d])' \in committed'
      PROVE  Shielded(d, Content(local[d]), cred[d], "nobody")'
  <2>1. PICK c, a : c = Content(local[d]) /\ a = cred[d]
    OBVIOUS
  <2>2. c = Content(local[d])' /\ a = cred'[d]
    BY <2>1 DEF Content, Removing, RollbackOf
  <2>3. Shielded(d, c, a, "nobody")
    BY <1>4, <2>1, <2>2 DEF ClaimsInv
  <2>4. Shielded(d, c, a, "nobody")'
    BY <1>0, <2>3, ShieldKept
  <2> QED
    BY <2>2, <2>4
<1>5. ASSUME NEW t \in Tasks, Maker(t)', CanFail(t)', task'[t].base \in committed'
      PROVE  Shielded(Owner[t], task[t].base, task[t].back, "nobody")'
  <2>1. /\ Maker(t) /\ CanFail(t)
        /\ task'[t].base = task[t].base /\ task'[t].back = task[t].back
    BY <1>0, <1>5, TasksAssumption DEF SameFailures, SameMakers
  <2>2. PICK c, a : c = task[t].base /\ a = task[t].back
    OBVIOUS
  <2>3. Shielded(Owner[t], c, a, "nobody")
    BY <1>5, <2>1, <2>2 DEF ClaimsInv
  <2>4. Shielded(Owner[t], c, a, "nobody")'
    BY <1>0, <2>3, ShieldKept
  <2> QED
    BY <2>1, <2>2, <2>4
<1> QED
  BY <1>2, <1>3, <1>4, <1>5 DEF ClaimsInv

\* A snapshot that no operation has just stored in its session.
Fresh(p)    == task[p].live /\ task[p].pc = "persisted"
Free(s)     == /\ s \in Known \cup {None}
               /\ \A p \in Tasks : Fresh(p) => task[p].cand # s

LiveFrom ==
    /\ \A u \in Tasks : task'[u].live => session'[Owner[u]] # None
    /\ \A u \in Tasks : Fresh(u)' =>
          /\ Fresh(u) /\ task'[u].cand = task[u].cand
          /\ \/ session'[Owner[u]] = session[Owner[u]]
             \/ Free(session'[Owner[u]])
             \/ \E v \in Tasks \ {u} : session'[Owner[u]] = task[v].cand
    /\ \A u \in Tasks : \A s \in Mentions(u)' : s \in Mentions(u) \/ Free(s)
    /\ \A w \in wire' : Free(w.cand) \/ \E v \in wire : v.cand = w.cand

LEMMA LiveKept ==
    ASSUME LiveInv, UNCHANGED <<snapshots, local, committed>>, LiveFrom
    PROVE  LiveInv'
<1>0. \A u \in Tasks : Mentions(u)' \subseteq Known' \cup {None}
  BY DEF LiveInv, LiveFrom, Free, Known
<1> SUFFICES ASSUME NEW t \in Tasks, task'[t].live
             PROVE  /\ session'[Owner[t]] # None
                    /\ task'[t].pc = "persisted" =>
                         /\ task'[t].cand \notin committed'
                         /\ local'[Owner[t]] = task'[t].cand
                         /\ session'[Owner[t]] # task'[t].cand
                         /\ \A w \in wire' : w.cand # task'[t].cand
                         /\ \A u \in Tasks \ {t} : /\ task'[u].base # task'[t].cand
                                                   /\ task'[u].cand # task'[t].cand
  BY <1>0 DEF LiveInv
<1>1. session'[Owner[t]] # None
  BY DEF LiveFrom
<1>2. ASSUME task'[t].pc = "persisted"
      PROVE  /\ task'[t].cand \notin committed'
             /\ local'[Owner[t]] = task'[t].cand
             /\ session'[Owner[t]] # task'[t].cand
             /\ \A w \in wire' : w.cand # task'[t].cand
             /\ \A u \in Tasks \ {t} : /\ task'[u].base # task'[t].cand
                                       /\ task'[u].cand # task'[t].cand
  <2>1. Fresh(t) /\ task'[t].cand = task[t].cand
    BY <1>2 DEF LiveFrom, Fresh
  <2>2. /\ task[t].cand \notin committed
        /\ local[Owner[t]] = task[t].cand
        /\ session[Owner[t]] # task[t].cand
        /\ \A w \in wire : w.cand # task[t].cand
        /\ \A u \in Tasks \ {t} : /\ task[u].base # task[t].cand
                                  /\ task[u].cand # task[t].cand
        /\ ~Free(task[t].cand)
    BY <2>1 DEF LiveInv, Fresh, Free
  <2>3. session'[Owner[t]] # task[t].cand
    BY <1>2, <2>1, <2>2 DEF LiveFrom, Fresh
  <2>4. \A w \in wire' : w.cand # task[t].cand
    BY <2>2 DEF LiveFrom
  <2>5. ASSUME NEW u \in Tasks \ {t}
        PROVE  task'[u].base # task[t].cand /\ task'[u].cand # task[t].cand
    <3>1. \A s \in Mentions(u)' : s # task[t].cand
      BY <2>2 DEF LiveFrom, Mentions
    <3> QED
      BY <3>1 DEF Mentions
  <2> QED
    BY <2>1, <2>2, <2>3, <2>4, <2>5
<1> QED
  BY <1>1, <1>2

\* A session in which an operation goes on is the one there was, or at the local
\* snapshot, or moved to what was stored.
SessionFrom ==
    \A d \in Devices : ~Inert(d)' =>
        \/ session'[d] = session[d] /\ ~Inert(d)
        \/ session'[d] \in {None, local[d]}
        \/ \E u \in Tasks : /\ Committing(u) /\ Owner[u] = d
                            /\ session'[d] = task[u].cand

LEMMA SessionKept ==
    ASSUME TypeInv, SnapshotsInv, SessionInv,
           UNCHANGED <<snapshots, local, committed>>,
           \A t \in Tasks : Maker(t)' /\ CanFail(t)' => CanFail(t),
           SameMakers, SameCommitting, SessionFrom
    PROVE  SessionInv'
<1>0. /\ \A s : Content(s)' = Content(s)
      /\ \A s, r : Under(s, r)' <=> Under(s, r)
  BY DEF Content, Removing, RollbackOf, Under, Count
<1>1. ASSUME NEW d \in Devices, session'[d] # None, ~Inert(d)',
             NEW s, s = session'[d], NEW r, r = local[d]
      PROVE  Under(Content(s), Content(r))'
  <2>1. CASE s = session[d] /\ ~Inert(d)
    <3>1. Under(Content(s), Content(r))
      BY <1>1, <2>1 DEF SessionInv
    <3> QED
      BY <1>0, <3>1
  <2>2. CASE s = local[d]
    <3>1. Content(s) \in Known
      BY <2>2 DEF Content, RollbackOf, SnapshotsInv, SnapshotInv, TypeInv
    <3>2. Under(Content(s), Content(r))
      BY <1>1, <2>2, <3>1, UnderFacts
    <3> QED
      BY <1>0, <3>2
  <2>3. CASE \E u \in Tasks : /\ Committing(u) /\ Owner[u] = d /\ s = task[u].cand
    <3>1. Under(Content(s), Content(r))
      BY <1>1, <2>3 DEF SessionInv
    <3> QED
      BY <1>0, <3>1
  <2> QED
    BY <1>1, <2>1, <2>2, <2>3 DEF SessionFrom
<1>2. ASSUME NEW u \in Tasks, Committing(u)', NEW s, s = task'[u].cand,
             NEW r, r = local[Owner[u]]
      PROVE  Under(Content(s), Content(r))'
  <2>1. Committing(u) /\ task[u].cand = s
    BY <1>2 DEF SameCommitting
  <2>2. Under(Content(s), Content(r))
    BY <1>2, <2>1 DEF SessionInv
  <2> QED
    BY <1>0, <2>2
<1>3. ASSUME NEW t \in Tasks, Maker(t)', CanFail(t)', local[Owner[t]] = task'[t].cand,
             task'[t].cand \notin committed,
             NEW u \in Tasks \ {t}, Owner[u] = Owner[t], Committing(u)',
             NEW s, s = task'[u].cand, NEW b, b = task'[t].base
      PROVE  Under(Content(s), b)'
  <2>1. /\ Maker(t) /\ CanFail(t)
        /\ task[t].cand = task'[t].cand /\ task[t].base = b
    BY <1>3 DEF SameMakers
  <2>2. Committing(u) /\ task[u].cand = s
    BY <1>3 DEF SameCommitting
  <2>3. Under(Content(s), b)
    BY <1>3, <2>1, <2>2 DEF SessionInv
  <2> QED
    BY <1>0, <2>3
<1> QED
  BY <1>1, <1>2, <1>3 DEF SessionInv

LEMMA QuietStep ==
    ASSUME IInv, UNCHANGED <<snapshots, local, cred, committed, withdrawn>>,
           TypeInv', TasksInv', WireInv', TokensInv',
           SameFailures("nobody"), SameMakers, SameCommitting,
           ClaimsFrom, LiveFrom, SessionFrom
    PROVE  IInv'
<1>1. SnapshotsInv'
  BY SnapshotsKept DEF IInv
<1>2. CountsInv'
  BY CountsKept DEF IInv
<1>3. ClaimsInv'
  BY ClaimsKept DEF IInv
<1>4. MarkersInv'
  BY DEF IInv, MarkersInv, HasMarker, Ready, Removing, Synced
<1>5. LiveInv'
  BY LiveKept DEF IInv
<1>6. SessionInv'
  <2>1. \A t \in Tasks : CanFail(t)' => CanFail(t)
    BY TasksAssumption DEF SameFailures
  <2> QED
    BY <2>1, SessionKept DEF IInv
<1>7. WithdrawnInv'
  BY DEF IInv, WithdrawnInv, Synced
<1> QED
  BY <1>1, <1>2, <1>3, <1>4, <1>5, <1>6, <1>7 DEF IInv

-----------------------------------------------------------------------------
(* A quiet step of one page                                                  *)

LEMMA FreeFacts ==
    ASSUME IInv
    PROVE  /\ Free(None)
           /\ \A d \in Devices : session[d] = local[d] => Free(local[d])
           /\ \A t \in Tasks : ~Fresh(t) => Free(task[t].base) /\ Free(task[t].cand)
           /\ \A s \in committed : Free(s)
<1>1. ASSUME NEW p \in Tasks, Fresh(p)
      PROVE  /\ task[p].cand \in Known /\ task[p].cand # None
             /\ task[p].cand # 1 /\ Maker(p)
             /\ local[Owner[p]] = task[p].cand
             /\ task[p].cand \notin committed
             /\ session[Owner[p]] # task[p].cand
             /\ \A u \in Tasks \ {p} : /\ task[u].base # task[p].cand
                                       /\ task[u].cand # task[p].cand
  <2>1. Tracked(p) /\ TrackedInv(task[p], Owner[p])
    BY <1>1 DEF Fresh, Tracked, IInv, TasksInv, TaskInv
  <2>2. task[p].cand \in Known /\ task[p].cand # None
    BY <2>1, IdsAreKnown, NoneIsTyped DEF TrackedInv, IInv
  <2>3. task[p].cand # 1
    BY <2>1 DEF TrackedInv, Ready, IInv, SnapshotsInv
  <2>4. Maker(p)
    BY <1>1, <2>1 DEF Fresh, TrackedInv, MakerInv, RetryInv, Maker
  <2> QED
    BY <1>1, <2>2, <2>3, <2>4 DEF Fresh, IInv, LiveInv
<1>2. Free(None)
  BY <1>1 DEF Free
<1>5. /\ \A d \in Devices : local[d] \in Known
      /\ \A t \in Tasks : Mentions(t) \subseteq Known \cup {None}
      /\ committed \subseteq Known
  BY DEF IInv, TypeInv, LiveInv
<1>3. ASSUME NEW d \in Devices, session[d] = local[d], NEW p \in Tasks, Fresh(p)
      PROVE  task[p].cand # local[d]
  <2>1. CASE Owner[p] = d
    BY <1>1, <1>3, <2>1
  <2>2. CASE Owner[p] # d
    <3>1. Unseen(Owner[p], task[p].cand)
      BY <1>1, <1>3, OwnerAssumption DEF IInv, CountsInv
    <3>2. local[d] \in Others(Owner[p])
      BY <2>2 DEF Others
    <3>3. Count(local[d], Owner[p]) < Count(task[p].cand, Owner[p])
      BY <1>1, <1>3, <3>1, <3>2 DEF Unseen
    <3>4. Count(task[p].cand, Owner[p]) \in Nat
      BY <1>1, <1>3, OwnerAssumption, UnderFacts DEF IInv
    <3> QED
      BY <3>3, <3>4
  <2> QED
    BY <2>1, <2>2
<1>4. ASSUME NEW t \in Tasks, ~Fresh(t), NEW p \in Tasks, Fresh(p)
      PROVE  task[p].cand # task[t].base /\ task[p].cand # task[t].cand
  BY <1>1, <1>4
<1> QED
  BY <1>1, <1>2, <1>3, <1>4, <1>5 DEF Free, Mentions

\* The operation of page t goes on without a new claim to its snapshot.
Milder(t) ==
    /\ CanFail(t)' => CanFail(t)
    /\ Committing(t)' => Committing(t) /\ task'[t].cand = task[t].cand
    /\ Tracked(t)' => /\ Tracked(t)
                      /\ task'[t].op = task[t].op
                      /\ task'[t].base = task[t].base
                      /\ task'[t].cand = task[t].cand
                      /\ task'[t].mine = task[t].mine
                      /\ task'[t].back = task[t].back
    /\ task'[t].pc \in Holding =>
          task[t].pc \in Holding /\ task'[t].clear = task[t].clear
    /\ \A pc \in {"staged", "persisted"} : task'[t].pc = pc => task[t].pc = pc
    /\ task'[t].live => \/ task[t].live
                       \/ /\ session[Owner[t]] = local[Owner[t]]
                          /\ session[Owner[t]] # None
    /\ Fresh(t)' => Fresh(t)
    /\ Tokens(t)' \subseteq Tokens(t) \cup {0, cred[Owner[t]].tok}
    /\ \A s \in Mentions(t)' : s \in Mentions(t) \/ Free(s)

\* Open requests were there already, or are of an operation that waits for it.
RequestsFrom(t) ==
    /\ NewRequests(t)
    /\ \A w \in wire' : w.kind = "put" /\ w.st = "sent" /\ w.cand \notin committed =>
           \E f : ClaimOf(f, w.cand) /\ (f = w.from \/ ~CanFail(f)')
    /\ \A w \in wire' : Free(w.cand) \/ \E v \in wire : v.cand = w.cand

LEMMA PageStep ==
    ASSUME IInv, NEW t \in Tasks, OnlyTask(t), TaskInv(t)', wire' \subseteq Request,
           UNCHANGED <<snapshots, local, cred, remote, committed, withdrawn>>,
           \/ session' = session
           \/ /\ task[t].pc = "committing"
              /\ session' = [session EXCEPT ![Owner[t]] = task[t].cand],
           Milder(t), RequestsFrom(t), WireInv'
    PROVE  IInv'
<1> DEFINE d == Owner[t]
<1>0. /\ TypeInv /\ TasksInv /\ TokensInv /\ LiveInv /\ d \in Devices
      /\ \A u \in Tasks \ {t} : task'[u] = task[u] /\ SameButLive(u)
  BY DeviceTypes DEF IInv, OnlyTask, SameButLive
<1>1. task[t].pc = "committing" => task[t].cand \in Known /\ task[t].cand # None
  BY <1>0, IdsAreKnown, NoneIsTyped DEF TasksInv, TaskInv
<1>2. TypeInv' /\ Grows
  BY <1>0, <1>1 DEF TypeInv, Grows, Known, OnlyTask
<1>3. TasksInv'
  BY <1>0, <1>2, OthersStay
<1>4. TokensInv'
  <2>1. \A e \in Devices \ {d} : cred'[e] = cred[e]
    OBVIOUS
  <2>2. Comes(cred'[d].tok, t)
    BY DEF Comes
  <2>3. \A n \in Tokens(t)' : Comes(n, t)
    BY DEF Comes, Milder
  <2>4. task'[t].pc \in Holding =>
           /\ task'[t].clear.tok # cred'[d].tok
           /\ task[t].pc \in Holding /\ task'[t].clear = task[t].clear
    BY <1>0 DEF TokensInv, Holding, Milder
  <2> QED
    BY <1>0, <2>1, <2>2, <2>3, <2>4, TokensKept
<1>5. SameFailures("nobody")
  <2>1. SameFailures(t)
    BY <1>0, OthersFail DEF RequestsFrom
  <2>2. CanFail(t)' => Tracked(t)'
    BY DEF CanFail, Tracked
  <2> QED
    BY <2>1, <2>2 DEF SameFailures, Milder
<1>6. SameMakers
  BY <1>0 DEF SameMakers, SameButLive, Maker, Tracked, Milder
<1>7. SameCommitting
  BY <1>0 DEF SameCommitting, SameButLive, Committing, Maker, Tracked, Milder
<1>8. ClaimsFrom
  <2>1. ASSUME NEW u \in Tasks, task'[u].pc = "staged"
        PROVE  task[u].pc = "staged" /\ task'[u].cand = task[u].cand
    BY <1>0, <2>1 DEF SameButLive, Milder, Tracked
  <2> QED
    BY <2>1 DEF ClaimsFrom, RequestsFrom
<1>9. LiveFrom
  <2>1. ASSUME NEW u \in Tasks, task'[u].live PROVE session'[Owner[u]] # None
    <3>1. session[Owner[u]] # None
      BY <1>0, <2>1 DEF Milder, LiveInv
    <3> QED
      BY <1>0, <1>1, <3>1, OwnerAssumption DEF TypeInv
  <2>2. ASSUME NEW u \in Tasks, Fresh(u)'
        PROVE  /\ Fresh(u) /\ task'[u].cand = task[u].cand
               /\ \/ session'[Owner[u]] = session[Owner[u]]
                  \/ \E v \in Tasks \ {u} : session'[Owner[u]] = task[v].cand
    <3>1. Fresh(u) /\ task'[u].cand = task[u].cand
      BY <1>0, <2>2 DEF Milder, Fresh, Tracked
    <3>2. u = t => session' = session
      BY <3>1 DEF Fresh
    <3> QED
      BY <1>0, <3>1, <3>2, OwnerAssumption DEF TypeInv
  <2>3. \A u \in Tasks : \A s \in Mentions(u)' : s \in Mentions(u) \/ Free(s)
    BY <1>0 DEF Milder, Mentions
  <2> QED
    BY <2>1, <2>2, <2>3 DEF LiveFrom, RequestsFrom
<1>10. SessionFrom
  <2>1. CASE session' = session
    <3>1. ASSUME NEW e \in Devices, ~Inert(e)', session[e] # local[e]
          PROVE  ~Inert(e)
      <4>1. PICK u \in Tasks : Owner[u] = e /\ task'[u].live
        BY <3>1 DEF Inert
      <4>2. task[u].live
        BY <1>0, <3>1, <4>1 DEF Milder
      <4> QED
        BY <4>1, <4>2 DEF Inert
    <3> QED
      BY <2>1, <3>1 DEF SessionFrom
  <2>2. CASE /\ task[t].pc = "committing"
             /\ session' = [session EXCEPT ![d] = task[t].cand]
    <3>1. Committing(t)
      BY <2>2 DEF Committing
    <3>2. /\ session'[d] = task[t].cand
          /\ \A e \in Devices : e # d => session'[e] = session[e]
      BY <1>0, <2>2 DEF TypeInv
    <3>3. \A e \in Devices : e # d /\ ~Inert(e)' => ~Inert(e)
      BY <1>0 DEF Inert
    <3> QED
      BY <3>1, <3>2, <3>3 DEF SessionFrom
  <2> QED
    BY <2>1, <2>2
<1> QED
  BY <1>2, <1>3, <1>4, <1>5, <1>6, <1>7, <1>8, <1>9, <1>10, QuietStep

LEMMA FinishIsMilder ==
    ASSUME IInv, NEW t \in Tasks, Finishes(t)
    PROVE  OnlyTask(t) /\ Milder(t) /\ TaskInv(t)'
<1>1. /\ OnlyTask(t) /\ task'[t] = Idle
      /\ task'[t].pc = "idle" /\ ~task'[t].live
      /\ task'[t].base = None /\ task'[t].cand = None
      /\ Tokens(t)' = {0}
  BY DEF Finishes, Idle, NoRecord, Tokens
<1>2. ~CanFail(t)' /\ ~Committing(t)' /\ ~Tracked(t)' /\ ~Fresh(t)'
  BY <1>1 DEF CanFail, Committing, Maker, Tracked, Fresh
<1>3. \A s \in Mentions(t)' : Free(s)
  BY <1>1, FreeFacts DEF Mentions
<1> QED
  BY <1>1, <1>2, <1>3 DEF Milder, Holding, TaskInv

LEMMA PendIsMilder ==
    ASSUME IInv, NEW t \in Tasks, Pends(t), Tracked(t) \/ task[t].pc = "staging",
           UNCHANGED snapshots
    PROVE  OnlyTask(t) /\ Milder(t) /\ TaskInv(t)' /\ ~CanFail(t)'
<1>1. CASE task[t].op = "upload"
  <2>1. Finishes(t)
    BY <1>1 DEF Pends
  <2>2. task'[t].pc = "idle"
    BY <2>1 DEF Finishes, Idle
  <2>3. ~CanFail(t)'
    BY <2>2 DEF CanFail
  <2> QED
    BY <2>1, <2>3, FinishIsMilder
<1>2. CASE task[t].op # "upload"
  <2>1. /\ Tracked(t) /\ Maker(t) /\ task[t].cand \in Known
        /\ task[t].op \in {"mutate", "resolve", "setup"}
    BY <1>2 DEF IInv, TasksInv, TaskInv, UploadInv, TrackedInv, RetryInv, MakerInv, Maker
  <2>2. TurnsToCommit(t, task[t].cand)
    BY <1>2 DEF Pends
  <2>3. /\ OnlyTask(t) /\ task'[t].pc = "committing" /\ task'[t].op = task[t].op
        /\ task'[t].live = task[t].live /\ task'[t].base = None
        /\ task'[t].cand = task[t].cand
        /\ Tokens(t)' = {0}
    BY <2>1, <2>2 DEF TurnsToCommit, Tokens, NoRecord
  <2>4. ~CanFail(t)' /\ ~Tracked(t)' /\ ~Fresh(t)'
    BY <2>3 DEF CanFail, Tracked, Fresh
  <2>5. \A s \in Mentions(t)' : s \in Mentions(t) \/ Free(s)
    BY <2>3, FreeFacts DEF Mentions
  <2>6. Committing(t)
    BY <2>1 DEF Committing
  <2>7. Milder(t)
    BY <2>3, <2>4, <2>5, <2>6 DEF Milder, Holding
  <2>8. TaskInv(t)'
    BY <2>1, <2>3, <2>4 DEF TaskInv, Known
  <2> QED
    BY <2>3, <2>4, <2>7, <2>8
<1> QED
  BY <1>1, <1>2

Further == {<<"persisted", "failed">>, <<"staged", "failed">>, <<"staged", "sent">>,
            <<"sent", "landed">>, <<"sent", "failed">>,
            <<"committing", "removing">>, <<"removing", "removed">>,
            <<"removing", "conflicted">>, <<"removing", "deleting">>,
            <<"deleting", "removed">>, <<"deleting", "conflicted">>}

LEMMA AdvanceIsMilder ==
    ASSUME IInv, NEW t \in Tasks, NEW pc, Advances(t, pc),
           <<task[t].pc, pc>> \in Further, CanFail(t)' => CanFail(t)
    PROVE  OnlyTask(t) /\ Milder(t)
<1>1. /\ task'[t].pc = pc /\ task'[t].op = task[t].op
      /\ task'[t].live = task[t].live /\ task'[t].base = task[t].base
      /\ task'[t].cand = task[t].cand
      /\ task'[t].mine = task[t].mine /\ task'[t].clear = task[t].clear
      /\ task'[t].back = task[t].back
      /\ OnlyTask(t)
  BY DEF Advances
<1>2. /\ pc \in {"failed", "sent", "landed"} => Tracked(t)
      /\ pc \in {"sent", "landed"} => task[t].pc \in Holding
      /\ pc \notin {"staged", "persisted", "committing"}
  BY DEF Further, Tracked, Holding
<1>3. Tracked(t)' => Tracked(t)
  BY <1>1, <1>2 DEF Tracked
<1>4. Committing(t)' => Committing(t)
  BY <1>1, <1>2, <1>3 DEF Committing, Maker
<1>5. ~Fresh(t)'
  BY <1>1, <1>2 DEF Fresh
<1>6. Tokens(t)' = Tokens(t) /\ Mentions(t)' = Mentions(t)
  BY <1>1 DEF Tokens, Mentions
<1>7. task'[t].pc \in Holding => task[t].pc \in Holding
  BY <1>1, <1>2 DEF Holding
<1> QED
  BY <1>1, <1>2, <1>3, <1>4, <1>5, <1>6, <1>7 DEF Milder

\* Requests of page t are answered, or forgotten by it.
Left(w, v) == /\ v.st = "sent"
              /\ w \in Request
              /\ w.kind = v.kind /\ w.cand = v.cand /\ w.match = v.match
              /\ w.from = "nobody" /\ w.st = "sent"

LEMMA ForgottenFacts ==
    ASSUME NEW v \in Request, NEW w \in Forgotten(v)
    PROVE  Left(w, v)
<1>1. v.st = "sent" /\ w = [v EXCEPT !.from = "nobody", !.tries = 1]
  BY DEF Forgotten
<1>2. 1 \in 1 .. 2
  OBVIOUS
<1>3. /\ w \in Request
      /\ w.kind = v.kind /\ w.cand = v.cand /\ w.match = v.match
      /\ w.from = "nobody" /\ w.st = v.st
  BY <1>1, <1>2 DEF Request
<1> QED
  BY <1>1, <1>3 DEF Left

LEMMA FewerRequests ==
    ASSUME IInv, NEW t \in Tasks, OnlyTask(t),
           UNCHANGED <<snapshots, committed, withdrawn>>,
           \A w \in wire' : \/ w \in wire /\ w.from # t
                            \/ \E v \in wire : v.from = t /\ Left(w, v),
           ~CanFail(t)' \/ wire' \subseteq wire
    PROVE  RequestsFrom(t) /\ WireInv' /\ wire' \subseteq Request
<1>0. TypeInv /\ WireInv
  BY DEF IInv
<1>1. wire' \subseteq Request
  BY <1>0 DEF TypeInv, Left
<1>2. RequestsFrom(t)
  <2>1. NewRequests(t)
    BY DEF NewRequests, Left
  <2>2. ASSUME NEW w \in wire', w.kind = "put", w.st = "sent", w.cand \notin committed
        PROVE  \E f : ClaimOf(f, w.cand) /\ (f = w.from \/ ~CanFail(f)')
    <3>1. CASE w \in wire
      BY <2>2, <3>1 DEF ClaimOf
    <3>2. CASE w \notin wire
      <4>1. PICK v \in wire : v.from = t /\ Left(w, v)
        BY <2>2, <3>2
      <4>2. ClaimOf(t, w.cand) /\ ~CanFail(t)'
        BY <2>2, <3>2, <4>1 DEF ClaimOf, Left
      <4> QED
        BY <4>2
    <3> QED
      BY <3>1, <3>2
  <2>3. \A w \in wire' : \E v \in wire : v.cand = w.cand
    BY DEF Left
  <2> QED
    BY <2>1, <2>2, <2>3 DEF RequestsFrom
<1>3. WireInv'
  <2>1. ASSUME NEW w \in wire'
        PROVE  /\ w.kind = "put" => PutInv(w)'
               /\ w.kind = "delete" => DeleteInv(w)'
               /\ w.st # "sent" => w.from \in Tasks
    <3>1. CASE w \in wire /\ w.from # t
      <4>1. w.from \in Tasks => task'[w.from] = task[w.from]
        BY <3>1 DEF OnlyTask
      <4>2. /\ w.kind = "put" => PutInv(w)
            /\ w.kind = "delete" => DeleteInv(w)
            /\ w.st # "sent" => w.from \in Tasks
        BY <1>0, <3>1 DEF WireInv
      <4> QED
        BY <4>1, <4>2 DEF PutInv, DeleteInv, Known, Ready, Synced, Removing
    <3>2. CASE \E v \in wire : v.from = t /\ Left(w, v)
      <4>1. PICK v \in wire : v.from = t /\ Left(w, v)
        BY <3>2
      <4>2. v.kind = "put" => PutInv(v)
        BY <1>0 DEF WireInv
      <4>3. v.kind = "delete" => DeleteInv(v)
        BY <1>0 DEF WireInv
      <4> QED
        BY <4>1, <4>2, <4>3, TasksAssumption
           DEF PutInv, DeleteInv, Left, Known, Ready, Synced, Removing
    <3> QED
      BY <2>1, <3>1, <3>2
  <2>2. \A w, v \in wire' : w.from = v.from /\ w.from \in Tasks => w = v
    BY <1>0, TasksAssumption DEF WireInv, Left
  <2> QED
    BY <2>1, <2>2 DEF WireInv
<1> QED
  BY <1>1, <1>2, <1>3

LEMMA NothingAwaited ==
    ASSUME IInv, NEW t \in Tasks, task[t].pc \notin {"sent", "deleting"}
    PROVE  \A w \in wire : w.from # t
BY DEF IInv, WireInv, PutInv, DeleteInv, TypeInv, Request

LEMMA QuietPage ==
    ASSUME IInv, NEW t \in Tasks, task[t].pc \notin {"sent", "deleting"},
           OnlyTask(t), Milder(t), TaskInv(t)',
           UNCHANGED <<snapshots, local, cred, remote, wire, committed, withdrawn>>,
           \/ session' = session
           \/ /\ task[t].pc = "committing"
              /\ session' = [session EXCEPT ![Owner[t]] = task[t].cand]
    PROVE  IInv'
<1>1. RequestsFrom(t) /\ WireInv' /\ wire' \subseteq Request
  BY NothingAwaited, FewerRequests
<1> QED
  BY <1>1, PageStep

LEMMA QuietEnd ==
    ASSUME IInv, NEW t \in Tasks, task[t].pc \notin {"sent", "deleting"},
           \/ Finishes(t)
           \/ Pends(t) /\ (Tracked(t) \/ task[t].pc = "staging"),
           UNCHANGED <<snapshots, local, cred, session, remote, wire, committed,
                       withdrawn>>
    PROVE  IInv'
<1>1. OnlyTask(t) /\ Milder(t) /\ TaskInv(t)'
  BY FinishIsMilder, PendIsMilder
<1> QED
  BY <1>1, QuietPage

LEMMA BeginKeeps ==
    ASSUME IInv, NEW t \in Tasks, NEW op \in Operations, Begin(t, op)
    PROVE  IInv'
<1> DEFINE d == Owner[t]
<1>1. /\ task[t].pc = "idle" /\ session[d] = local[d]
      /\ UNCHANGED <<snapshots, local, cred, session, remote, wire, committed,
                     withdrawn>>
  BY DEF Begin
<1>2. TasksInv' /\ Started(t)
  BY BeginStep DEF IInv
<1>3. d \in Devices /\ local[d] \in Known /\ local[d] # None
  BY DeviceTypes, IdsAreKnown, NoneIsTyped DEF IInv
<1>4. /\ ~CanFail(t)' /\ ~Committing(t)' /\ ~Tracked(t)' /\ ~Fresh(t)'
      /\ task'[t].pc \notin Holding \cup {"persisted"}
  BY <1>2 DEF Started, CanFail, Committing, Maker, Tracked, Fresh, Holding
<1>5. \A s \in Mentions(t)' : Free(s)
  BY <1>1, <1>2, <1>3, FreeFacts DEF Started, Mentions
<1>6. Tokens(t)' = {0, cred[d].tok}
  BY <1>2 DEF Started, Tokens, NoRecord
<1>7. OnlyTask(t) /\ TaskInv(t)'
  BY <1>2 DEF Started, TasksInv
<1>8. Milder(t)
  BY <1>1, <1>3, <1>4, <1>5, <1>6 DEF Milder, Holding
<1> QED
  BY <1>1, <1>7, <1>8, QuietPage

LEMMA CheckKeeps ==
    ASSUME IInv, NEW t \in Tasks, CheckStep(t)
    PROVE  IInv'
<1>1. /\ TasksInv' /\ OnlyLooked /\ task[t].pc = "opened"
      /\ \E pc \in After : \E exp \in Ids \cup {None, Unset} : Looked(t, pc, exp)
  BY CheckSteps DEF IInv
<1>2. PICK pc \in After, exp \in Ids \cup {None, Unset} : Looked(t, pc, exp)
  BY <1>1
<1>3. /\ OnlyTask(t) /\ task'[t].pc = pc /\ task'[t].live = task[t].live
      /\ task'[t].base = task[t].base
      /\ task'[t].cand \in {None, task[t].base}
      /\ Tokens(t)' = Tokens(t)
  BY <1>2 DEF Looked, Tokens
<1>4. /\ ~CanFail(t)' /\ ~Committing(t)' /\ ~Tracked(t)' /\ ~Fresh(t)'
      /\ pc \notin Holding \cup {"persisted"}
  BY <1>3 DEF CanFail, Committing, Maker, Tracked, Fresh, Holding, After
<1>5. \A s \in Mentions(t)' : s \in Mentions(t) \/ Free(s)
  BY <1>3, FreeFacts DEF Mentions
<1>6. TaskInv(t)'
  BY <1>1 DEF TasksInv
<1>7. Milder(t)
  BY <1>3, <1>4, <1>5 DEF Milder, Holding
<1>8. UNCHANGED <<snapshots, local, cred, session, remote, wire, committed, withdrawn>>
  BY <1>1 DEF OnlyLooked
<1> QED
  BY <1>1, <1>3, <1>6, <1>7, <1>8, QuietPage

\* An operation that goes on to another phase of its upload or removal.
LEMMA AdvanceInv ==
    ASSUME IInv, NEW t \in Tasks, NEW pc, Advances(t, pc),
           <<task[t].pc, pc>> \in Further, UNCHANGED <<snapshots, committed>>,
           pc = "landed" => task[t].cand \in committed,
           pc = "removing" => task[t].op = "disable" /\ Removing(task[t].cand)
    PROVE  TaskInv(t)'
<1> DEFINE k == task[t]
           j == task'[t]
<1>0. TypeInv /\ TaskInv(t)
  BY DEF IInv, TasksInv
<1>1. /\ j.pc = pc /\ j.op = k.op /\ j.base = k.base /\ j.cand = k.cand
      /\ j.exp = k.exp /\ j.mine = k.mine /\ j.clear = k.clear /\ j.back = k.back
  BY DEF Advances
<1>2. pc \in {"failed", "sent", "landed"} => Tracked(t)
  BY DEF Further, Tracked
<1>3. Grows
  BY DEF Grows, Known
<1>4. Tracked(t)' => TrackedInv(task[t], Owner[t])'
  <2> SUFFICES ASSUME Tracked(t)' PROVE TrackedInv(task[t], Owner[t])'
    OBVIOUS
  <2>1. pc \in {"failed", "sent", "landed"}
    BY <1>1 DEF Tracked, Further
  <2>2. TrackedInv(k, Owner[t])
    BY <1>0, <1>2, <2>1 DEF TaskInv
  <2>3. /\ k.base \in Known' /\ k.cand \in Known'
        /\ Ready(k.cand, k.exp)'
        /\ Count(k.cand, Owner[t])' = Count(k.cand, Owner[t])
        /\ Count(k.base, Owner[t])' = Count(k.base, Owner[t])
        /\ Under(k.base, k.cand)' <=> Under(k.base, k.cand)
        /\ Removing(k.base)' <=> Removing(k.base)
        /\ Synced(k.base)' = Synced(k.base)
        /\ Ready(k.base, k.back.exp)' <=> Ready(k.base, k.back.exp)
    <3>1. k.base \in Known /\ k.cand \in Known /\ Ready(k.cand, k.exp)
      BY <2>2 DEF TrackedInv
    <3> QED
      BY <1>1, <1>3, <3>1, SnapshotsStay
  <2>8. MakerInv(k, Owner[t]) => MakerInv(task[t], Owner[t])'
    BY <1>1, <2>3 DEF MakerInv, HasMarker, Ready, Synced, Removing, Count, Under
  <2>9. RetryInv(k) => RetryInv(task[t])'
    BY <1>1, <2>1 DEF RetryInv, HasMarker
  <2>4. j.pc \in {"staged", "sent", "landed"} => k.pc \in {"staged", "sent", "landed"}
    BY <1>1, <2>1 DEF Further
  <2>5. j.pc # "persisted"
    BY <1>1, <2>1
  <2> QED
    BY <1>1, <2>2, <2>3, <2>8, <2>9, <2>4, <2>5 DEF TrackedInv, HasMarker, Ready, Synced, Removing
<1>5. j.pc \in {"removing", "deleting", "removed", "conflicted"} => RemovalInv(task[t])'
  <2> SUFFICES ASSUME j.pc \in {"removing", "deleting", "removed", "conflicted"}
               PROVE  RemovalInv(task[t])'
    OBVIOUS
  <2>1. RemovalInv(k)
    BY <1>0, <1>1 DEF TaskInv, RemovalInv, Further
  <2> QED
    BY <1>1, <2>1 DEF RemovalInv, Known, Removing, TargetOf
<1>6. /\ j.pc \notin {"idle", "opened", "checked", "staging", "restaging", "matched", "committing"}
      /\ k.op # "none"
  BY <1>0, <1>1 DEF Further, TaskInv
<1> QED
  BY <1>1, <1>4, <1>5, <1>6 DEF TaskInv

\* One operation waits for at most one request.
LEMMA RequestAdded ==
    ASSUME IInv, NEW t \in Tasks, task[t].pc \notin {"sent", "deleting"}, OnlyTask(t),
           UNCHANGED <<snapshots, committed, withdrawn>>,
           NEW w \in Request, w.from = t, w.st = "sent", wire' = wire \cup {w},
           w.kind = "put" => ClaimOf(t, w.cand) /\ PutInv(w)',
           w.kind = "delete" => DeleteInv(w)',
           Free(w.cand)
    PROVE  RequestsFrom(t) /\ WireInv' /\ wire' \subseteq Request
<1>0. TypeInv /\ WireInv /\ \A v \in wire : v.from # t
  BY NothingAwaited DEF IInv
<1>1. wire' \subseteq Request
  BY <1>0 DEF TypeInv
<1>2. RequestsFrom(t)
  <2>1. ASSUME NEW v \in wire', v.kind = "put", v.st = "sent"
        PROVE  \E f : ClaimOf(f, v.cand) /\ (f = v.from \/ ~CanFail(f)')
    BY <2>1 DEF ClaimOf
  <2> QED
    BY <2>1 DEF RequestsFrom, NewRequests
<1>3. ASSUME NEW v \in wire
      PROVE  /\ v.kind = "put" => PutInv(v)'
             /\ v.kind = "delete" => DeleteInv(v)'
             /\ v.st # "sent" => v.from \in Tasks
  <2>1. /\ v.kind = "put" => PutInv(v)
        /\ v.kind = "delete" => DeleteInv(v)
        /\ v.st # "sent" => v.from \in Tasks
        /\ v.from \in Tasks => task'[v.from] = task[v.from]
    BY <1>0 DEF WireInv, OnlyTask
  <2> QED
    BY <2>1 DEF PutInv, DeleteInv, Known, Ready, Synced, Removing
<1>4. WireInv'
  BY <1>0, <1>3 DEF WireInv
<1> QED
  BY <1>1, <1>2, <1>4

LEMMA NotSentKeeps ==
    ASSUME IInv, NEW t \in Tasks, NotSent(t)
    PROVE  IInv'
<1>1. /\ task[t].pc \in {"persisted", "staged"} /\ Goes(t, "failed")
      /\ UNCHANGED <<snapshots, local, cred, session, remote, wire, committed,
                     withdrawn>>
  BY DEF NotSent
<1>2. Advances(t, "failed") /\ <<task[t].pc, "failed">> \in Further /\ CanFail(t)
  BY <1>1, AdvanceType DEF IInv, Phases, Further, CanFail
<1>3. OnlyTask(t) /\ Milder(t) /\ TaskInv(t)'
  BY <1>1, <1>2, AdvanceIsMilder, AdvanceInv
<1> QED
  BY <1>1, <1>3, QuietPage

LEMMA SendKeeps ==
    ASSUME IInv, NEW t \in Tasks, Send(t)
    PROVE  IInv'
<1> DEFINE k == task[t]
           w == [from |-> t, kind |-> "put", cand |-> k.cand, match |-> k.exp,
                 st |-> "sent", tries |-> 1]
<1>1. /\ k.pc = "staged" /\ Goes(t, "sent") /\ wire' = wire \cup {w}
      /\ UNCHANGED <<snapshots, local, cred, session, remote, committed, withdrawn>>
  BY DEF Send
<1>2. Advances(t, "sent") /\ <<k.pc, "sent">> \in Further /\ CanFail(t)
  BY <1>1, AdvanceType DEF IInv, Phases, Further, CanFail
<1>3. OnlyTask(t) /\ Milder(t) /\ TaskInv(t)'
  BY <1>1, <1>2, AdvanceIsMilder, AdvanceInv
<1>4. TypeInv /\ Tracked(t) /\ TrackedInv(k, Owner[t])
  BY <1>1 DEF IInv, TasksInv, TaskInv, Tracked
<1>5. w \in Request
  <2>1. k.cand \in Ids /\ k.exp \in Ids \cup {None}
    BY <1>4, IdsAreKnown DEF TrackedInv, Ready, TypeInv, Task
  <2> QED
    BY <2>1 DEF Request
<1>6. k.cand \notin withdrawn
  BY <1>1, OwnerAssumption DEF IInv, ClaimsInv, Remembered, WithdrawnInv
<1>7. PutInv(w)'
  <2>1. k.cand \in Known /\ Ready(k.cand, k.exp)
    BY <1>4 DEF TrackedInv
  <2>2. task'[t].pc = "sent" /\ task'[t].cand = k.cand /\ task'[t].exp = k.exp
    BY <1>2 DEF Advances
  <2>3. PICK c, e : c = k.cand /\ e = k.exp
    OBVIOUS
  <2>4. Ready(c, e)'
    BY <1>1, <2>1, <2>3 DEF Ready, Synced, Removing
  <2>5. /\ w.cand = c /\ w.match = e /\ w.st = "sent" /\ w.from = t
    BY <2>3
  <2>6. ASSUME NEW x, x = w PROVE PutInv(x)'
    <3>1. x.cand = c /\ x.match = e /\ x.st = "sent" /\ x.from = t
      BY <2>5, <2>6
    <3> QED
      BY <1>1, <1>6, <2>1, <2>2, <2>3, <2>4, <3>1 DEF PutInv, Known
  <2>7. w' = w
    BY <2>2
  <2> QED
    BY <2>6, <2>7
<1>8. ASSUME NEW x, x = w PROVE IInv'
  <2>1. /\ x.from = t /\ x.st = "sent" /\ x.kind = "put" /\ x.cand = k.cand
        /\ x \in Request
    BY <1>5, <1>8
  <2>2. w' = w
    BY <1>2 DEF Advances
  <2>3. PutInv(x)'
    BY <1>7, <1>8, <2>2
  <2>4. ClaimOf(t, x.cand) /\ Free(x.cand)
    BY <1>1, <2>1, FreeFacts DEF ClaimOf, Fresh
  <2>5. RequestsFrom(t) /\ WireInv' /\ wire' \subseteq Request
    <3> HIDE DEF w
    <3> QED
      BY <1>1, <1>3, <1>8, <2>1, <2>3, <2>4, RequestAdded
  <2> QED
    BY <1>1, <1>3, <2>5, PageStep
<1> QED
  BY <1>8

LEMMA AnswerKeeps ==
    ASSUME IInv, NEW t \in Tasks, NEW w \in wire, Answer(t, w)
    PROVE  IInv'
<1>0. TypeInv /\ WireInv /\ w \in Request
  BY DEF IInv, TypeInv
<1>1. /\ task[t].pc = "sent" /\ w.from = t
      /\ UNCHANGED <<snapshots, local, cred, session, remote, committed, withdrawn>>
      /\ Tracked(t)
  BY DEF Answer, Tracked
<1>2. w.kind = "put" /\ PutInv(w) /\ \A v \in wire : v.from = t => v = w
  BY <1>0, <1>1 DEF WireInv, DeleteInv, Request
<1>3. \A v \in Done(w) : v \in wire /\ v.from # t
  BY <1>2 DEF Done
<1>4. \A v \in Forget(w) : (v \in wire /\ v.from # t) \/ Left(v, w)
  BY <1>0, <1>3, ForgottenFacts DEF Done, Forget
<1>5. ASSUME OnlyTask(t), Milder(t), TaskInv(t)',
             wire' = Done(w) \/ (wire' = Forget(w) /\ ~CanFail(t)')
      PROVE  IInv'
  <2>1. RequestsFrom(t) /\ WireInv' /\ wire' \subseteq Request
    BY <1>1, <1>3, <1>4, <1>5, FewerRequests DEF Done
  <2> QED
    BY <1>1, <1>5, <2>1, PageStep
<1>6. CASE w.st = "landed" /\ Goes(t, "landed") /\ wire' = Done(w)
  <2>1. Advances(t, "landed") /\ <<task[t].pc, "landed">> \in Further
    BY <1>0, <1>1, <1>6, AdvanceType DEF Phases, Further
  <2>2. ~CanFail(t)'
    BY <2>1 DEF Advances, CanFail
  <2>3. task[t].cand \in committed
    BY <1>1, <1>2, <1>6 DEF PutInv
  <2>4. OnlyTask(t) /\ Milder(t) /\ TaskInv(t)'
    BY <1>1, <2>1, <2>2, <2>3, AdvanceIsMilder, AdvanceInv
  <2> QED
    BY <1>5, <1>6, <2>4
<1>7. CASE w.st = "sent" /\ IsDefinite(w) /\ Goes(t, "failed") /\ wire' = Done(w)
  <2>1. Advances(t, "failed") /\ <<task[t].pc, "failed">> \in Further
    BY <1>0, <1>1, <1>7, AdvanceType DEF Phases, Further
  <2>2. CanFail(t)
    BY <1>1, <1>7 DEF CanFail, IsDefinite
  <2>4. OnlyTask(t) /\ Milder(t) /\ TaskInv(t)'
    BY <1>1, <2>1, <2>2, AdvanceIsMilder, AdvanceInv
  <2> QED
    BY <1>5, <1>7, <2>4
<1>8. CASE StaysPending(t) /\ (wire' = Done(w) \/ wire' = Forget(w))
  <2>1. OnlyTask(t) /\ Milder(t) /\ TaskInv(t)' /\ ~CanFail(t)'
    BY <1>0, <1>1, <1>8, PendType, PendIsMilder
  <2> QED
    BY <1>5, <1>8, <2>1
<1> QED
  BY <1>6, <1>7, <1>8 DEF Answer

LEMMA CommitKeeps ==
    ASSUME IInv, NEW t \in Tasks, Commit(t)
    PROVE  IInv'
<1>1. /\ task[t].pc = "committing" /\ TypeInv
      /\ UNCHANGED <<snapshots, local, cred, remote, wire, committed, withdrawn>>
      /\ \/ session' = session
         \/ session' = [session EXCEPT ![Owner[t]] = task[t].cand]
  BY DEF Commit, IInv
<1>2. CASE task[t].op = "disable" /\ Removing(task[t].cand) /\ Goes(t, "removing")
  <2>1. Advances(t, "removing") /\ <<task[t].pc, "removing">> \in Further
    BY <1>1, <1>2, AdvanceType DEF Phases, Further
  <2>2. ~CanFail(t)'
    BY <2>1 DEF Advances, CanFail
  <2>3. OnlyTask(t) /\ Milder(t) /\ TaskInv(t)'
    BY <1>1, <1>2, <2>1, <2>2, AdvanceIsMilder, AdvanceInv
  <2> QED
    BY <1>1, <2>3, QuietPage
<1>3. CASE Ends(t)
  <2>1. OnlyTask(t) /\ Milder(t) /\ TaskInv(t)'
    BY <1>1, <1>3, EndType, FinishIsMilder
  <2> QED
    BY <1>1, <2>1, QuietPage
<1> QED
  BY <1>2, <1>3 DEF Commit

LEMMA PrepareRemovalKeeps ==
    ASSUME IInv, NEW t \in Tasks, PrepareRemoval(t)
    PROVE  IInv'
<1> DEFINE k == task[t]
           w == [from |-> t, kind |-> "delete", cand |-> None, match |-> k.exp,
                 st |-> "sent", tries |-> 1]
<1>1. /\ k.pc = "removing" /\ TypeInv
      /\ UNCHANGED <<snapshots, local, cred, session, remote, committed, withdrawn>>
      /\ \/ Goes(t, "removed") /\ wire' = wire
         \/ Goes(t, "conflicted") /\ wire' = wire
         \/ Goes(t, "deleting") /\ wire' = wire \cup {w}
  BY DEF PrepareRemoval, IInv
<1>2. ASSUME NEW pc \in {"removed", "conflicted", "deleting"}, Goes(t, pc)
      PROVE  OnlyTask(t) /\ Milder(t) /\ TaskInv(t)' /\ Advances(t, pc)
  <2>1. Advances(t, pc) /\ <<k.pc, pc>> \in Further
    BY <1>1, <1>2, AdvanceType DEF Phases, Further
  <2>2. ~CanFail(t)'
    BY <2>1 DEF Advances, CanFail
  <2> QED
    BY <1>1, <2>1, <2>2, AdvanceIsMilder, AdvanceInv
<1>3. CASE wire' = wire
  BY <1>1, <1>2, <1>3, QuietPage
<1>4. CASE Goes(t, "deleting") /\ wire' = wire \cup {w}
  <2>1. OnlyTask(t) /\ Milder(t) /\ TaskInv(t)' /\ Advances(t, "deleting")
    BY <1>2, <1>4
  <2>2. w \in Request
    <3>1. k.exp \in Ids \cup {None}
      <4>1. RemovalInv(k)
        BY <1>1 DEF IInv, TasksInv, TaskInv
      <4>2. snapshots[k.cand] \in Snapshot
        BY <1>1, <4>1, IdsAreKnown DEF RemovalInv
      <4>3. TargetOf(k.cand) \in Ids \cup {None}
        BY <4>2 DEF Snapshot, TargetOf
      <4> QED
        BY <4>1, <4>3 DEF RemovalInv
    <3> QED
      BY <3>1 DEF Request
  <2>3. ASSUME NEW x, x = w PROVE IInv'
    <3>1. /\ x.from = t /\ x.st = "sent" /\ x.kind = "delete" /\ x.cand = None
          /\ x \in Request
      BY <2>2, <2>3
    <3>2. DeleteInv(x)' /\ Free(x.cand)
      BY <2>1, <3>1, FreeFacts DEF DeleteInv, Advances
    <3>3. RequestsFrom(t) /\ WireInv' /\ wire' \subseteq Request
      <4> HIDE DEF w
      <4> QED
        BY <1>1, <1>4, <2>1, <2>3, <3>1, <3>2, RequestAdded
    <3> QED
      BY <1>1, <2>1, <3>3, PageStep
  <2> QED
    BY <2>3
<1> QED
  BY <1>1, <1>3, <1>4

LEMMA RemovalAnswerKeeps ==
    ASSUME IInv, NEW t \in Tasks, NEW w \in wire, RemovalAnswer(t, w)
    PROVE  IInv'
<1> DEFINE pc == IF w.st = "landed" THEN "removed" ELSE "conflicted"
<1>1. /\ task[t].pc = "deleting" /\ w.from = t /\ TypeInv /\ WireInv
      /\ Goes(t, pc) /\ wire' = Done(w)
      /\ UNCHANGED <<snapshots, local, cred, session, remote, committed, withdrawn>>
  BY DEF RemovalAnswer, IInv
<1>2. pc \in {"removed", "conflicted"}
  OBVIOUS
<1> HIDE DEF pc
<1>3. Advances(t, pc) /\ <<task[t].pc, pc>> \in Further
  BY <1>1, <1>2, AdvanceType DEF Phases, Further
<1>4. ~CanFail(t)'
  BY <1>2, <1>3 DEF Advances, CanFail
<1>5. OnlyTask(t) /\ Milder(t) /\ TaskInv(t)'
  BY <1>1, <1>2, <1>3, <1>4, AdvanceIsMilder, AdvanceInv
<1>6. \A v \in wire' : v \in wire /\ v.from # t
  BY <1>1 DEF WireInv, Done
<1>7. RequestsFrom(t) /\ WireInv' /\ wire' \subseteq Request
  BY <1>1, <1>5, <1>6, FewerRequests
<1> QED
  BY <1>1, <1>5, <1>7, PageStep

LEMMA StopKeeps ==
    ASSUME IInv, NEW t \in Tasks, Stop(t)
    PROVE  IInv'
<1>1. /\ Ends(t) /\ TypeInv
      /\ wire' = {w \in wire : w.from # t} \cup
                 UNION {Forgotten(w) : w \in {v \in wire : v.from = t}}
      /\ UNCHANGED <<snapshots, local, cred, session, remote, committed, withdrawn>>
  BY DEF Stop, IInv
<1>2. Finishes(t)
  BY <1>1, EndType
<1>3. OnlyTask(t) /\ Milder(t) /\ TaskInv(t)'
  BY <1>2, FinishIsMilder
<1>4. ~CanFail(t)'
  BY <1>2 DEF Finishes, Idle, CanFail
<1>5. ASSUME NEW w \in wire'
      PROVE  \/ w \in wire /\ w.from # t
             \/ \E v \in wire : v.from = t /\ Left(w, v)
  <2>1. CASE w \in UNION {Forgotten(v) : v \in {x \in wire : x.from = t}}
    <3>1. PICK v \in wire : v.from = t /\ w \in Forgotten(v)
      BY <2>1
    <3>2. v \in Request
      BY <1>1 DEF TypeInv
    <3> QED
      BY <3>1, <3>2, ForgottenFacts
  <2> QED
    BY <1>1, <1>5, <2>1
<1>6. RequestsFrom(t) /\ WireInv' /\ wire' \subseteq Request
  BY <1>1, <1>3, <1>4, <1>5, FewerRequests
<1> QED
  BY <1>1, <1>3, <1>6, PageStep

\* A step of the network between page t and the storage.
LEMMA NetworkStep ==
    ASSUME IInv, NEW t \in Tasks, wire' \subseteq Request,
           UNCHANGED <<snapshots, local, cred, session, task, remote, committed,
                       withdrawn>>,
           CanFail(t)' => CanFail(t), RequestsFrom(t), WireInv'
    PROVE  IInv'
<1>1. OnlyTask(t) /\ TaskInv(t) /\ TypeInv
  BY DEF IInv, TypeInv, OnlyTask, TasksInv
<1>2. TaskInv(t)'
  BY <1>1, TaskStays DEF SameButLive, Grows, Known
<1>3. Milder(t)
  BY DEF Milder, Committing, Maker, Tracked, Fresh, Tokens, Mentions
<1> QED
  BY <1>1, <1>2, <1>3, PageStep

LEMMA RequestFacts ==
    ASSUME IInv, NEW w \in wire
    PROVE  /\ w \in Request
           /\ w.kind = "put" => PutInv(w)
           /\ w.kind = "delete" => DeleteInv(w)
           /\ w.st # "sent" => w.from \in Tasks
           /\ w.from \in Tasks => /\ \A v \in wire : v.from = w.from => v = w
                                  /\ w.kind = "put" => task[w.from].pc = "sent"
                                  /\ w.kind = "delete" => task[w.from].pc = "deleting"
BY DEF IInv, TypeInv, WireInv, PutInv, DeleteInv

LEMMA AnswerRemovalKeeps ==
    ASSUME IInv, NEW w \in wire, AnswerRemoval(w)
    PROVE  IInv'
<1> DEFINE x == [w EXCEPT !.st = IF remote = None THEN "landed" ELSE "refused"]
           t == w.from
<1>1. /\ w.kind = "delete" /\ t # "nobody" /\ wire' = Done(w) \cup {x}
      /\ UNCHANGED <<snapshots, local, cred, session, task, remote, committed,
                     withdrawn>>
  BY DEF AnswerRemoval
<1>2. /\ w \in Request /\ DeleteInv(w) /\ t \in Tasks /\ task[t].pc = "deleting"
      /\ \A v \in wire : v.from = t => v = w
  BY <1>1, RequestFacts DEF Request
<1>3. ASSUME NEW y, y = x
      PROVE  /\ y \in Request /\ y.kind = "delete" /\ y.from = t
             /\ y.cand = w.cand /\ y.st # "sent"
  BY <1>1, <1>2, <1>3 DEF Request
<1> HIDE DEF x
<1>4. PICK y : y = x
  OBVIOUS
<1>5. wire' \subseteq Request
  BY <1>1, <1>2, <1>3, <1>4 DEF IInv, TypeInv, Done
<1>6. RequestsFrom(t)
  <2>1. ASSUME NEW v \in wire', v.kind = "put", v.st = "sent"
        PROVE  \E f : ClaimOf(f, v.cand) /\ (f = v.from \/ ~CanFail(f)')
    <3>1. v \in wire
      BY <1>1, <1>3, <1>4, <2>1 DEF Done
    <3> QED
      BY <2>1, <3>1 DEF ClaimOf
  <2> QED
    BY <1>1, <1>3, <1>4, <2>1 DEF RequestsFrom, NewRequests, Done
<1>7. WireInv'
  <2>1. ASSUME NEW v \in wire
        PROVE  /\ v.kind = "put" => PutInv(v)'
               /\ v.kind = "delete" => DeleteInv(v)'
               /\ v.st # "sent" => v.from \in Tasks
    BY <1>1, <2>1, RequestFacts DEF PutInv, DeleteInv, Known, Ready, Synced, Removing
  <2>2. DeleteInv(y)'
    BY <1>1, <1>2, <1>3, <1>4 DEF DeleteInv
  <2>3. \A v, z \in wire' : v.from = z.from /\ v.from \in Tasks => v = z
    BY <1>1, <1>2, <1>3, <1>4, RequestFacts DEF Done
  <2> QED
    BY <1>1, <1>2, <1>3, <1>4, <2>1, <2>2, <2>3 DEF WireInv, Done
<1>8. ~CanFail(t)'
  BY <1>1, <1>2 DEF CanFail
<1> QED
  BY <1>1, <1>2, <1>5, <1>6, <1>7, <1>8, NetworkStep

LEMMA SendAgainKeeps ==
    ASSUME IInv, NEW w \in wire, SendAgain(w)
    PROVE  IInv'
<1> DEFINE x == [w EXCEPT !.st = "sent", !.tries = 2]
           t == w.from
<1>1. /\ t # "nobody" /\ wire' = Forget(w) \cup {x}
      /\ UNCHANGED <<snapshots, local, cred, session, task, remote, committed,
                     withdrawn>>
  BY DEF SendAgain
<1>2. /\ w \in Request /\ t \in Tasks
      /\ w.kind = "put" => PutInv(w) /\ task[t].pc = "sent"
      /\ w.kind = "delete" => DeleteInv(w) /\ task[t].pc = "deleting"
      /\ \A v \in wire : v.from = t => v = w
  BY <1>1, RequestFacts DEF Request
<1>3. ASSUME NEW y, y = x
      PROVE  /\ y \in Request /\ y.kind = w.kind /\ y.from = t
             /\ y.cand = w.cand /\ y.match = w.match /\ y.st = "sent" /\ y.tries = 2
  <2>1. 2 \in 1 .. 2
    OBVIOUS
  <2> QED
    BY <1>2, <1>3, <2>1 DEF Request
<1> HIDE DEF x
<1>4. PICK y : y = x
  OBVIOUS
<1>5. \A v \in Forgotten(w) : Left(v, w)
  BY <1>2, ForgottenFacts
<1>6. ASSUME NEW v \in wire'
      PROVE  \/ v \in wire /\ v.from # t
             \/ v = y
             \/ Left(v, w)
  BY <1>1, <1>2, <1>4, <1>5, <1>6 DEF Forget
<1>7. wire' \subseteq Request
  BY <1>3, <1>4, <1>6 DEF IInv, TypeInv, Left
<1>8. ~CanFail(t)' \/ CanFail(t)
  <2>1. task[t].pc = "sent" => ~\E v \in wire' : v.from = t /\ v.st = "sent" /\ v.tries = 1
    BY <1>2, <1>3, <1>4, <1>6, TasksAssumption DEF Left
  <2> QED
    BY <1>1, <2>1 DEF CanFail
<1>9. task[t].pc = "sent" => ~CanFail(t)'
  <2>1. ~\E v \in wire' : v.from = t /\ v.st = "sent" /\ v.tries = 1
    BY <1>2, <1>3, <1>4, <1>6, TasksAssumption DEF Left
  <2> QED
    BY <1>1, <2>1 DEF CanFail
<1>10. RequestsFrom(t)
  <2>1. NewRequests(t)
    BY <1>3, <1>4, <1>6 DEF NewRequests, Left
  <2>2. ASSUME NEW v \in wire', v.kind = "put", v.st = "sent", v.cand \notin committed
        PROVE  \E f : ClaimOf(f, v.cand) /\ (f = v.from \/ ~CanFail(f)')
    <3>1. CASE v \in wire /\ v.from # t
      BY <2>2, <3>1 DEF ClaimOf
    <3>2. CASE v = y \/ Left(v, w)
      <4>1. w.kind = "put" /\ w.cand = v.cand /\ task[t].pc = "sent"
        BY <1>2, <1>3, <1>4, <2>2, <3>2 DEF Left
      <4>2. w.st = "sent"
        BY <1>2, <2>2, <4>1 DEF PutInv, Request
      <4> QED
        BY <1>9, <4>1, <4>2 DEF ClaimOf
    <3> QED
      BY <1>6, <2>2, <3>1, <3>2
  <2>3. \A v \in wire' : \E z \in wire : z.cand = v.cand
    BY <1>3, <1>4, <1>6 DEF Left
  <2> QED
    BY <2>1, <2>2, <2>3 DEF RequestsFrom
<1>11. WireInv'
  <2>1. ASSUME NEW v \in wire
        PROVE  /\ v.kind = "put" => PutInv(v)'
               /\ v.kind = "delete" => DeleteInv(v)'
               /\ v.st # "sent" => v.from \in Tasks
    BY <1>1, <2>1, RequestFacts DEF PutInv, DeleteInv, Known, Ready, Synced, Removing
  <2>2. w.kind = "put" => w.cand \notin withdrawn
    BY <1>2 DEF PutInv, IInv, WithdrawnInv, Request
  <2>3. ASSUME NEW v, v = y \/ Left(v, w), v.from = t \/ v.from = "nobody"
        PROVE  /\ v.kind = "put" => PutInv(v)'
               /\ v.kind = "delete" => DeleteInv(v)'
               /\ v.st = "sent"
    <3>1. /\ v.kind = w.kind /\ v.cand = w.cand /\ v.match = w.match /\ v.st = "sent"
      BY <1>3, <1>4, <2>3 DEF Left
    <3>2. v.kind = "put" => PutInv(v)'
      BY <1>1, <1>2, <2>2, <2>3, <3>1, TasksAssumption
         DEF PutInv, Known, Ready, Synced, Removing
    <3>3. v.kind = "delete" => DeleteInv(v)'
      BY <1>1, <1>2, <2>3, <3>1, TasksAssumption DEF DeleteInv
    <3> QED
      BY <3>1, <3>2, <3>3
  <2>4. y.from = t /\ \A v : Left(v, w) => v.from = "nobody"
    BY <1>3, <1>4 DEF Left
  <2>5. \A v, z \in wire' : v.from = z.from /\ v.from \in Tasks => v = z
    BY <1>6, <2>4, TasksAssumption, RequestFacts
  <2>6. ASSUME NEW v \in wire'
        PROVE  /\ v.kind = "put" => PutInv(v)'
               /\ v.kind = "delete" => DeleteInv(v)'
               /\ v.st # "sent" => v.from \in Tasks
    BY <1>6, <2>1, <2>3, <2>4, <2>6
  <2> QED
    BY <2>5, <2>6 DEF WireInv
<1> QED
  BY <1>1, <1>2, <1>7, <1>8, <1>10, <1>11, NetworkStep

-----------------------------------------------------------------------------
(* The session of a device is opened or closed                               *)

\* The end of a session marks the operations of its device, and may be the end
\* of one that failed.
Ended(t) == [u \in Tasks |-> IF u = t THEN Idle ELSE task[u]]

LEMMA OutlivedTypes ==
    ASSUME NEW d, NEW tasks \in [Tasks -> Task]
    PROVE  /\ Outlived(tasks, d) \in [Tasks -> Task]
           /\ \A u \in Tasks : LET k == tasks[u]
                                   j == Outlived(tasks, d)[u]
                               IN  /\ j.live = (k.live /\ Owner[u] # d)
                                   /\ j.pc = k.pc /\ j.op = k.op /\ j.base = k.base
                                   /\ j.cand = k.cand /\ j.exp = k.exp /\ j.mine = k.mine
                                   /\ j.clear = k.clear /\ j.back = k.back
                                   /\ ~k.live => j = k
<1> SUFFICES ASSUME NEW u \in Tasks
             PROVE  LET k == tasks[u]
                        j == Outlived(tasks, d)[u]
                    IN  /\ j \in Task
                        /\ j.live = (k.live /\ Owner[u] # d)
                        /\ j.pc = k.pc /\ j.op = k.op /\ j.base = k.base
                        /\ j.cand = k.cand /\ j.exp = k.exp /\ j.mine = k.mine
                        /\ j.clear = k.clear /\ j.back = k.back
                        /\ ~k.live => j = k
  BY DEF Outlived
<1> DEFINE k == tasks[u]
           live == k.live /\ Owner[u] # d
           new == [k EXCEPT !.live = live]
<1>1. Outlived(tasks, d)[u] = new
  BY DEF Outlived
<1>2. k \in Task /\ live \in BOOLEAN
  BY DEF Task
<1>3. /\ new \in Task /\ new.live = live
      /\ new.pc = k.pc /\ new.op = k.op /\ new.base = k.base /\ new.cand = k.cand
      /\ new.exp = k.exp /\ new.mine = k.mine /\ new.clear = k.clear
      /\ new.back = k.back
  <2> HIDE DEF live, k
  <2> QED
    BY <1>2 DEF Task
<1>4. ~k.live => new = k
  <2> SUFFICES ASSUME ~k.live PROVE new = k
    OBVIOUS
  <2>1. k.live = live
    BY <1>2 DEF Task
  <2> HIDE DEF live, k
  <2>2. [k EXCEPT !.live = k.live] = k
    BY <1>2 DEF Task
  <2> QED
    BY <2>1, <2>2
<1> HIDE DEF new
<1> QED
  BY <1>1, <1>3, <1>4

LEMMA SessionStep ==
    ASSUME IInv, NEW d \in Devices, NEW t, t \in Tasks => task[t].pc = "failed",
           UNCHANGED <<snapshots, local, cred, remote, wire, committed, withdrawn>>,
           NEW v \in Known \cup {None}, session' = [session EXCEPT ![d] = v],
           task' = Outlived(Ended(t), d)
    PROVE  IInv'
<1>0. TypeInv /\ TasksInv /\ LiveInv /\ WireInv /\ TokensInv
  BY DEF IInv
<1>1. /\ task' \in [Tasks -> Task]
      /\ \A u \in Tasks : u # t => SameButLive(u)
      /\ \A u \in Tasks : task'[u].live => Owner[u] # d /\ task[u].live
      /\ t \in Tasks => task'[t] = Idle
  <2>1. Ended(t) \in [Tasks -> Task]
    BY <1>0, NoneIsTyped DEF Ended, TypeInv
  <2>2. ~Idle.live
    BY DEF Idle
  <2>3. \A u \in Tasks : task[u].pc = "idle" => task[u] = Idle
    BY <1>0 DEF TasksInv, TaskInv
  <2>4. \A u \in Tasks : Ended(t)[u] = IF u = t THEN Idle ELSE task[u]
    BY DEF Ended
  <2>5. ASSUME NEW u \in Tasks, u # t
        PROVE  SameButLive(u) /\ (task'[u].live => Owner[u] # d /\ task[u].live)
    <3>1. Ended(t)[u] = task[u]
      BY <2>4, <2>5
    <3>2. \A f : f = Ended(t)[u] => f = task[u]
      BY <3>1
    <3>3. /\ task'[u].live = (task[u].live /\ Owner[u] # d)
          /\ task'[u].pc = task[u].pc /\ task'[u].op = task[u].op
          /\ task'[u].base = task[u].base /\ task'[u].cand = task[u].cand
          /\ task'[u].exp = task[u].exp /\ task'[u].mine = task[u].mine
          /\ task'[u].clear = task[u].clear /\ task'[u].back = task[u].back
          /\ ~task[u].live => task'[u] = task[u]
      BY <2>1, <3>1, OutlivedTypes
    <3> QED
      BY <2>2, <2>3, <3>3 DEF SameButLive
  <2>6. ASSUME t \in Tasks PROVE task'[t] = Idle
    BY <2>1, <2>2, <2>4, <2>6, OutlivedTypes
  <2>7. task' \in [Tasks -> Task]
    BY <2>1, OutlivedTypes
  <2> QED
    BY <2>2, <2>5, <2>6, <2>7
<1>2. /\ session'[d] = v
      /\ \A e \in Devices : e # d => session'[e] = session[e]
      /\ session' \in [Devices -> Known \cup {None}]
  BY <1>0 DEF TypeInv
<1>3. TypeInv' /\ Grows
  BY <1>0, <1>1, <1>2 DEF TypeInv, Grows, Known
<1>4. t \in Tasks => /\ task'[t].pc = "idle" /\ ~task'[t].live
                     /\ task'[t].base = None /\ task'[t].cand = None
                     /\ Tokens(t)' = {0}
  BY <1>1 DEF Idle, NoRecord, Tokens
<1>5. TasksInv'
  <2>1. ASSUME NEW u \in Tasks PROVE TaskInv(u)'
    <3>1. CASE u # t
      BY <1>0, <1>1, <1>3, <3>1, TaskStays DEF TasksInv
    <3>2. CASE u = t
      BY <1>1, <1>4, <3>2 DEF TaskInv, Tracked
    <3> QED
      BY <3>1, <3>2
  <2> QED
    BY <2>1 DEF TasksInv
<1>6. WireInv'
  <2>1. ASSUME NEW w \in wire
        PROVE  /\ w.kind = "put" => PutInv(w)'
               /\ w.kind = "delete" => DeleteInv(w)'
               /\ w.st # "sent" => w.from \in Tasks
    <3>1. w.from \in Tasks => SameButLive(w.from)
      BY <1>1, RequestFacts, NothingAwaited
    <3>2. /\ w.kind = "put" => PutInv(w)
          /\ w.kind = "delete" => DeleteInv(w)
          /\ w.st # "sent" => w.from \in Tasks
      BY RequestFacts
    <3> QED
      BY <3>1, <3>2 DEF PutInv, DeleteInv, SameButLive, Known, Ready, Synced, Removing
  <2> QED
    BY <1>0, <2>1 DEF WireInv
<1>7. TokensInv'
  <2>1. \A u \in Tasks : Tokens(u)' = Tokens(u) \/ Tokens(u)' = {0}
    BY <1>1, <1>4 DEF SameButLive, Tokens
  <2>2. ASSUME NEW u \in Tasks, task'[u].pc \in Holding
        PROVE  /\ task[u].pc \in Holding /\ task'[u].clear = task[u].clear
    BY <1>1, <1>4, <2>2 DEF SameButLive, Holding
  <2>3. ASSUME NEW u \in Tasks, task[u].pc \in Holding
        PROVE  /\ task[u].clear.tok # 0 /\ task[u].clear.tok # cred[Owner[u]].tok
               /\ \A p \in Tasks \ {u} : Owner[p] = Owner[u] =>
                      task[u].clear.tok \notin Tokens(p)
    BY <1>0, <2>3 DEF TokensInv, Tokens, Holding
  <2>4. ASSUME NEW u \in Tasks, task'[u].pc \in Holding
        PROVE  /\ task'[u].clear.tok # 0 /\ task'[u].clear.tok # cred'[Owner[u]].tok
               /\ \A p \in Tasks \ {u} : Owner[p] = Owner[u] =>
                      task'[u].clear.tok \notin Tokens(p)'
    BY <2>1, <2>2, <2>3, <2>4
  <2> QED
    BY <2>4 DEF TokensInv, Tokens, Holding
<1>8. SameFailures("nobody") /\ SameMakers /\ SameCommitting
  <2>1. ASSUME NEW u \in Tasks, CanFail(u)' \/ Committing(u)'
        PROVE  u # t /\ SameButLive(u)
    BY <1>1, <1>4, <2>1 DEF CanFail, Committing, Maker, Tracked
  <2>2. \A u \in Tasks : CanFail(u)' => CanFail(u)
    BY <2>1 DEF CanFail, SameButLive
  <2>3. \A u \in Tasks : Maker(u)' => Committing(u)'
    BY DEF Committing
  <2>4. \A u \in Tasks : SameButLive(u) => (Maker(u)' => Maker(u)) /\ (Committing(u)' => Committing(u))
    BY DEF SameButLive, Maker, Tracked, Committing
  <2> QED
    BY <2>1, <2>2, <2>3, <2>4 DEF SameFailures, SameMakers, SameCommitting, SameButLive
<1>9. ClaimsFrom
  <2>1. \A u \in Tasks : task'[u].pc = "staged" =>
            task[u].pc = "staged" /\ task'[u].cand = task[u].cand
    BY <1>1, <1>4 DEF SameButLive
  <2> QED
    BY <2>1 DEF ClaimsFrom, ClaimOf
<1>10. LiveFrom
  <2>1. \A u \in Tasks : Fresh(u)' =>
           /\ Fresh(u) /\ task'[u].cand = task[u].cand
           /\ session'[Owner[u]] = session[Owner[u]]
    BY <1>1, <1>2, <1>4, OwnerAssumption DEF Fresh, SameButLive
  <2>2. \A u \in Tasks : task'[u].live => session'[Owner[u]] # None
    BY <1>0, <1>1, <1>2, OwnerAssumption DEF LiveInv
  <2>3. ASSUME NEW u \in Tasks, NEW s \in Mentions(u)'
        PROVE  s \in Mentions(u) \/ Free(s)
    BY <1>1, <1>4, <2>3, FreeFacts DEF Mentions, SameButLive
  <2> QED
    BY <2>1, <2>2, <2>3 DEF LiveFrom
<1>11. SessionFrom
  BY <1>1, <1>2 DEF SessionFrom, Inert
<1> QED
  BY <1>3, <1>5, <1>6, <1>7, <1>8, <1>9, <1>10, <1>11, QuietStep

\* A session is opened where its unlock has read, whatever happened since.
LEMMA FinishUnlockKeeps ==
    ASSUME IInv, OpeningInv, NEW t \in Tasks, FinishUnlock(t)
    PROVE  IInv'
<1>1. Ended("nobody") = task
  BY TasksAssumption DEF Ended, IInv, TypeInv
<1>2. PICK d \in Devices : d = Owner[t]
  BY OwnerAssumption
<1>3. PICK s \in Known : s = opening[t]
  BY DEF OpeningInv, FinishUnlock
<1> QED
  BY <1>1, <1>2, <1>3, SessionStep, TasksAssumption DEF FinishUnlock

LEMMA LockKeeps ==
    ASSUME IInv, NEW d \in Devices, Lock(d)
    PROVE  IInv'
<1>1. Ended("nobody") = task
  BY TasksAssumption DEF Ended, IInv, TypeInv
<1> QED
  BY <1>1, SessionStep, TasksAssumption DEF Lock

\* Only what an unlock has read changes, if anything.
Calm == UNCHANGED <<snapshots, local, cred, session, task, remote, wire, committed,
                    withdrawn>>

LEMMA StutterKeeps ==
    ASSUME IInv, Calm
    PROVE  IInv'
<1>1. /\ TypeInv' /\ Grows
  BY DEF IInv, TypeInv, Grows, Known, Calm
<1>2. TasksInv'
  <2>1. \A u \in Tasks : SameButLive(u) /\ TaskInv(u)
    BY DEF Calm, SameButLive, IInv, TasksInv
  <2> QED
    BY <1>1, <2>1, TaskStays DEF TasksInv, IInv
<1>3. WireInv' /\ TokensInv'
  BY DEF IInv, WireInv, PutInv, DeleteInv, TokensInv, Known, Ready, Synced, Removing, Calm
<1>4. SameFailures("nobody") /\ SameMakers /\ SameCommitting
  BY DEF SameFailures, SameMakers, SameCommitting, CanFail, Maker, Tracked, Committing, Calm
<1>5. ClaimsFrom /\ SessionFrom
  BY DEF ClaimsFrom, ClaimOf, SessionFrom, Inert, Calm
<1>6. LiveFrom
  BY DEF IInv, LiveInv, LiveFrom, Fresh, Free, Mentions, Known, Calm
<1> QED
  BY <1>1, <1>2, <1>3, <1>4, <1>5, <1>6, QuietStep DEF Calm

-----------------------------------------------------------------------------
(* A step that replaces the record of one device                             *)

\* Rolling back on another device is not concerned.
LEMMA ShieldElsewhere ==
    ASSUME NEW t \in Tasks, SameFailures(t), committed \subseteq committed',
           NEW d, Owner[t] # d, NEW c, NEW a, NEW f, NEW g,
           Shielded(d, c, a, f), f = g \/ ~CanFail(f)'
    PROVE  Shielded(d, c, a, g)'
<1>1. PICK X \in SUBSET Artifact : /\ a \in X
                                   /\ c \notin committed => \A x \in X : x.cand = c
                                   /\ Closed(X, d, c, f)
  BY DEF Shielded
<1>2. Closed(X, d, c, g)'
  BY <1>1 DEF Closed, SameFailures
<1> QED
  BY <1>1, <1>2 DEF Shielded

\* Records that the operation stores itself are fresh, and the rest of what may
\* come back does without them.
LEMMA ShieldStep ==
    ASSUME TypeInv, NEW t \in Tasks, SameFailures(t), committed \subseteq committed',
           NEW d, d = Owner[t], NEW n, Unused(n, d),
           NEW c, CanFail(t)' /\ task'[t].cand = c => task'[t].mine.tok = n,
           NEW a, a.tok # n, NEW f, NEW g,
           Shielded(d, c, a, f), f = g \/ ~CanFail(f)'
    PROVE  Shielded(d, c, a, g)'
<1>1. PICK X \in SUBSET Artifact : /\ a \in X
                                   /\ c \notin committed => \A x \in X : x.cand = c
                                   /\ Closed(X, d, c, f)
  BY DEF Shielded
<1>2. PICK Y : Y = {x \in X : x.tok # n}
  OBVIOUS
<1>3. Closed(Y, d, c, g)'
  <2> SUFFICES ASSUME NEW u \in Tasks, Owner[u] = d, u # g, CanFail(u)',
                      task'[u].cand = c, task'[u].mine \in Y
               PROVE  task'[u].op = "upload" /\ task'[u].back \in Y
    BY DEF Closed
  <2>1. u # t
    BY <1>2
  <2>2. /\ CanFail(u) /\ task'[u].op = task[u].op /\ task[u].cand = c
        /\ task'[u].mine = task[u].mine /\ task'[u].back = task[u].back
    BY <2>1 DEF SameFailures
  <2>3. task[u].op = "upload" /\ task[u].back \in X
    BY <1>1, <1>2, <2>2 DEF Closed
  <2>4. task[u].back.tok # n
    BY DEF Unused
  <2> QED
    BY <1>2, <2>2, <2>3, <2>4
<1>4. Y \in SUBSET Artifact /\ a \in Y /\ (c \notin committed' => \A x \in Y : x.cand = c)
  BY <1>1, <1>2
<1> QED
  BY <1>3, <1>4 DEF Shielded

\* A record that no other operation holds can only be rolled back by its own.
LEMMA ShieldAlone ==
    ASSUME NEW d, NEW c, NEW a \in Artifact, NEW g,
           c \notin committed' => a.cand = c,
           \A u \in Tasks \ {g} : Owner[u] = d /\ CanFail(u)' => task'[u].mine # a
    PROVE  Shielded(d, c, a, g)'
<1>1. Closed({a}, d, c, g)'
  BY DEF Closed
<1>2. {a} \in SUBSET Artifact
  OBVIOUS
<1> QED
  BY <1>1, <1>2 DEF Shielded

LEMMA RecordStep ==
    ASSUME IInv, NEW t \in Tasks, task[t].pc \notin {"sent", "deleting"},
           OnlyTask(t), TaskInv(t)', NEW d, d = Owner[t], NEW a \in Artifact,
           cred' = [cred EXCEPT ![d] = a],
           UNCHANGED <<snapshots, local, session, remote, wire, committed, withdrawn>>,
           HasMarker(a) => a.cand = local[d] /\ Ready(local[d], a.exp),
           \* records
           Comes(a.tok, t), \A m \in Tokens(t)' : Comes(m, t),
           task'[t].pc \in Holding =>
              task'[t].clear.tok # a.tok /\ Unused(task'[t].clear.tok, d),
           NEW n, Unused(n, d), CanFail(t)' => task'[t].mine.tok = n,
           \* the operation
           Maker(t)' => /\ Maker(t) /\ CanFail(t)
                        /\ task'[t].base = task[t].base /\ task'[t].cand = task[t].cand
                        /\ task'[t].back = task[t].back,
           Committing(t)' => Committing(t) /\ task'[t].cand = task[t].cand,
           task'[t].pc # "persisted", task'[t].live => task[t].live,
           \A s \in Mentions(t)' : s \in Mentions(t) \/ Free(s),
           \* what the record has to remember
           Content(local[d]) \in committed => Shielded(d, Content(local[d]), a, "nobody")',
           \A f, c : ClaimOf(f, c) /\ c \notin committed /\ Remembered(d, c, f)
                     => Remembered(d, c, f)',
           task'[t].pc = "staged" /\ task'[t].cand \notin committed
              => Remembered(d, task[t].cand, t)'
    PROVE  IInv'
<1>0. /\ TypeInv /\ TasksInv /\ LiveInv /\ WireInv /\ TokensInv /\ ClaimsInv
      /\ d \in Devices
      /\ \A u \in Tasks \ {t} : task'[u] = task[u] /\ SameButLive(u)
      /\ cred'[d] = a /\ \A e \in Devices : e # d => cred'[e] = cred[e]
  BY DeviceTypes DEF IInv, OnlyTask, SameButLive, TypeInv
<1>1. TypeInv' /\ Grows
  BY <1>0 DEF TypeInv, Grows, Known, OnlyTask
<1>2. TasksInv'
  BY <1>0, <1>1, OthersStay
<1>3. RequestsFrom(t) /\ WireInv'
  BY NothingAwaited, FewerRequests
<1>4. TokensInv'
  BY <1>0, TokensKept
<1>5. SameFailures(t)
  BY <1>0, <1>3, OthersFail DEF RequestsFrom
<1>6. SameMakers
  BY <1>0 DEF SameMakers, SameButLive, Maker, Tracked
<1>7. SameCommitting
  BY <1>0 DEF SameCommitting, SameButLive, Committing, Maker, Tracked
<1>8. SnapshotsInv'
  BY <1>0, SnapshotsKept DEF IInv
<1>9. CountsInv'
  BY <1>6, CountsKept DEF IInv
<1>10. MarkersInv'
  <2>1. ASSUME NEW e \in Devices, NEW x, x = cred'[e], HasMarker(x)
        PROVE  x.cand = local[e] /\ Ready(local[e], x.exp)
    BY <1>0, <2>1 DEF IInv, MarkersInv
  <2> QED
    BY <2>1 DEF MarkersInv, HasMarker, Ready, Synced, Removing
<1>11. LiveInv'
  <2>1. \A u \in Tasks : task'[u].live => session'[Owner[u]] # None
    BY <1>0 DEF LiveInv
  <2>2. \A u \in Tasks : Fresh(u)' => Fresh(u) /\ task'[u].cand = task[u].cand
    BY <1>0 DEF Fresh
  <2>3. \A u \in Tasks : \A s \in Mentions(u)' : s \in Mentions(u) \/ Free(s)
    BY <1>0 DEF Mentions
  <2>4. LiveFrom
    BY <2>1, <2>2, <2>3, <1>3 DEF LiveFrom, RequestsFrom
  <2> QED
    BY <1>0, <2>4, LiveKept
<1>12. SessionInv'
  <2>1. SessionFrom
    BY <1>0 DEF SessionFrom, Inert
  <2>2. \A u \in Tasks : Maker(u)' /\ CanFail(u)' => CanFail(u)
    BY <1>5 DEF SameFailures
  <2> QED
    BY <1>0, <1>6, <1>7, <2>1, <2>2, SessionKept DEF IInv
<1>13. WithdrawnInv'
  BY DEF IInv, WithdrawnInv, Synced
<1>14. ClaimsInv'
  <2>1. ASSUME NEW e \in Devices, e # d, NEW c, NEW f, Remembered(e, c, f)
        PROVE  Remembered(e, c, f)'
    <3>1. PICK x : x = cred[e] /\ x = cred'[e]
      BY <1>0, <2>1
    <3>2. Shielded(e, c, x, f)'
      BY <1>5, <2>1, <3>1, ShieldElsewhere DEF Remembered
    <3> QED
      BY <2>1, <3>1, <3>2 DEF Remembered
  <2>2. ASSUME NEW f, NEW c, ClaimOf(f, c), c \notin committed
        PROVE  \E e \in Devices : Remembered(e, c, f)'
    <3>1. PICK e \in Devices : Remembered(e, c, f)
      BY <1>0, <2>2, ClaimsAreRemembered
    <3> QED
      BY <2>1, <2>2, <3>1
  <2>3. ASSUME NEW w \in wire', w.kind = "put", w.st = "sent", w.cand \notin committed'
        PROVE  \E e \in Devices : Remembered(e, w.cand, w.from)'
    BY <2>2, <2>3 DEF ClaimOf
  <2>4. ASSUME NEW u \in Tasks, task'[u].pc = "staged", task'[u].cand \notin committed',
               NEW c, c = task'[u].cand
        PROVE  Remembered(Owner[u], c, u)'
    <3>1. CASE u = t
      <4>1. Remembered(d, task[t].cand, t)'
        BY <2>4, <3>1
      <4>2. c = task[t].cand'
        BY <2>4, <3>1
      <4> QED
        BY <3>1, <4>1, <4>2
    <3>2. CASE u # t
      <4>1. Remembered(Owner[u], c, u) /\ ClaimOf(u, c)
        BY <1>0, <2>4, <3>2 DEF ClaimsInv, ClaimOf
      <4> QED
        BY <2>1, <2>4, <4>1, OwnerAssumption
    <3> QED
      BY <3>1, <3>2
  <2>5. ASSUME NEW e \in Devices, Content(local[e])' \in committed'
        PROVE  Shielded(e, Content(local[e]), cred[e], "nobody")'
    <3>1. PICK c, x : c = Content(local[e]) /\ x = cred'[e]
      OBVIOUS
    <3>2. c = Content(local[e])'
      BY <3>1 DEF Content, Removing, RollbackOf
    <3>3. CASE e = d
      <4>1. Shielded(d, Content(local[d]), a, "nobody")'
        BY <2>5, <3>1, <3>2, <3>3
      <4> QED
        BY <1>0, <3>3, <4>1
    <3>4. CASE e # d
      <4>0. c \in committed /\ x = cred[e]
        BY <1>0, <2>5, <3>1, <3>2, <3>4
      <4>1. Shielded(e, c, x, "nobody")
        BY <1>0, <3>1, <4>0 DEF ClaimsInv
      <4>2. Shielded(e, c, x, "nobody")'
        BY <1>5, <3>4, <4>1, ShieldElsewhere
      <4> QED
        BY <3>1, <3>2, <4>2
    <3> QED
      BY <3>3, <3>4
  <2>6. ASSUME NEW u \in Tasks, Maker(u)', CanFail(u)', task'[u].base \in committed'
        PROVE  Shielded(Owner[u], task[u].base, task[u].back, "nobody")'
    <3>1. PICK c, x : c = task[u].base /\ x = task[u].back
      OBVIOUS
    <3>2. /\ Maker(u) /\ CanFail(u)
          /\ task'[u].base = task[u].base /\ task'[u].back = task[u].back
      BY <1>0, <1>5, <1>6, <2>6 DEF SameMakers, SameFailures
    <3>3. Shielded(Owner[u], c, x, "nobody")
      BY <1>0, <2>6, <3>1, <3>2 DEF ClaimsInv
    <3>4. CASE Owner[u] = d
      <4>1. x.tok # n
        BY <3>1, <3>4 DEF Unused
      <4>2. Shielded(d, c, x, "nobody")
        BY <3>3, <3>4
      <4>3. Shielded(d, c, x, "nobody")'
        BY <1>0, <1>5, <4>1, <4>2, ShieldStep
      <4> QED
        BY <3>1, <3>2, <3>4, <4>3
    <3>5. CASE Owner[u] # d
      <4>1. Shielded(Owner[u], c, x, "nobody")'
        BY <1>5, <3>3, <3>5, ShieldElsewhere
      <4> QED
        BY <3>1, <3>2, <4>1
    <3> QED
      BY <3>4, <3>5
  <2> QED
    BY <2>3, <2>4, <2>5, <2>6 DEF ClaimsInv
<1> QED
  BY <1>1, <1>2, <1>3, <1>4, <1>8, <1>9, <1>10, <1>11, <1>12, <1>13, <1>14 DEF IInv

\* A record an upload replaced by its own is as safe as that.
LEMMA ShieldBack ==
    ASSUME NEW d, NEW c, NEW a, NEW f, Shielded(d, c, a, f),
           NEW t \in Tasks, Owner[t] = d, t # f, CanFail(t),
           task[t].cand = c, task[t].mine = a
    PROVE  /\ task[t].op = "upload"
           /\ c \notin committed => task[t].back.cand = c
           /\ Shielded(d, c, task[t].back, f)
<1>1. PICK X \in SUBSET Artifact : /\ a \in X
                                   /\ c \notin committed => \A x \in X : x.cand = c
                                   /\ Closed(X, d, c, f)
  BY DEF Shielded
<1>2. task[t].op = "upload" /\ task[t].back \in X
  BY <1>1 DEF Closed
<1> QED
  BY <1>1, <1>2 DEF Shielded

LEMMA ShieldRestage ==
    ASSUME TypeInv, NEW t \in Tasks, SameFailures(t), committed \subseteq committed',
           NEW d, d = Owner[t], NEW n, Unused(n, d),
           NEW a \in Artifact, a.tok = n, NEW b, b.tok # n,
           task'[t].op = "upload", task'[t].mine = a, task'[t].back = b,
           NEW c, c \notin committed => a.cand = c,
           NEW f, Shielded(d, c, b, f)
    PROVE  Shielded(d, c, a, f)'
<1>1. PICK X \in SUBSET Artifact : /\ b \in X
                                   /\ c \notin committed => \A x \in X : x.cand = c
                                   /\ Closed(X, d, c, f)
  BY DEF Shielded
<1>2. PICK Y : Y = {x \in X : x.tok # n} \cup {a}
  OBVIOUS
<1>3. Closed(Y, d, c, f)'
  <2> SUFFICES ASSUME NEW u \in Tasks, Owner[u] = d, u # f, CanFail(u)',
                      task'[u].cand = c, task'[u].mine \in Y
               PROVE  task'[u].op = "upload" /\ task'[u].back \in Y
    BY DEF Closed
  <2>1. CASE u = t
    BY <1>1, <1>2, <2>1
  <2>2. CASE u # t
    <3>1. /\ CanFail(u) /\ task'[u].op = task[u].op /\ task[u].cand = c
          /\ task'[u].mine = task[u].mine /\ task'[u].back = task[u].back
      BY <2>2 DEF SameFailures
    <3>2. task[u].back.tok # n /\ task[u].mine.tok # n
      BY DEF Unused
    <3>3. task[u].mine \in X
      BY <1>2, <3>1, <3>2
    <3>4. task[u].op = "upload" /\ task[u].back \in X
      BY <1>1, <3>1, <3>3 DEF Closed
    <3> QED
      BY <1>2, <3>1, <3>2, <3>4
  <2> QED
    BY <2>1, <2>2
<1>4. Y \in SUBSET Artifact /\ a \in Y /\ (c \notin committed' => \A x \in Y : x.cand = c)
  BY <1>1, <1>2
<1> QED
  BY <1>3, <1>4 DEF Shielded

\* The operation of page t has marked its snapshot by record a.
StagesAs(t, a, z, b) ==
    /\ OnlyTask(t)
    /\ task'[t].pc = "staged"
    /\ task'[t].op = task[t].op /\ task'[t].live = task[t].live
    /\ task'[t].base = task[t].base /\ task'[t].cand = task[t].cand
    /\ task'[t].exp = task[t].exp
    /\ task'[t].mine = a /\ task'[t].clear = z /\ task'[t].back = b

LEMMA StageType ==
    ASSUME TypeInv, NEW t \in Tasks,
           NEW a \in Artifact, NEW z \in Artifact, NEW b \in Artifact,
           task' = [task EXCEPT ![t].pc = "staged", ![t].mine = a,
                                ![t].clear = z, ![t].back = b]
    PROVE  StagesAs(t, a, z, b)
<1> DEFINE k == task[t]
           new == [k EXCEPT !.pc = "staged", !.mine = a, !.clear = z, !.back = b]
<1>1. k \in Task
  BY DEF TypeInv
<1>2. /\ new \in Task /\ new.pc = "staged" /\ new.op = k.op /\ new.live = k.live
      /\ new.base = k.base /\ new.cand = k.cand /\ new.exp = k.exp
      /\ new.mine = a /\ new.clear = z /\ new.back = b
  <2> HIDE DEF k
  <2> QED
    BY <1>1 DEF Task, Phases
<1>3. task' = [task EXCEPT ![t] = new]
  BY DEF TypeInv
<1>4. OnlyTask(t) /\ task'[t] = new
  BY <1>2, <1>3, TaskUpdate
<1> HIDE DEF new
<1> QED
  BY <1>2, <1>4 DEF StagesAs

LEMMA StageStep ==
    ASSUME IInv, NEW t \in Tasks, task[t].pc \in {"persisted", "staging", "restaging"},
           task[t].live, NEW d, d = Owner[t], local[d] = task[t].cand,
           NEW n, NEW a \in Artifact, a.tok = n, a.cand = task[t].cand, a.exp = task[t].exp,
           NEW z \in Artifact, ~HasMarker(z), NEW b \in Artifact,
           Unused(n, d), Unused(z.tok, d), n # z.tok, StagesAs(t, a, z, b),
           cred' = [cred EXCEPT ![d] = a],
           UNCHANGED <<snapshots, local, session, remote, wire, committed, withdrawn>>,
           task[t].op # "upload" => b = task[t].back,
           task[t].op = "upload" =>
              /\ HasMarker(b) => b.cand = task[t].cand /\ b.exp = task[t].exp
              /\ Comes(b.tok, t) /\ b.tok # n
              /\ task[t].cand \in committed => Shielded(d, task[t].cand, b, "nobody"),
           \A f : /\ ClaimOf(f, task[t].cand)
                  /\ task[t].cand \notin committed
                  /\ Remembered(d, task[t].cand, f)
                  => task[t].op = "upload" /\ Shielded(d, task[t].cand, b, f)
    PROVE  IInv'
<1> DEFINE k == task[t]
           j == task'[t]
<1>0. /\ TypeInv /\ TasksInv /\ LiveInv /\ TaskInv(t) /\ d \in Devices
      /\ local[d] \in Known /\ k.op # "none"
  BY DeviceTypes DEF IInv, TasksInv, TaskInv
<1>1. /\ OnlyTask(t) /\ j.pc = "staged" /\ j.op = k.op /\ j.live = k.live
      /\ j.base = k.base /\ j.cand = k.cand /\ j.exp = k.exp
      /\ j.mine = a /\ j.clear = z /\ j.back = b
  BY DEF StagesAs
<1>2. k.op = "upload" => k.pc # "persisted" /\ UploadInv(k)
  BY <1>0 DEF TaskInv, Tracked, TrackedInv, MakerInv, RetryInv
<1>3. k.op # "upload" =>
         /\ k.pc = "persisted" /\ Tracked(t) /\ Maker(t) /\ CanFail(t)
         /\ TrackedInv(k, d) /\ MakerInv(k, d) /\ k.cand \notin committed /\ b = k.back
  <2> SUFFICES ASSUME k.op # "upload"
               PROVE  /\ k.pc = "persisted" /\ Tracked(t) /\ Maker(t) /\ CanFail(t)
                      /\ TrackedInv(k, d) /\ MakerInv(k, d) /\ k.cand \notin committed
                      /\ b = k.back
    OBVIOUS
  <2>1. k.pc = "persisted" /\ Tracked(t) /\ Maker(t) /\ CanFail(t)
    BY <1>0 DEF TaskInv, UploadInv, Tracked, Maker, CanFail
  <2> QED
    BY <1>0, <2>1 DEF TaskInv, TrackedInv, RetryInv, LiveInv
<1>4. /\ k.base \in Known /\ k.cand \in Known /\ Ready(k.cand, k.exp)
  BY <1>2, <1>3 DEF UploadInv, TrackedInv
<1>5. TaskInv(t)'
  <2>1. Grows /\ Known' = Known
    BY DEF Grows, Known
  <2>2. PICK base, cand, exp : base = k.base /\ cand = k.cand /\ exp = k.exp
    OBVIOUS
  <2>3. Ready(cand, exp)'
    BY <1>4, <2>1, <2>2, SnapshotsStay
  <2>4. k.op # "upload" => MakerInv(task[t], Owner[t])'
    <3>1. k.op # "upload" =>
            /\ Count(cand, d)' = Count(cand, d) /\ Count(base, d)' = Count(base, d)
            /\ Under(base, cand)' <=> Under(base, cand)
            /\ Removing(base)' <=> Removing(base) /\ Synced(base)' = Synced(base)
            /\ Ready(base, b.exp)' <=> Ready(base, b.exp)
      BY <1>4, <2>1, <2>2, SnapshotsStay
    <3> QED
      BY <1>1, <1>3, <2>2, <3>1 DEF MakerInv, HasMarker, Ready, Synced, Removing, Count, Under
  <2>5. k.op = "upload" => RetryInv(task[t])'
    BY <1>1, <1>2 DEF RetryInv, UploadInv, HasMarker
  <2>6. TrackedInv(task[t], Owner[t])'
    BY <1>1, <1>4, <2>1, <2>2, <2>3, <2>4, <2>5 DEF TrackedInv, HasMarker, Ready, Synced, Removing
  <2> QED
    BY <1>0, <1>1, <2>6 DEF TaskInv
<1>6. SameFailures(t)
  <2>1. \A u \in Tasks \ {t} : SameButLive(u)
    BY <1>1 DEF OnlyTask, SameButLive
  <2> QED
    BY <2>1, OthersFail DEF NewRequests
<1>7. Content(local[d]) = k.cand
  BY <1>4 DEF Content, RollbackOf, Ready
<1>8. ASSUME k.cand \in committed PROVE Shielded(d, k.cand, a, "nobody")'
  <2>1. k.op = "upload"
    BY <1>3, <1>8
  <2>2. PICK c : c = k.cand
    OBVIOUS
  <2>3. Shielded(d, c, a, "nobody")'
    BY <1>0, <1>1, <1>6, <1>8, <2>1, <2>2, ShieldRestage
  <2> QED
    BY <1>1, <2>2, <2>3
<1>9. ASSUME NEW f, NEW c, ClaimOf(f, c), c \notin committed, Remembered(d, c, f)
       PROVE  Remembered(d, c, f)'
  <2>1. c = k.cand /\ k.op = "upload" /\ Shielded(d, c, b, f)
    BY <1>9 DEF Remembered
  <2>2. Shielded(d, c, a, f)'
    BY <1>0, <1>1, <1>6, <1>9, <2>1, ShieldRestage
  <2>3. cred'[d] = a
    BY <1>0 DEF TypeInv
  <2> QED
    BY <1>9, <2>1, <2>2, <2>3 DEF Remembered
<1>10. Remembered(d, task[t].cand, t)'
  <2>1. PICK c : c = k.cand /\ c = j.cand
    BY <1>1
  <2>2. \A u \in Tasks \ {t} : Owner[u] = d => task'[u].mine # a
    BY <1>1 DEF OnlyTask, Unused
  <2>3. Shielded(d, c, a, t)'
    BY <2>1, <2>2, ShieldAlone
  <2>4. cred'[d] = a
    BY <1>0 DEF TypeInv
  <2> QED
    BY <2>1, <2>3, <2>4 DEF Remembered
<1>11. /\ Maker(t)' => k.op # "upload"
       /\ Committing(t)' => k.op # "upload"
       /\ ~Fresh(t)'
  BY <1>1 DEF Maker, Committing, Fresh
<1>12. Tokens(t)' = {n, z.tok, b.tok} /\ \A m \in Tokens(t)' : Comes(m, t)
  <2>1. Tokens(t)' = {n, z.tok, b.tok}
    BY <1>1 DEF Tokens
  <2>2. Comes(b.tok, t)
    BY <1>3 DEF Comes, Tokens
  <2> QED
    BY <2>1, <2>2 DEF Comes
<1>13. Mentions(t)' = Mentions(t)
  BY <1>1 DEF Mentions
<1>14. Content(local[d]) \in committed => Shielded(d, Content(local[d]), a, "nobody")'
  <2>1. PICK c : c = Content(local[d]) /\ c = Content(local[d])'
    BY DEF Content, Removing, RollbackOf
  <2>2. c \in committed => Shielded(d, c, a, "nobody")'
    BY <1>1, <1>7, <1>8, <2>1
  <2> QED
    BY <2>1, <2>2
<1>15. a.cand = local[d] /\ Ready(local[d], a.exp)
  BY <1>4
<1>16. Comes(a.tok, t)
  BY DEF Comes
<1>17. Maker(t)' => /\ Maker(t) /\ CanFail(t)
                    /\ j.base = k.base /\ j.cand = k.cand /\ j.back = k.back
  BY <1>1, <1>3, <1>11
<1>18. Committing(t)' => Committing(t) /\ j.cand = k.cand
  BY <1>1, <1>3, <1>11 DEF Committing
<1>19. k.pc \notin {"sent", "deleting"} /\ j.pc # "persisted" /\ (j.live => k.live)
  BY <1>1
<1>20. j.pc \in Holding => j.clear.tok # a.tok /\ Unused(j.clear.tok, d)
  BY <1>1
<1>21. CanFail(t)' => j.mine.tok = n
  BY <1>1
<1> HIDE DEF j, k
<1> QED
  BY <1>1, <1>5, <1>9, <1>10, <1>12, <1>13, <1>14, <1>15, <1>16, <1>17, <1>18, <1>19,
     <1>20, <1>21, RecordStep DEF j, k

\* The snapshot of a device is known, and so are the marks on it.
LEMMA StoreFacts ==
    ASSUME IInv, NEW t \in Tasks, NEW d, d = Owner[t]
    PROVE  /\ TypeInv /\ d \in Devices /\ local[d] \in Known /\ local[d] # None
           /\ cred[d] \in Artifact
           /\ [local EXCEPT ![d] = local[d]] = local
           /\ Unused(Token(d), d) /\ Unused(NextToken(d), d) /\ Token(d) # NextToken(d)
           /\ HasMarker(cred[d]) => cred[d].cand = local[d] /\ Ready(local[d], cred[d].exp)
           /\ \A f, c : Remembered(d, c, f) => /\ c = local[d] /\ HasMarker(cred[d])
                                               /\ Shielded(d, c, cred[d], f)
           /\ \A f : ClaimOf(f, local[d]) => f # t \/ task[t].pc \in {"sent", "staged"}
           /\ ~Removing(local[d]) => Content(local[d]) = local[d]
<1>1. TypeInv /\ d \in Devices /\ local[d] \in Known /\ local[d] # None /\ cred[d] \in Artifact
  BY DeviceTypes, IdsAreKnown, NoneIsTyped DEF IInv
<1>2. [local EXCEPT ![d] = local[d]] = local
  BY <1>1 DEF TypeInv
<1>3. \A f, c : Remembered(d, c, f) => /\ c = local[d] /\ HasMarker(cred[d])
                                       /\ Shielded(d, c, cred[d], f)
  BY <1>1 DEF Remembered, HasMarker
<1>4. \A f : ClaimOf(f, local[d]) => f # t \/ task[t].pc \in {"sent", "staged"}
  BY RequestFacts DEF ClaimOf
<1>5. HasMarker(cred[d]) => cred[d].cand = local[d] /\ Ready(local[d], cred[d].exp)
  BY <1>1 DEF IInv, MarkersInv
<1>6. ~Removing(local[d]) => Content(local[d]) = local[d]
  BY DEF Content, RollbackOf
<1> QED
  BY <1>1, <1>2, <1>3, <1>4, <1>5, <1>6, TokensAreUnused

\* Records that carry the marker of an operation, and none.
LEMMA MarkedFacts ==
    ASSUME IInv, NEW t \in Tasks, NEW n \in Nat
    PROVE  /\ Unmarked(n) \in Artifact /\ Unmarked(n).tok = n /\ ~HasMarker(Unmarked(n))
           /\ Tracked(t) \/ task[t].pc \in {"staging", "restaging"} =>
                 /\ Marked(t, n) \in Artifact /\ Marked(t, n).tok = n
                 /\ Marked(t, n).cand = task[t].cand /\ Marked(t, n).exp = task[t].exp
<1>1. Unmarked(n) \in Artifact /\ Unmarked(n).tok = n /\ ~HasMarker(Unmarked(n))
  BY DEF Unmarked, Artifact, HasMarker
<1>2. ASSUME Tracked(t) \/ task[t].pc \in {"staging", "restaging"}
      PROVE  /\ Marked(t, n) \in Artifact /\ Marked(t, n).tok = n
             /\ Marked(t, n).cand = task[t].cand /\ Marked(t, n).exp = task[t].exp
  <2>1. Ready(task[t].cand, task[t].exp)
    BY <1>2 DEF IInv, TasksInv, TaskInv, TrackedInv, UploadInv
  <2>2. task[t].cand \in Ids \cup {None} /\ task[t].exp \in Ids \cup {None}
    BY <2>1 DEF Ready, IInv, TypeInv, Task
  <2> QED
    BY <2>2 DEF Marked, Artifact
<1> QED
  BY <1>1, <1>2

LEMMA StageKeeps ==
    ASSUME IInv, NEW t \in Tasks, Stage(t)
    PROVE  IInv'
<1> DEFINE k == task[t]
<1>0. PICK d, n, m : d = Owner[t] /\ n = Token(d) /\ m = NextToken(d)
  OBVIOUS
<1>1. /\ k.pc \in {"persisted", "staging"} /\ k.live /\ local[d] = k.cand
      /\ UNCHANGED <<snapshots, session, remote, wire, committed, withdrawn>>
  BY <1>0 DEF Stage, InSession
<1>2. Tracked(t) \/ k.pc = "staging"
  BY <1>1 DEF Tracked
<1>3. CASE HasMarker(cred[d])
  <2>1. StaysPending(t) /\ UNCHANGED <<local, cred>>
    BY <1>0, <1>3 DEF Stage
  <2>2. Pends(t)
    BY <2>1, PendType DEF IInv
  <2> QED
    BY <1>1, <1>2, <2>1, <2>2, QuietEnd
<1>4. CASE ~HasMarker(cred[d])
  <2>1. PICK a, z, b : /\ a = Marked(t, n) /\ z = Unmarked(m)
                       /\ b = IF k.op = "upload" THEN z ELSE k.back
    OBVIOUS
  <2>2. /\ TypeInv /\ d \in Devices /\ Unused(n, d) /\ Unused(m, d) /\ n # m
        /\ n \in Nat /\ m \in Nat
    BY <1>0, StoreFacts DEF Unused
  <2>3. /\ local' = [local EXCEPT ![d] = local[d]]
        /\ cred' = [cred EXCEPT ![d] = a]
        /\ task' = [task EXCEPT ![t].pc = "staged", ![t].mine = a,
                                ![t].clear = z, ![t].back = b]
    BY <1>0, <1>4, <2>1 DEF Stage, Store, TypeInv
  <2>4. local' = local
    BY <1>0, <2>3, StoreFacts
  <2>5. /\ a \in Artifact /\ a.tok = n /\ a.cand = k.cand /\ a.exp = k.exp
        /\ z \in Artifact /\ z.tok = m /\ ~HasMarker(z)
    BY <1>2, <2>1, <2>2, MarkedFacts
  <2>6. b \in Artifact /\ (k.op = "upload" => b = z) /\ (k.op # "upload" => b = k.back)
    BY <2>1, <2>5, DeviceTypes DEF IInv
  <2>7. StagesAs(t, a, z, b)
    BY <2>2, <2>3, <2>5, <2>6, StageType
  <2>8. k.op = "upload" => /\ HasMarker(b) => b.cand = k.cand /\ b.exp = k.exp
                           /\ Comes(b.tok, t) /\ b.tok # n
    BY <1>0, <2>2, <2>5, <2>6 DEF Comes
  <2>9. ASSUME k.op = "upload", k.cand \in committed PROVE Shielded(d, k.cand, b, "nobody")
    <3>1. \A u \in Tasks : Owner[u] = d => task[u].mine # b
      BY <2>2, <2>5, <2>6, <2>9 DEF Unused
    <3>2. Closed({b}, d, k.cand, "nobody")
      BY <3>1 DEF Closed
    <3>3. {b} \in SUBSET Artifact
      BY <2>6
    <3> QED
      BY <2>9, <3>2, <3>3 DEF Shielded
  <2>10. \A f, c : ~Remembered(d, c, f)
    BY <1>0, <1>4, StoreFacts
  <2> QED
    BY <1>0, <1>1, <2>2, <2>3, <2>4, <2>5, <2>6, <2>7, <2>8, <2>9, <2>10, StageStep
<1> QED
  BY <1>3, <1>4

LEMMA RestageKeeps ==
    ASSUME IInv, NEW t \in Tasks, Restage(t)
    PROVE  IInv'
<1> DEFINE k == task[t]
<1>0. PICK d, n, m : d = Owner[t] /\ n = Token(d) /\ m = NextToken(d)
  OBVIOUS
<1>1. /\ k.pc = "restaging" /\ k.live /\ local[d] = k.cand /\ Marks(t, cred[d])
      /\ UNCHANGED <<snapshots, session, remote, wire, committed, withdrawn>>
  BY <1>0 DEF Restage, InSession
<1>2. UploadInv(k) /\ k.op = "upload"
  BY <1>1 DEF IInv, TasksInv, TaskInv, UploadInv
<1>3. PICK a, z, b : a = Marked(t, n) /\ z = Unmarked(m) /\ b = cred[d]
  OBVIOUS
<1>4. /\ TypeInv /\ d \in Devices /\ Unused(n, d) /\ Unused(m, d) /\ n # m
      /\ n \in Nat /\ m \in Nat /\ b \in Artifact
  BY <1>0, <1>3, StoreFacts DEF Unused
<1>5. /\ local' = [local EXCEPT ![d] = local[d]]
      /\ cred' = [cred EXCEPT ![d] = a]
      /\ task' = [task EXCEPT ![t].pc = "staged", ![t].mine = a,
                              ![t].clear = z, ![t].back = b]
  BY <1>0, <1>3 DEF Restage, Store
<1>6. local' = local
  BY <1>0, <1>5, StoreFacts
<1>7. /\ a \in Artifact /\ a.tok = n /\ a.cand = k.cand /\ a.exp = k.exp
      /\ z \in Artifact /\ z.tok = m /\ ~HasMarker(z)
  BY <1>1, <1>3, <1>4, MarkedFacts
<1>8. StagesAs(t, a, z, b)
  BY <1>4, <1>5, <1>7, StageType
<1>9. /\ b.cand = k.cand /\ b.exp = k.exp /\ Comes(b.tok, t) /\ b.tok # n
  BY <1>0, <1>1, <1>3, <1>4 DEF Marks, Comes, Unused
<1>10. ASSUME k.cand \in committed PROVE Shielded(d, k.cand, b, "nobody")
  <2>1. Content(local[d]) = k.cand
    BY <1>1, <1>2 DEF UploadInv, Ready, Content, RollbackOf
  <2> QED
    BY <1>3, <1>4, <1>10, <2>1 DEF IInv, ClaimsInv
<1>11. \A f, c : Remembered(d, c, f) => Shielded(d, c, b, f)
  BY <1>3 DEF Remembered
<1> QED
  BY <1>0, <1>1, <1>2, <1>4, <1>5, <1>6, <1>7, <1>8, <1>9, <1>10, <1>11, StageStep

\* An operation that ends, or goes on to commit, after it replaced the record.
LEMMA RecordEnd ==
    ASSUME IInv, NEW t \in Tasks, task[t].pc \notin {"sent", "deleting"},
           \/ Finishes(t)
           \/ Pends(t) /\ (Tracked(t) \/ task[t].pc = "staging"),
           NEW d, d = Owner[t], NEW a \in Artifact,
           cred' = [cred EXCEPT ![d] = a],
           UNCHANGED <<snapshots, local, session, remote, wire, committed, withdrawn>>,
           HasMarker(a) => a.cand = local[d] /\ Ready(local[d], a.exp),
           Comes(a.tok, t),
           Content(local[d]) \in committed => Shielded(d, Content(local[d]), a, "nobody")',
           \A f, c : ClaimOf(f, c) /\ c \notin committed /\ Remembered(d, c, f)
                     => Remembered(d, c, f)'
    PROVE  IInv'
<1> DEFINE j == task'[t]
<1>1. OnlyTask(t) /\ Milder(t) /\ TaskInv(t)'
  BY FinishIsMilder, PendIsMilder
<1>2. \/ Finishes(t) /\ j = Idle
      \/ TurnsToCommit(t, task[t].cand)
  BY DEF Finishes, Pends
<1>3. /\ j.pc \in {"idle", "committing"}
      /\ j.live => task[t].live
  BY <1>2 DEF Idle, TurnsToCommit
<1>4. ~Maker(t)' /\ ~CanFail(t)' /\ j.pc \notin Holding \cup {"persisted", "staged"}
  BY <1>3 DEF Maker, Tracked, CanFail, Holding
<1>5. \A m \in Tokens(t)' : Comes(m, t)
  BY <1>1 DEF Comes, Milder
<1>6. Unused(Token(d), d)
  BY StoreFacts
<1>7. PICK n : n = Token(d)
  OBVIOUS
<1>8. /\ Committing(t)' => Committing(t) /\ j.cand = task[t].cand
      /\ \A s \in Mentions(t)' : s \in Mentions(t) \/ Free(s)
  BY <1>1 DEF Milder
<1> HIDE DEF j
<1> QED
  BY <1>1, <1>3, <1>4, <1>5, <1>6, <1>7, <1>8, RecordStep DEF j, Holding

LEMMA ReplaceCredentialsKeeps ==
    ASSUME IInv, NEW t \in Tasks, ReplaceCredentials(t)
    PROVE  IInv'
<1>0. PICK d, a : d = Owner[t] /\ a = RecordAfter(t)
  OBVIOUS
<1>1. /\ task[t].pc = "checked" /\ local[d] = task[t].base /\ task[t].op = "credentials"
      /\ local' = [local EXCEPT ![d] = local[d]] /\ cred' = [cred EXCEPT ![d] = a]
      /\ Ends(t)
      /\ UNCHANGED <<snapshots, session, remote, wire, committed, withdrawn>>
  BY <1>0 DEF ReplaceCredentials, MayStore, Store
<1>2. TypeInv /\ d \in Devices /\ Unused(Token(d), d)
  BY <1>0, StoreFacts
<1>3. /\ a \in Artifact /\ a.tok = Token(d) /\ a.cand = cred[d].cand /\ a.exp = cred[d].exp
  BY <1>0, <1>1, <1>2, RecordTypes DEF AllOperations
<1>4. local' = local
  BY <1>0, <1>1, StoreFacts
<1>5. Finishes(t) /\ ~CanFail(t)'
  <2>1. Finishes(t)
    BY <1>1, <1>2, EndType
  <2> QED
    BY <2>1 DEF Finishes, Idle, CanFail
<1>6. \A u \in Tasks : Owner[u] = d /\ CanFail(u)' => task'[u].mine # a
  BY <1>2, <1>3, <1>5 DEF Finishes, OnlyTask, Unused
<1>7. HasMarker(a) => a.cand = local[d] /\ Ready(local[d], a.exp)
  BY <1>0, <1>3, StoreFacts DEF HasMarker
<1>8. Comes(a.tok, t)
  BY <1>0, <1>2, <1>3 DEF Comes
<1>9. \A c : (c \notin committed => a.cand = c) => \A f : Shielded(d, c, a, f)'
  BY <1>1, <1>3, <1>6, ShieldAlone
<1>10. Content(local[d]) \in committed => Shielded(d, Content(local[d]), a, "nobody")'
  <2>1. PICK c : c = Content(local[d]) /\ c = Content(local[d])'
    BY <1>1, <1>4 DEF Content, Removing, RollbackOf
  <2>2. c \in committed => Shielded(d, c, a, "nobody")'
    BY <1>9
  <2> QED
    BY <2>1, <2>2
<1>11. ASSUME NEW f, NEW c, Remembered(d, c, f) PROVE Remembered(d, c, f)'
  <2>1. local[d] = c /\ a.cand = c /\ cred'[d] = a
    BY <1>1, <1>2, <1>3, <1>11 DEF Remembered, TypeInv
  <2>2. Shielded(d, c, a, f)'
    BY <1>9, <2>1
  <2> QED
    BY <1>4, <2>1, <2>2 DEF Remembered
<1> QED
  BY <1>0, <1>1, <1>3, <1>4, <1>5, <1>7, <1>8, <1>10, <1>11, RecordEnd

NotOthers(a, t) == \A u \in Tasks \ {t} : Owner[u] = Owner[t] => task[u].mine # a

\* When the snapshot of the device was remote, no upload of it is open.
LEMMA ClearedStep ==
    ASSUME IInv, NEW t \in Tasks, task[t].pc \notin {"sent", "deleting"},
           \/ Finishes(t)
           \/ Pends(t) /\ (Tracked(t) \/ task[t].pc = "staging"),
           NEW d, d = Owner[t], local[d] \in committed,
           NEW a \in Artifact, ~HasMarker(a), Comes(a.tok, t),
           NotOthers(a, t),
           cred' = [cred EXCEPT ![d] = a],
           UNCHANGED <<snapshots, local, session, remote, wire, committed, withdrawn>>
    PROVE  IInv'
<1>1. OnlyTask(t) /\ ~CanFail(t)'
  <2>1. OnlyTask(t) /\ task'[t].pc \in {"idle", "committing"}
    BY DEF Finishes, Pends, TurnsToCommit, Idle
  <2> QED
    BY <2>1 DEF CanFail
<1>2. \A u \in Tasks : Owner[u] = d /\ CanFail(u)' => task'[u].mine # a
  BY <1>1 DEF OnlyTask, NotOthers
<1>3. \A c \in committed : Shielded(d, c, a, "nobody")'
  BY <1>2, ShieldAlone
<1>4. Content(local[d]) \in committed => Shielded(d, Content(local[d]), a, "nobody")'
  <2>1. PICK c : c = Content(local[d]) /\ c = Content(local[d])'
    BY DEF Content, Removing, RollbackOf
  <2>2. c \in committed => Shielded(d, c, a, "nobody")'
    BY <1>3
  <2> QED
    BY <2>1, <2>2
<1>5. \A f, c : c \notin committed => ~Remembered(d, c, f)
  BY DEF Remembered
<1> QED
  BY <1>4, <1>5, RecordEnd

LEMMA ClearKeeps ==
    ASSUME IInv, NEW t \in Tasks, Clear(t)
    PROVE  IInv'
<1>0. PICK d : d = Owner[t]
  OBVIOUS
<1>1. /\ task[t].pc = "landed" /\ StaysPending(t) /\ TypeInv
      /\ UNCHANGED <<snapshots, session, remote, wire, committed, withdrawn>>
  BY DEF Clear, IInv
<1>2. Pends(t) /\ Tracked(t)
  BY <1>1, PendType DEF Tracked
<1>3. CASE UNCHANGED <<local, cred>>
  BY <1>1, <1>2, <1>3, QuietEnd
<1>4. CASE StoreHolds(d, task[t].cand, task[t].mine) /\ Store(d, local[d], task[t].clear)
  <2>1. PICK a : a = task[t].clear
    OBVIOUS
  <2>2. /\ local[d] = task[t].cand /\ local' = local /\ cred' = [cred EXCEPT ![d] = a]
    BY <1>0, <1>4, <2>1, StoreFacts DEF StoreHolds, Store
  <2>3. task[t].cand \in committed /\ ~HasMarker(a) /\ a \in Artifact
    BY <1>1, <1>2, <2>1, DeviceTypes DEF IInv, TasksInv, TaskInv, TrackedInv
  <2>4. NotOthers(a, t)
    BY <1>1, <2>1 DEF IInv, TokensInv, NotOthers
  <2>5. Comes(a.tok, t)
    BY <2>1 DEF Comes, Tokens
  <2> QED
    <3>1. local[d] \in committed /\ task[t].pc \notin {"sent", "deleting"}
      BY <1>1, <2>2, <2>3
    <3>2. UNCHANGED <<snapshots, local, session, remote, wire, committed, withdrawn>>
      BY <1>1, <2>2
    <3> QED
      BY <1>0, <1>2, <2>2, <2>3, <2>4, <2>5, <3>1, <3>2, ClearedStep
<1> QED
  BY <1>0, <1>3, <1>4 DEF Clear

LEMMA ClearMatchedKeeps ==
    ASSUME IInv, NEW t \in Tasks, ClearMatched(t)
    PROVE  IInv'
<1>0. PICK d, n : d = Owner[t] /\ n = Token(d)
  OBVIOUS
<1>1. /\ task[t].pc = "matched" /\ Ends(t) /\ TypeInv
      /\ UNCHANGED <<snapshots, session, remote, wire, committed, withdrawn>>
  BY DEF ClearMatched, IInv
<1>2. Finishes(t)
  BY <1>1, EndType
<1>3. CASE UNCHANGED <<local, cred>>
  BY <1>1, <1>2, <1>3, QuietEnd
<1>4. CASE local[d] = task[t].cand /\ Store(d, local[d], Unmarked(n))
  <2>1. PICK a : a = Unmarked(n)
    OBVIOUS
  <2>2. local' = local /\ cred' = [cred EXCEPT ![d] = a] /\ Unused(n, d) /\ n \in Nat
    BY <1>0, <1>4, <2>1, StoreFacts DEF Store, Unused
  <2>3. a \in Artifact /\ a.tok = n /\ ~HasMarker(a)
    BY <2>1, <2>2, MarkedFacts
  <2>4. task[t].cand \in committed
    BY <1>1 DEF IInv, TasksInv, TaskInv, UploadInv
  <2>5. NotOthers(a, t)
    BY <1>0, <2>2, <2>3 DEF Unused, NotOthers
  <2>6. Comes(a.tok, t)
    BY <1>0, <2>2, <2>3 DEF Comes
  <2> QED
    <3>1. local[d] \in committed /\ task[t].pc \notin {"sent", "deleting"}
      BY <1>1, <1>4, <2>4
    <3>2. UNCHANGED <<snapshots, local, session, remote, wire, committed, withdrawn>>
      BY <1>1, <2>2
    <3> QED
      BY <1>0, <1>2, <2>2, <2>3, <2>5, <2>6, <3>1, <3>2, ClearedStep
<1> QED
  BY <1>0, <1>3, <1>4 DEF ClearMatched

LEMMA UnmarkKeeps ==
    ASSUME IInv, NEW t \in Tasks, Unmark(t)
    PROVE  IInv'
<1> DEFINE k == task[t]
<1>0. PICK d, n, a : d = Owner[t] /\ n = Token(d) /\ a = k.back
  OBVIOUS
<1>1. /\ k.pc = "failed" /\ k.op = "upload" /\ Ends(t) /\ TypeInv
      /\ UNCHANGED <<snapshots, session, remote, wire, committed, withdrawn>>
  BY DEF Unmark, IInv
<1>2. Finishes(t)
  BY <1>1, EndType
<1>3. CASE UNCHANGED <<local, cred>>
  BY <1>1, <1>2, <1>3, QuietEnd
<1>4. CASE StoreHolds(d, k.cand, k.mine) /\ Store(d, local[d], a)
  <2>1. /\ local[d] = k.cand /\ cred[d] = k.mine
        /\ local' = local /\ cred' = [cred EXCEPT ![d] = a]
        /\ d \in Devices /\ Unused(n, d) /\ a \in Artifact
    BY <1>0, <1>1, <1>4, StoreFacts, DeviceTypes DEF StoreHolds, Store
  <2>2. /\ CanFail(t) /\ TrackedInv(k, d) /\ Ready(k.cand, k.exp)
        /\ HasMarker(a) => a.cand = k.cand /\ a.exp = k.exp
    <3>1. TrackedInv(k, d)
      BY <1>0, <1>1 DEF IInv, TasksInv, TaskInv, Tracked
    <3>2. RetryInv(k)
      BY <1>1, <3>1 DEF TrackedInv, MakerInv
    <3> QED
      BY <1>0, <1>1, <3>1, <3>2 DEF CanFail, TrackedInv, RetryInv
  <2>3. HasMarker(a) => a.cand = local[d] /\ Ready(local[d], a.exp)
    BY <2>1, <2>2
  <2>4. Comes(a.tok, t)
    BY <1>0 DEF Comes, Tokens
  <2>5. SameFailures(t) /\ ~CanFail(t)'
    <3>1. OnlyTask(t) /\ task'[t].pc = "idle"
      BY <1>2 DEF Finishes, Idle
    <3>2. \A u \in Tasks \ {t} : SameButLive(u)
      BY <3>1 DEF OnlyTask, SameButLive
    <3> QED
      BY <1>1, <3>1, <3>2, OthersFail DEF NewRequests, CanFail
  <2>6. ASSUME NEW c, c = local[d], NEW f, f # t, Shielded(d, c, cred[d], f)
        PROVE  Shielded(d, c, a, f)' /\ (c \notin committed => a.cand = c)
    <3>1. Shielded(d, c, a, f) /\ (c \notin committed => a.cand = c)
      BY <1>0, <2>1, <2>2, <2>6, ShieldBack
    <3>2. a.tok # n
      BY <1>0, <2>1 DEF Unused
    <3> QED
      BY <1>0, <1>1, <2>1, <2>5, <3>1, <3>2, ShieldStep
  <2>7. Content(local[d]) \in committed => Shielded(d, Content(local[d]), a, "nobody")'
    <3>1. PICK c : c = local[d] /\ c = Content(local[d]) /\ c = Content(local[d])'
      BY <1>1, <2>1, <2>2 DEF Content, Ready, Removing, RollbackOf
    <3>2. c \in committed => Shielded(d, c, cred[d], "nobody")
      BY <2>1, <3>1 DEF IInv, ClaimsInv
    <3>3. c \in committed => Shielded(d, c, a, "nobody")'
      BY <2>6, <3>1, <3>2, TasksAssumption
    <3> QED
      BY <3>1, <3>3
  <2>8. ASSUME NEW f, NEW c, ClaimOf(f, c), c \notin committed, Remembered(d, c, f)
        PROVE  Remembered(d, c, f)'
    <3>1. c = local[d] /\ Shielded(d, c, cred[d], f) /\ f # t
      BY <1>0, <1>1, <2>8, StoreFacts
    <3>2. Shielded(d, c, a, f)' /\ a.cand = c
      BY <2>6, <2>8, <3>1
    <3>3. cred'[d] = a
      BY <1>1, <2>1 DEF TypeInv
    <3> QED
      BY <2>1, <3>1, <3>2, <3>3 DEF Remembered
  <2> QED
    BY <1>0, <1>1, <1>2, <2>1, <2>3, <2>4, <2>7, <2>8, RecordEnd
<1> QED
  BY <1>0, <1>3, <1>4 DEF Unmark

-----------------------------------------------------------------------------
(* A step that replaces the snapshot of one device, and its record           *)

Stored(t, d, s, a) ==
    /\ d = Owner[t] /\ task[t].pc \notin {"sent", "deleting"}
    /\ OnlyTask(t)
    /\ Grows /\ Known' \subseteq Ids
    /\ s \in Known' /\ a \in Artifact
    /\ local' = [local EXCEPT ![d] = s]
    /\ cred' = [cred EXCEPT ![d] = a]
    /\ UNCHANGED <<session, remote, wire, committed>>

LEMMA StoredFacts ==
    ASSUME IInv, NEW t \in Tasks, NEW d, NEW s, NEW a, Stored(t, d, s, a)
    PROVE  /\ TypeInv /\ d \in Devices /\ d = Owner[t] /\ s # None
           /\ local'[d] = s /\ cred'[d] = a
           /\ \A e \in Devices : e # d => local'[e] = local[e] /\ cred'[e] = cred[e]
           /\ \A u \in Tasks \ {t} : /\ task'[u] = task[u] /\ SameButLive(u)
                                     /\ Maker(u)' = Maker(u)
                                     /\ Committing(u)' = Committing(u)
                                     /\ CanFail(u)' = CanFail(u)
           /\ SameFailures(t)
           /\ local[d] \in Known /\ local[d] \in Known'
           /\ committed \subseteq Known
           /\ \A x \in Known, e \in Devices :
                 Count(x, e)' = Count(x, e) /\ Count(x, e) \in Nat
<1>1. TypeInv /\ d \in Devices /\ d = Owner[t]
  BY DeviceTypes DEF Stored, IInv
<1>2. /\ local'[d] = s /\ cred'[d] = a
      /\ \A e \in Devices : e # d => local'[e] = local[e] /\ cred'[e] = cred[e]
  BY <1>1 DEF Stored, TypeInv
<1>3. \A u \in Tasks \ {t} : task'[u] = task[u] /\ SameButLive(u)
  BY DEF Stored, OnlyTask, SameButLive
<1>4. \A u \in Tasks \ {t} : /\ Maker(u)' = Maker(u)
                             /\ Committing(u)' = Committing(u)
                             /\ CanFail(u)' = CanFail(u)
  BY <1>3 DEF Maker, Committing, CanFail, Tracked, Stored
<1>5. SameFailures(t)
  BY <1>3, OthersFail DEF Stored, NewRequests
<1>6. s # None
  BY NoneIsTyped DEF Stored
<1>7. /\ local[d] \in Known /\ local[d] \in Known' /\ committed \subseteq Known
  BY <1>1 DEF TypeInv, Stored, Grows
<1>8. \A x \in Known, e \in Devices : Count(x, e)' = Count(x, e) /\ Count(x, e) \in Nat
  BY <1>1, SnapshotsStay, UnderFacts DEF Stored
<1> QED
  BY <1>1, <1>2, <1>3, <1>4, <1>5, <1>6, <1>7, <1>8

LEMMA StoredWire ==
    ASSUME IInv, NEW t \in Tasks, NEW d, NEW s, NEW a, Stored(t, d, s, a),
           \A w \in wire : w.kind = "put" /\ w.st = "sent" => w.cand \notin withdrawn'
    PROVE  WireInv'
<1>1. \A w \in wire : w.from # t
  BY NothingAwaited DEF Stored
<1>2. ASSUME NEW w \in wire, w.kind = "put" PROVE PutInv(w)'
  <2>1. PutInv(w)
    BY <1>2 DEF IInv, WireInv
  <2>2. w.cand \in Known' /\ Ready(w.cand, w.match)'
    BY <2>1, SnapshotsStay DEF Stored, PutInv
  <2>3. w.from \in Tasks => task'[w.from] = task[w.from]
    BY <1>1, StoredFacts
  <2> QED
    BY <1>2, <2>1, <2>2, <2>3 DEF PutInv, Stored
<1>3. ASSUME NEW w \in wire, w.kind = "delete" PROVE DeleteInv(w)'
  <2>1. DeleteInv(w)
    BY <1>3 DEF IInv, WireInv
  <2>2. w.from \in Tasks => task'[w.from] = task[w.from]
    BY <1>1, StoredFacts
  <2> QED
    BY <2>1, <2>2 DEF DeleteInv
<1>4. wire' = wire
  BY DEF Stored
<1>5. /\ \A w \in wire : w.st # "sent" => w.from \in Tasks
      /\ \A w, v \in wire : w.from = v.from /\ w.from \in Tasks => w = v
  BY DEF IInv, WireInv
<1> QED
  BY <1>2, <1>3, <1>4, <1>5 DEF WireInv

LEMMA StoredSnapshots ==
    ASSUME IInv, NEW t \in Tasks, NEW d, NEW s, NEW a, Stored(t, d, s, a),
           \A x \in Known' \ Known : SnapshotInv(x)',
           Removing(s)' => OneMore(d, s, RollbackOf(s))'
    PROVE  SnapshotsInv'
<1>0. /\ TypeInv /\ Grows /\ committed' = committed /\ 1 \in Known
      /\ None \notin Known' /\ Unset \notin Known'
  BY IdsAreKnown, NoneIsTyped DEF Stored, IInv
<1>1. /\ snapshots'[1].exp = Unset /\ ~Removing(1)'
      /\ Synced(1)' => 1 \in committed'
  BY <1>0, SnapshotsStay DEF IInv, SnapshotsInv, Grows
<1>2. ASSUME NEW x \in Known PROVE SnapshotInv(x)'
  <2>1. SnapshotInv(x)
    BY DEF IInv, SnapshotsInv
  <2>2. /\ snapshots'[x] = snapshots[x]
        /\ Removing(x)' <=> Removing(x)
        /\ RollbackOf(x)' = RollbackOf(x)
        /\ TargetOf(x)' = TargetOf(x)
        /\ Synced(x)' = Synced(x)
        /\ \A r \in Known : (Under(x, r)' <=> Under(x, r)) /\ (Under(r, x)' <=> Under(r, x))
        /\ \A r \in Known : Removing(r)' <=> Removing(r)
    BY <1>0, SnapshotsStay DEF Grows
  <2>3. PICK e : e = snapshots[x].exp
    OBVIOUS
  <2>4. /\ e \in Known' \cup {None, Unset}
        /\ e \in Known' => Under(e, x)' /\ ~Under(x, e)'
    BY <1>0, <2>1, <2>2, <2>3 DEF SnapshotInv, Grows
  <2>5. x # 1 => Under(1, x)' /\ ~Under(x, 1)'
    BY <1>0, <2>1, <2>2 DEF SnapshotInv
  <2>6. ASSUME Removing(x)'
        PROVE  /\ RollbackOf(x)' \in committed' /\ ~Removing(RollbackOf(x))'
               /\ TargetOf(x)' = RollbackOf(x)' /\ Synced(x)'
               /\ Under(RollbackOf(x), x)' /\ x \notin committed'
    <3>1. PICK r : r = RollbackOf(x)
      OBVIOUS
    <3>2. /\ r \in committed /\ r \in Known /\ ~Removing(r) /\ TargetOf(x) = r
          /\ Synced(x) /\ Under(r, x) /\ x \notin committed
      BY <1>0, <2>1, <2>2, <2>6, <3>1 DEF SnapshotInv, TypeInv
    <3>3. /\ r \in committed' /\ ~Removing(r)' /\ TargetOf(x)' = r
          /\ Synced(x)' /\ Under(r, x)' /\ x \notin committed' /\ r = RollbackOf(x)'
      BY <1>0, <2>2, <3>1, <3>2
    <3> QED
      BY <3>3 DEF Removing, Under, Count
  <2>7. e = snapshots'[x].exp
    BY <2>2, <2>3
  <2>8. e \in Known' => Under(snapshots[x].exp, x)' /\ ~Under(x, snapshots[x].exp)'
    BY <2>4, <2>7 DEF Under, Count
  <2> QED
    BY <2>4, <2>5, <2>6, <2>7, <2>8 DEF SnapshotInv
<1>3. ASSUME NEW e \in Devices, Removing(local[e])'
      PROVE  OneMore(e, local[e], RollbackOf(local[e]))'
  <2>1. PICK x : x = local'[e]
    OBVIOUS
  <2>2. Removing(x)'
    BY <1>3, <2>1 DEF Removing
  <2>3. CASE e = d
    <3>1. x = s
      BY <2>1, <2>3, StoredFacts
    <3>2. OneMore(d, s, RollbackOf(s))'
      BY <2>2, <3>1
    <3> QED
      BY <2>1, <2>3, <3>1, <3>2 DEF OneMore, Count, RollbackOf
  <2>4. CASE e # d
    <3>1. x = local[e] /\ x \in Known
      BY <2>1, <2>4, StoredFacts DEF TypeInv
    <3>2. Removing(x) /\ RollbackOf(x)' = RollbackOf(x)
      BY <1>0, <2>2, <3>1, SnapshotsStay
    <3>3. PICK r : r = RollbackOf(x)
      OBVIOUS
    <3>4. OneMore(e, x, r) /\ r \in Known
      BY <1>0, <3>1, <3>2, <3>3 DEF IInv, SnapshotsInv, SnapshotInv, TypeInv
    <3>5. OneMore(e, x, r)'
      BY <3>1, <3>4, StoredFacts DEF OneMore
    <3> QED
      BY <2>1, <3>2, <3>3, <3>5 DEF OneMore, Count, RollbackOf
  <2> QED
    BY <2>3, <2>4
<1>4. \A x \in Known' : SnapshotInv(x)'
  BY <1>2
<1> QED
  BY <1>1, <1>3, <1>4 DEF SnapshotsInv

\* The counters of the stored snapshot fit what the devices have seen.
CountsFit(d, s) ==
    /\ \A e \in Devices \ {d} : \E r \in committed \cup {local[d]} :
           Count(s, e)' <= Count(r, e)
    /\ \A r \in Others(d) : Count(r, d) <= Count(s, d)'
    /\ s \notin committed \cup {1} => \A r \in Others(d) : Count(r, d) < Count(s, d)'

\* Only the operation that stored the snapshot can take it back.
OwnMaker(t, d, s) ==
    \A p \in Tasks : /\ Maker(p)' /\ Owner[p] = d
                     /\ task'[p].cand = s /\ s \notin committed
                     => /\ p = t /\ task'[t].base = local[d]
                        /\ ~Removing(local[d])

LEMMA StoredOthers ==
    ASSUME IInv, NEW t \in Tasks, NEW d, NEW s, NEW a, Stored(t, d, s, a),
           CountsFit(d, s), \A e \in Devices : Count(s, e)' \in Nat
    PROVE  /\ Others(d)' = Others(d) /\ Others(d) \subseteq Known
           /\ \A e \in Devices \ {d} : \A r \in Others(e)' : \E q \in Others(e) :
                 q \in Known /\ Count(r, e)' <= Count(q, e)
           /\ \A e \in Devices \ {d}, b \in Known : Unseen(e, b) => Unseen(e, b)'
<1>0. /\ TypeInv /\ d \in Devices /\ committed' = committed /\ committed \subseteq Known
      /\ \A e \in Devices : local[e] \in Known
      /\ local'[d] = s /\ \A e \in Devices : e # d => local'[e] = local[e]
  BY StoredFacts DEF Stored, TypeInv
<1>1. Others(d)' = Others(d)
  <2>1. {local'[e] : e \in Devices \ {d}} = {local[e] : e \in Devices \ {d}}
    BY <1>0
  <2> QED
    BY <1>0, <2>1 DEF Others
<1>2. Others(d) \subseteq Known
  BY <1>0 DEF Others
<1>3. ASSUME NEW e \in Devices \ {d}, NEW r \in Others(e)'
      PROVE  \E q \in Others(e) : q \in Known /\ Count(r, e)' <= Count(q, e)
  <2>1. CASE r \in Others(e) /\ r \in Known
    <3>1. Count(r, e)' = Count(r, e) /\ Count(r, e) \in Nat
      BY <2>1, StoredFacts
    <3>2. Count(r, e)' <= Count(r, e)
      BY <3>1
    <3> QED
      BY <2>1, <3>2
  <2>2. CASE r = s
    <3>1. PICK q \in committed \cup {local[d]} : Count(s, e)' <= Count(q, e)
      BY DEF CountsFit
    <3>2. q \in Others(e) /\ q \in Known
      BY <1>0 DEF Others
    <3>3. PICK m : m = Count(s, e)'
      OBVIOUS
    <3>4. m = Count(r, e)'
      BY <2>2, <3>3 DEF Count
    <3> QED
      BY <3>1, <3>2, <3>3, <3>4
  <2> QED
    BY <1>0, <2>1, <2>2 DEF Others
<1>4. ASSUME NEW e \in Devices \ {d}, NEW b \in Known, Unseen(e, b) PROVE Unseen(e, b)'
  <2> SUFFICES ASSUME b \notin committed \cup {1}, NEW r \in Others(e)'
               PROVE  Count(r, e)' < Count(b, e)'
    BY <1>0 DEF Unseen
  <2>1. PICK q \in Others(e) : q \in Known /\ Count(r, e)' <= Count(q, e)
    BY <1>3
  <2>2. Count(q, e) < Count(b, e)
    BY <1>4 DEF Unseen
  <2>3. /\ Count(b, e)' = Count(b, e) /\ Count(b, e) \in Nat /\ Count(q, e) \in Nat
    BY <2>1, StoredFacts
  <2>4. Count(r, e)' \in Nat
    <3>1. CASE r \in Known
      BY <3>1, StoredFacts
    <3>2. CASE r = s
      <4>1. PICK m : m = Count(s, e)' /\ m \in Nat
        OBVIOUS
      <4>2. m = Count(r, e)'
        BY <3>2, <4>1 DEF Count
      <4> QED
        BY <4>1, <4>2
    <3> QED
      BY <1>0, <3>1, <3>2 DEF Others
  <2> QED
    BY <2>1, <2>2, <2>3, <2>4
<1> QED
  BY <1>1, <1>2, <1>3, <1>4

LEMMA StoredCounts ==
    ASSUME IInv, NEW t \in Tasks, NEW d, NEW s, NEW a, Stored(t, d, s, a), TypeInv',
           CountsFit(d, s), OwnMaker(t, d, s)
    PROVE  CountsInv'
<1>0. /\ TypeInv /\ CountsInv /\ d \in Devices /\ d = Owner[t] /\ committed' = committed
      /\ local'[d] = s /\ \A e \in Devices : e # d => local'[e] = local[e]
      /\ \A e \in Devices : local[e] \in Known
  BY StoredFacts DEF Stored, TypeInv, IInv
<1>1. \A e \in Devices : Count(s, e)' \in Nat
  <2>1. snapshots'[s] \in Snapshot
    BY ElementOfSeq DEF TypeInv, Stored, Known
  <2> QED
    BY <2>1 DEF Snapshot, Count
<1>2. /\ Others(d)' = Others(d) /\ Others(d) \subseteq Known
      /\ \A e \in Devices \ {d} : \A r \in Others(e)' : \E q \in Others(e) :
            q \in Known /\ Count(r, e)' <= Count(q, e)
      /\ \A e \in Devices \ {d}, b \in Known : Unseen(e, b) => Unseen(e, b)'
  BY <1>0, <1>1, StoredOthers
<1>3. \A r \in Known, e \in Devices : Count(r, e)' = Count(r, e) /\ Count(r, e) \in Nat
  BY StoredFacts
<1>4. ASSUME NEW e \in Devices, NEW r \in Others(e)'
      PROVE  Count(r, e)' <= Count(local[e], e)'
  <2>0. PICK l : l = local'[e]
    OBVIOUS
  <2>1. CASE e = d
    <3>1. Count(r, d) <= Count(s, d)' /\ Count(r, d)' = Count(r, d)
      BY <1>0, <1>2, <1>3, <1>4, <2>1 DEF CountsFit
    <3>2. l = s
      BY <1>0, <2>0, <2>1
    <3> QED
      BY <2>0, <2>1, <3>1, <3>2 DEF Count
  <2>2. CASE e # d
    <3>1. PICK q \in Others(e) : q \in Known /\ Count(r, e)' <= Count(q, e)
      BY <1>2, <2>2
    <3>2. Count(q, e) <= Count(local[e], e)
      BY <1>0 DEF CountsInv
    <3>3. l = local[e] /\ l \in Known
      BY <1>0, <2>0, <2>2
    <3>4. Count(l, e)' = Count(l, e) /\ Count(l, e) \in Nat /\ Count(q, e) \in Nat
      BY <1>3, <3>1, <3>3
    <3>5. Count(r, e)' \in Nat
      <4>1. CASE r \in Known
        BY <1>3, <4>1
      <4>2. CASE r = s
        <5>1. PICK m : m = Count(s, e)' /\ m \in Nat
          BY <1>1
        <5>2. m = Count(r, e)'
          BY <4>2, <5>1 DEF Count
        <5> QED
          BY <5>1, <5>2
      <4> QED
        BY <1>0, <4>1, <4>2 DEF Others, TypeInv
    <3>6. Count(r, e)' <= Count(l, e)'
      BY <3>1, <3>2, <3>3, <3>4, <3>5
    <3> QED
      BY <2>0, <3>6 DEF Count
  <2> QED
    BY <2>1, <2>2
<1>5. ASSUME NEW e \in Devices PROVE Unseen(e, local[e])'
  <2>0. PICK l : l = local'[e]
    OBVIOUS
  <2>1. CASE e = d
    <3>1. l = s
      BY <1>0, <2>0, <2>1
    <3>2. Unseen(d, s)'
      <4> SUFFICES ASSUME s \notin committed \cup {1}, NEW r \in Others(d)
                   PROVE  Count(r, d)' < Count(s, d)'
        BY <1>0, <1>2 DEF Unseen
      <4>1. Count(r, d) < Count(s, d)' /\ Count(r, d)' = Count(r, d)
        BY <1>0, <1>2, <1>3 DEF CountsFit
      <4> QED
        BY <4>1
    <3> QED
      BY <2>0, <2>1, <3>1, <3>2 DEF Unseen, Count
  <2>2. CASE e # d
    <3>1. l = local[e] /\ l \in Known
      BY <1>0, <2>0, <2>2
    <3>2. Unseen(e, l)
      BY <1>0, <3>1 DEF CountsInv
    <3>3. Unseen(e, l)'
      BY <1>2, <2>2, <3>1, <3>2
    <3> QED
      BY <2>0, <3>3 DEF Unseen, Count
  <2> QED
    BY <2>1, <2>2
<1>6. ASSUME NEW p \in Tasks, Maker(p)', local'[Owner[p]] = task'[p].cand,
             task'[p].cand \notin committed'
      PROVE  Unseen(Owner[p], task[p].base)'
  <2>0. PICK b : b = task'[p].base
    OBVIOUS
  <2>1. CASE Owner[p] = d
    <3>1. p = t /\ b = local[d]
      BY <1>0, <1>6, <2>0, <2>1 DEF OwnMaker
    <3>2. Unseen(d, b) /\ b \in Known
      BY <1>0, <3>1 DEF CountsInv
    <3>3. Unseen(d, b)'
      <4> SUFFICES ASSUME b \notin committed \cup {1}, NEW r \in Others(d)
                   PROVE  Count(r, d)' < Count(b, d)'
        BY <1>0, <1>2 DEF Unseen
      <4>1. /\ Count(r, d) < Count(b, d) /\ Count(r, d)' = Count(r, d)
            /\ Count(b, d)' = Count(b, d)
        BY <1>0, <1>2, <1>3, <3>2 DEF Unseen
      <4> QED
        BY <4>1
    <3> QED
      BY <2>0, <2>1, <3>3 DEF Unseen, Count
  <2>2. CASE Owner[p] # d
    <3>1. p # t /\ task'[p] = task[p] /\ Maker(p) /\ Owner[p] \in Devices
      BY <1>0, <1>6, <2>2, StoredFacts, OwnerAssumption
    <3>2. b = task[p].base /\ b \in Known
      BY <2>0, <3>1 DEF IInv, TasksInv, TaskInv, TrackedInv, Maker
    <3>3. Unseen(Owner[p], b)
      BY <1>0, <1>6, <2>2, <3>1, <3>2 DEF CountsInv
    <3>4. Unseen(Owner[p], b)'
      BY <1>2, <2>2, <3>1, <3>2, <3>3
    <3> QED
      BY <2>0, <3>4 DEF Unseen, Count
  <2> QED
    BY <2>1, <2>2
<1>7. ASSUME NEW x \in committed', NEW r \in committed', Under(x, r)', Under(r, x)'
      PROVE  x = r
  <2>1. x \in Known /\ r \in Known /\ x \in committed /\ r \in committed
    BY <1>0 DEF TypeInv
  <2>2. Under(x, r) /\ Under(r, x)
    BY <1>7, <2>1, SnapshotsStay DEF Stored
  <2> QED
    BY <1>0, <2>1, <2>2 DEF CountsInv
<1> QED
  BY <1>4, <1>5, <1>6, <1>7 DEF CountsInv

\* The device has nothing to remember of the snapshot it replaces.
NoClaims(d) == \A f, c : ClaimOf(f, c) /\ c \notin committed => ~Remembered(d, c, f)

ContentShielded(d, s, a) ==
    \A c : c = Content(s)' /\ c \in committed => Shielded(d, c, a, "nobody")'

BackShielded(t) ==
    \A c, x : /\ c = task'[t].base /\ x = task'[t].back
              /\ Maker(t)' /\ CanFail(t)' /\ c \in committed
              => Shielded(Owner[t], c, x, "nobody")'

LEMMA StoredClaims ==
    ASSUME IInv, NEW t \in Tasks, NEW d, NEW s, NEW a, Stored(t, d, s, a),
           NoClaims(d), ContentShielded(d, s, a), BackShielded(t),
           task'[t].pc # "staged",
           CanFail(t)' => task'[t].cand \notin Known
    PROVE  ClaimsInv'
<1>0. /\ TypeInv /\ TasksInv /\ ClaimsInv /\ d \in Devices /\ d = Owner[t]
      /\ local'[d] = s /\ cred'[d] = a
      /\ \A e \in Devices : e # d => local'[e] = local[e] /\ cred'[e] = cred[e]
      /\ \A e \in Devices : local[e] \in Known
      /\ \A u \in Tasks \ {t} : task'[u] = task[u] /\ SameButLive(u)
      /\ SameFailures(t) /\ wire' = wire /\ committed' = committed /\ Grows
  BY StoredFacts DEF Stored, TypeInv, IInv
<1>1. ASSUME NEW e \in Devices, e # d, NEW c, NEW f, Remembered(e, c, f)
      PROVE  Remembered(e, c, f)'
  <2>1. PICK x : x = cred[e] /\ x = cred'[e]
    BY <1>0, <1>1
  <2>2. Shielded(e, c, x, f)'
    BY <1>0, <1>1, <2>1, ShieldElsewhere DEF Remembered
  <2>3. local'[e] = c /\ cred'[e].cand = c
    BY <1>0, <1>1 DEF Remembered
  <2> QED
    BY <2>1, <2>2, <2>3 DEF Remembered
<1>2. ASSUME NEW f, NEW c, ClaimOf(f, c), c \notin committed
      PROVE  \E e \in Devices : Remembered(e, c, f)'
  <2>1. PICK e \in Devices : Remembered(e, c, f)
    BY <1>0, <1>2, ClaimsAreRemembered
  <2>2. e # d
    BY <1>2, <2>1 DEF NoClaims
  <2> QED
    BY <1>1, <2>1, <2>2
<1>3. ASSUME NEW w \in wire', w.kind = "put", w.st = "sent", w.cand \notin committed'
      PROVE  \E e \in Devices : Remembered(e, w.cand, w.from)'
  BY <1>0, <1>2, <1>3 DEF ClaimOf
<1>4. ASSUME NEW u \in Tasks, task'[u].pc = "staged", task'[u].cand \notin committed',
             NEW c, c = task'[u].cand
      PROVE  Remembered(Owner[u], c, u)'
  <2>1. u # t /\ task'[u] = task[u]
    BY <1>0, <1>4
  <2>2. Remembered(Owner[u], c, u) /\ ClaimOf(u, c)
    BY <1>0, <1>4, <2>1 DEF ClaimsInv, ClaimOf
  <2>3. Owner[u] # d
    BY <1>0, <1>4, <2>2 DEF NoClaims
  <2> QED
    BY <1>1, <2>2, <2>3, OwnerAssumption
<1>5. ASSUME NEW e \in Devices, Content(local[e])' \in committed'
      PROVE  Shielded(e, Content(local[e]), cred[e], "nobody")'
  <2>1. PICK c, x, l : c = Content(local[e])' /\ x = cred'[e] /\ l = local'[e]
    OBVIOUS
  <2>2. CASE e = d
    <3>1. l = s /\ x = a
      BY <1>0, <2>1, <2>2
    <3>2. c = Content(s)'
      BY <2>1, <3>1 DEF Content, Removing, RollbackOf
    <3>3. Shielded(d, c, a, "nobody")'
      BY <1>0, <1>5, <2>1, <3>2 DEF ContentShielded
    <3> QED
      BY <2>1, <2>2, <3>1, <3>3
  <2>3. CASE e # d
    <3>1. l = local[e] /\ x = cred[e] /\ l \in Known
      BY <1>0, <2>1, <2>3
    <3>2. Content(l)' = Content(l)
      BY <1>0, <3>1, ContentStays DEF IInv
    <3>3. c = Content(l)
      BY <2>1, <3>2 DEF Content, Removing, RollbackOf
    <3>4. Shielded(e, c, x, "nobody")
      BY <1>0, <1>5, <2>1, <3>1, <3>3 DEF ClaimsInv
    <3>5. Shielded(e, c, x, "nobody")'
      BY <1>0, <2>3, <3>4, ShieldElsewhere
    <3> QED
      BY <2>1, <3>5
  <2> QED
    BY <2>2, <2>3
<1>6. ASSUME NEW u \in Tasks, Maker(u)', CanFail(u)', task'[u].base \in committed'
      PROVE  Shielded(Owner[u], task[u].base, task[u].back, "nobody")'
  <2>1. PICK c, x : c = task'[u].base /\ x = task'[u].back
    OBVIOUS
  <2>2. CASE u = t
    <3>1. Shielded(Owner[t], c, x, "nobody")'
      BY <1>0, <1>6, <2>1, <2>2 DEF BackShielded
    <3> QED
      BY <2>1, <2>2, <3>1
  <2>3. CASE u # t
    <3>1. task'[u] = task[u] /\ Maker(u) /\ CanFail(u) /\ c \in committed
      BY <1>0, <1>6, <2>1, <2>3, StoredFacts
    <3>2. Shielded(Owner[u], c, x, "nobody") /\ c \in Known
      BY <1>0, <2>1, <3>1 DEF ClaimsInv, TypeInv
    <3>3. CASE Owner[u] = d
      <4>1. Unused(Token(d), d)
        BY <1>0, StoreFacts
      <4>2. x.tok # Token(d)
        BY <2>1, <3>1, <3>3, <4>1 DEF Unused
      <4>3. CanFail(t)' /\ task'[t].cand = c => FALSE
        BY <3>2
      <4>4. PICK n : n = Token(d)
        OBVIOUS
      <4>5. Shielded(d, c, x, "nobody")'
        BY <1>0, <3>2, <3>3, <4>1, <4>2, <4>3, <4>4, ShieldStep
      <4> QED
        BY <2>1, <3>3, <4>5
    <3>4. CASE Owner[u] # d
      <4>1. Shielded(Owner[u], c, x, "nobody")'
        BY <1>0, <3>2, <3>4, ShieldElsewhere
      <4> QED
        BY <2>1, <4>1
    <3> QED
      BY <3>3, <3>4
  <2> QED
    BY <2>2, <2>3
<1> QED
  BY <1>3, <1>4, <1>5, <1>6 DEF ClaimsInv

LEMMA StoredLive ==
    ASSUME IInv, NEW t \in Tasks, NEW d, NEW s, NEW a, Stored(t, d, s, a),
           ~Fresh(t), local[d] \in Mentions(t),
           task'[t].live => task[t].live,
           Mentions(t)' \subseteq Mentions(t) \cup {s, None},
           s \notin Known \/ Free(s),
           Fresh(t)' => task'[t].cand = s /\ s \notin Known
    PROVE  LiveInv'
<1>0. /\ TypeInv /\ LiveInv /\ d \in Devices /\ d = Owner[t]
      /\ local'[d] = s /\ \A e \in Devices : e # d => local'[e] = local[e]
      /\ \A u \in Tasks \ {t} : task'[u] = task[u]
      /\ wire' = wire /\ committed' = committed /\ session' = session
      /\ committed \subseteq Known /\ Known \subseteq Known' /\ s \in Known' /\ s # None
      /\ \A u \in Tasks : Mentions(u) \subseteq Known \cup {None}
  <2>1. /\ TypeInv /\ d \in Devices /\ d = Owner[t]
        /\ local'[d] = s /\ \A e \in Devices : e # d => local'[e] = local[e]
        /\ \A u \in Tasks \ {t} : task'[u] = task[u]
        /\ committed \subseteq Known /\ s # None
    BY StoredFacts
  <2>2. /\ wire' = wire /\ committed' = committed /\ session' = session
        /\ Known \subseteq Known' /\ s \in Known'
    BY DEF Stored, Grows
  <2>3. LiveInv /\ \A u \in Tasks : Mentions(u) \subseteq Known \cup {None}
    BY DEF IInv, LiveInv
  <2> QED
    BY <2>1, <2>2, <2>3
<1>1. \A u \in Tasks : Mentions(u)' \subseteq Known' \cup {None}
  BY <1>0 DEF Mentions
<1>2. \A w \in wire : w.cand \in Known \cup {None}
  <2> TAKE w \in wire
  <2>1. w \in Request
    BY <1>0 DEF TypeInv
  <2>2. w.kind = "put" => w.cand \in Known
    BY DEF IInv, WireInv, PutInv
  <2>3. w.kind = "delete" => w.cand = None
    BY DEF IInv, WireInv, DeleteInv
  <2> QED
    BY <2>1, <2>2, <2>3 DEF Request
<1>3. ASSUME NEW u \in Tasks, Fresh(u)
      PROVE  /\ task[u].cand \in Known
             /\ task[u].cand \notin committed
             /\ local[Owner[u]] = task[u].cand
             /\ session[Owner[u]] # task[u].cand
             /\ \A w \in wire : w.cand # task[u].cand
             /\ \A p \in Tasks \ {u} : task[u].cand \notin Mentions(p)
  BY <1>0, <1>3 DEF LiveInv, Fresh, Mentions, IInv, TasksInv, TaskInv, Tracked, TrackedInv
<1>4. \A u \in Tasks : task'[u].live => session'[Owner[u]] # None
  BY <1>0 DEF LiveInv
<1>5. ASSUME NEW u \in Tasks, Fresh(u)'
      PROVE  /\ task'[u].cand \notin committed'
             /\ local'[Owner[u]] = task'[u].cand
             /\ session'[Owner[u]] # task'[u].cand
             /\ \A w \in wire' : w.cand # task'[u].cand
             /\ \A p \in Tasks \ {u} : task'[u].cand \notin Mentions(p)'
  <2>1. CASE u = t
    <3>1. task'[u].cand = s /\ s \notin Known
      BY <1>5, <2>1
    <3>2. \A p \in Tasks \ {u} : s \notin Mentions(p)'
      BY <1>0, <2>1, <3>1 DEF Mentions
    <3>3. session[d] \in Known \cup {None}
      BY <1>0 DEF TypeInv
    <3> QED
      BY <1>0, <1>2, <2>1, <3>1, <3>2, <3>3
  <2>2. CASE u # t
    <3>1. Fresh(u) /\ task'[u] = task[u]
      BY <1>0, <1>5, <2>2 DEF Fresh
    <3>2. Owner[u] # d
      BY <1>3, <2>2, <3>1
    <3>3. task[u].cand # s /\ task[u].cand # None
      BY <1>3, <3>1, IdsAreKnown, NoneIsTyped, <1>0 DEF Free
    <3>4. \A p \in Tasks \ {u} : task[u].cand \notin Mentions(p)'
      BY <1>0, <1>3, <2>2, <3>1, <3>3 DEF Mentions
    <3> QED
      BY <1>0, <1>3, <3>1, <3>2, <3>4, OwnerAssumption
  <2> QED
    BY <2>1, <2>2
<1> QED
  BY <1>1, <1>4, <1>5 DEF LiveInv, Fresh, Mentions

\* What the session of a device has, if an operation goes on in it, or another operation will bring it to.
Attached(d, t, q) ==
    \/ session[d] # None /\ ~Inert(d) /\ q = Content(session[d])
    \/ \E u \in Tasks \ {t} : /\ Owner[u] = d /\ Committing(u)
                              /\ q = Content(task[u].cand)

LEMMA CommittingFacts ==
    ASSUME IInv, NEW u \in Tasks, Committing(u)
    PROVE  task[u].cand \in Known
<1>1. CASE Maker(u)
  BY <1>1 DEF IInv, TasksInv, TaskInv, TrackedInv, Maker
<1>2. CASE task[u].pc = "committing"
  BY <1>2 DEF IInv, TasksInv, TaskInv
<1> QED
  BY <1>1, <1>2 DEF Committing

\* What the session has and will have follows the content of the local snapshot.
LEMMA SessionsFollow ==
    ASSUME IInv, NEW t \in Tasks, NEW d, NEW s, NEW a, Stored(t, d, s, a), TypeInv',
           NEW l, l = Content(local[d]), NEW r \in Known', Under(l, r)'
    PROVE  \A q \in Known : Attached(d, t, q) => Under(q, r)'
<1> SUFFICES ASSUME NEW q \in Known, Attached(d, t, q), NEW e \in Devices
             PROVE  Count(q, e)' <= Count(r, e)'
  BY DEF Under
<1>0. TypeInv /\ d \in Devices /\ local[d] \in Known
  BY StoredFacts
<1>1. l \in Known
  BY <1>0, ContentStays DEF IInv, Stored
<1>2. Under(q, l)
  BY <1>0 DEF Attached, IInv, SessionInv
<1>3. /\ Count(q, e)' = Count(q, e) /\ Count(l, e)' = Count(l, e)
      /\ Count(q, e) \in Nat /\ Count(l, e) \in Nat
  BY <1>1, StoredFacts
<1>4. Count(r, e)' \in Nat
  <2>1. snapshots'[r] \in Snapshot
    BY ElementOfSeq DEF TypeInv, Known
  <2> QED
    BY <2>1 DEF Snapshot, Count
<1>5. Count(q, e) <= Count(l, e) /\ Count(l, e)' <= Count(r, e)'
  BY <1>2 DEF Under
<1> QED
  BY <1>3, <1>4, <1>5

LEMMA StoredSession ==
    ASSUME IInv, NEW t \in Tasks, NEW d, NEW s, NEW a, Stored(t, d, s, a), TypeInv',
           OwnMaker(t, d, s), NEW r \in Known', r = Content(s)',
           \A q \in Known : Attached(d, t, q) => Under(q, r)',
           Committing(t)' => task'[t].cand = s, task'[t].live => task[t].live
    PROVE  SessionInv'
<1>0. /\ TypeInv /\ SnapshotsInv /\ SessionInv /\ d \in Devices /\ d = Owner[t] /\ Grows
      /\ local'[d] = s /\ \A e \in Devices : e # d => local'[e] = local[e]
      /\ \A u \in Tasks \ {t} : /\ task'[u] = task[u]
                                /\ Maker(u)' = Maker(u)
                                /\ Committing(u)' = Committing(u)
                                /\ CanFail(u)' = CanFail(u)
      /\ session' = session /\ committed' = committed
  <2>1. /\ TypeInv /\ d \in Devices /\ d = Owner[t]
        /\ local'[d] = s /\ \A e \in Devices : e # d => local'[e] = local[e]
    BY StoredFacts
  <2>2. \A u \in Tasks \ {t} : /\ task'[u] = task[u]
                                /\ Maker(u)' = Maker(u)
                                /\ Committing(u)' = Committing(u)
                                /\ CanFail(u)' = CanFail(u)
    BY StoredFacts
  <2>3. Grows /\ session' = session /\ committed' = committed
    BY DEF Stored
  <2> QED
    BY <2>1, <2>2, <2>3 DEF IInv
<1>1. ASSUME NEW e \in Devices, session'[e] # None, ~Inert(e)'
      PROVE  Under(Content(session[e]), Content(local[e]))'
  <2>0. ~Inert(e)
    BY <1>0, <1>1 DEF Inert
  <2>1. PICK v, l : v = session[e] /\ l = local'[e]
    OBVIOUS
  <2>2. v \in Known /\ Content(v) \in Known /\ Content(v)' = Content(v)
    BY <1>0, <1>1, <2>1, ContentStays DEF TypeInv
  <2>3. PICK q \in Known : q = Content(v)
    BY <2>2
  <2>4. CASE e = d
    <3>1. Attached(d, t, q)
      BY <1>0, <1>1, <2>0, <2>1, <2>3, <2>4 DEF Attached
    <3>2. Under(q, r)' /\ l = s
      BY <1>0, <2>1, <2>4, <3>1
    <3>3. q = Content(v)' /\ r = Content(l)'
      BY <2>2, <2>3, <3>2 DEF Content, Removing, RollbackOf
    <3>4. Under(Content(v), Content(l))'
      BY <3>2, <3>3 DEF Under, Count
    <3> QED
      BY <1>0, <2>1, <3>4 DEF Under, Count, Content, Removing, RollbackOf
  <2>5. CASE e # d
    <3>1. l = local[e] /\ l \in Known
      BY <1>0, <2>1, <2>5 DEF TypeInv
    <3>2. Under(Content(v), Content(l))
      BY <1>0, <1>1, <2>0, <2>1, <3>1 DEF SessionInv
    <3>3. Under(Content(v), Content(l))'
      BY <1>0, <2>2, <3>1, <3>2, ContentStays
    <3> QED
      BY <1>0, <2>1, <3>3 DEF Under, Count, Content, Removing, RollbackOf
  <2> QED
    BY <2>4, <2>5
<1>2. ASSUME NEW u \in Tasks, Committing(u)'
      PROVE  Under(Content(task[u].cand), Content(local[Owner[u]]))'
  <2>1. PICK v, l : v = task'[u].cand /\ l = local'[Owner[u]]
    OBVIOUS
  <2>2. CASE u = t
    <3>1. v = s /\ l = s
      BY <1>0, <1>2, <2>1, <2>2
    <3>2. snapshots'[r] \in Snapshot
      BY ElementOfSeq DEF TypeInv, Known
    <3>3. Under(r, r)'
      BY <3>2 DEF Under, Count, Snapshot
    <3>4. Under(Content(s), Content(s))'
      BY <3>3 DEF Under, Count
    <3> QED
      BY <2>1, <3>1, <3>4 DEF Under, Count, Content, Removing, RollbackOf
  <2>3. CASE u # t
    <3>1. v = task[u].cand /\ Committing(u)
      BY <1>0, <1>2, <2>1, <2>3
    <3>2. v \in Known
      BY <3>1, CommittingFacts
    <3>3. Content(v) \in Known /\ Content(v)' = Content(v)
      BY <1>0, <3>2, ContentStays
    <3>4. PICK q \in Known : q = Content(v)
      BY <3>3
    <3>5. CASE Owner[u] = d
      <4>1. Attached(d, t, q)
        BY <2>3, <3>1, <3>4, <3>5 DEF Attached
      <4>2. Under(q, r)' /\ l = s
        BY <1>0, <2>1, <3>5, <4>1
      <4>3. q = Content(v)' /\ r = Content(l)'
        BY <3>3, <3>4, <4>2 DEF Content, Removing, RollbackOf
      <4>4. Under(Content(v), Content(l))'
        BY <4>2, <4>3 DEF Under, Count
      <4> QED
        BY <2>1, <4>4 DEF Under, Count, Content, Removing, RollbackOf
    <3>6. CASE Owner[u] # d
      <4>1. l = local[Owner[u]] /\ l \in Known
        BY <1>0, <2>1, <3>6, OwnerAssumption DEF TypeInv
      <4>2. Under(Content(v), Content(l))
        BY <1>0, <3>1, <4>1 DEF SessionInv
      <4>3. Under(Content(v), Content(l))'
        BY <1>0, <3>2, <4>1, <4>2, ContentStays
      <4> QED
        BY <2>1, <4>3 DEF Under, Count, Content, Removing, RollbackOf
    <3> QED
      BY <3>5, <3>6
  <2> QED
    BY <2>2, <2>3
<1>3. ASSUME NEW p \in Tasks, Maker(p)', CanFail(p)',
             local'[Owner[p]] = task'[p].cand, task'[p].cand \notin committed',
             NEW u \in Tasks \ {p}, Owner[u] = Owner[p], Committing(u)'
      PROVE  Under(Content(task[u].cand), task[p].base)'
  <2>1. PICK v, b : v = task'[u].cand /\ b = task'[p].base
    OBVIOUS
  <2>2. u # t /\ v = task[u].cand /\ Committing(u) /\ b \in Known
        /\ Under(Content(v), b)
    <3>1. CASE Owner[p] = d
      <4>1. p = t /\ b = local[d] /\ ~Removing(b)
        BY <1>0, <1>3, <2>1, <3>1 DEF OwnMaker
      <4>2. u # t /\ v = task[u].cand /\ Committing(u)
        BY <1>0, <1>3, <2>1, <4>1
      <4>3. Under(Content(v), Content(b)) /\ b \in Known
        BY <1>0, <1>3, <3>1, <4>1, <4>2 DEF SessionInv, TypeInv
      <4> QED
        BY <4>1, <4>2, <4>3 DEF Content, RollbackOf
    <3>2. CASE Owner[p] # d
      <4>1. /\ p # t /\ u # t /\ task'[p] = task[p] /\ task'[u] = task[u]
            /\ Maker(p) /\ CanFail(p) /\ Committing(u)
        BY <1>0, <1>3, <3>2
      <4>2. local[Owner[p]] = task[p].cand /\ task[p].cand \notin committed
        BY <1>0, <1>3, <3>2, <4>1, OwnerAssumption
      <4>3. b \in Known
        BY <2>1, <4>1 DEF IInv, TasksInv, TaskInv, TrackedInv, Maker
      <4>4. Under(Content(v), b)
        BY <1>0, <1>3, <2>1, <4>1, <4>2 DEF SessionInv
      <4> QED
        BY <2>1, <4>1, <4>3, <4>4
    <3> QED
      BY <3>1, <3>2
  <2>3. v \in Known
    BY <2>2, CommittingFacts
  <2>4. Content(v) \in Known /\ Content(v)' = Content(v)
    BY <1>0, <2>3, ContentStays
  <2>5. PICK q \in Known : q = Content(v)
    BY <2>4
  <2>6. Under(q, b)'
    BY <1>0, <2>2, <2>5, SnapshotsStay
  <2>7. Under(Content(v), b)'
    BY <2>4, <2>5, <2>6 DEF Under, Count
  <2> QED
    BY <2>1, <2>7 DEF Under, Count, Content, Removing, RollbackOf
<1> QED
  BY <1>1, <1>2, <1>3 DEF SessionInv

LEMMA StoredWithdrawn ==
    ASSUME IInv, NEW t \in Tasks, NEW d, NEW s, NEW a, Stored(t, d, s, a),
           s \notin withdrawn', withdrawn' \cap committed = {},
           \A e \in Devices : e # d => local[e] \notin withdrawn',
           \A x \in withdrawn' : x \in Known /\ Synced(x)
    PROVE  WithdrawnInv'
<1>1. \A x \in withdrawn' : Synced(x)'
  BY SnapshotsStay DEF Stored
<1>2. \A e \in Devices : local'[e] \notin withdrawn'
  BY StoredFacts
<1> QED
  BY <1>1, <1>2 DEF WithdrawnInv, Stored

\* What becomes of rolled back snapshots when s is stored on device d.
WithdrawnFits(d, s) ==
    /\ withdrawn' \cap committed = {} /\ s \notin withdrawn'
    /\ \A e \in Devices : e # d => local[e] \notin withdrawn'
    /\ \A x \in withdrawn' : x \in Known /\ Synced(x)
    /\ \A w \in wire : w.kind = "put" /\ w.st = "sent" => w.cand \notin withdrawn'

\* The operation goes on with the snapshot it stored, or ends.
MovesOn(t, d, s) ==
    /\ ~Fresh(t) /\ local[d] \in Mentions(t)
    /\ task'[t].pc \notin Holding
    /\ task'[t].live => task[t].live
    /\ Mentions(t)' \subseteq Mentions(t) \cup {s, None}
    /\ s \notin Known \/ Free(s)
    /\ Fresh(t)' => task'[t].cand = s /\ s \notin Known
    /\ CanFail(t)' => task'[t].cand \notin Known
    /\ Committing(t)' => task'[t].cand = s
    /\ \A n \in Tokens(t)' : Comes(n, t)

LEMMA StoreStep ==
    ASSUME IInv, NEW t \in Tasks, NEW d, NEW s, NEW a, Stored(t, d, s, a),
           snapshots' \in Seq(Snapshot), Len(snapshots') \in Ids, TaskInv(t)',
           \A x \in Known' \ Known : SnapshotInv(x)',
           Removing(s)' => OneMore(d, s, RollbackOf(s))',
           CountsFit(d, s), OwnMaker(t, d, s), MovesOn(t, d, s), WithdrawnFits(d, s),
           Comes(a.tok, t), HasMarker(a) => a.cand = s /\ Ready(s, a.exp)',
           NoClaims(d), ContentShielded(d, s, a), BackShielded(t),
           NEW r \in Known', r = Content(s)',
           \A q \in Known : Attached(d, t, q) => Under(q, r)'
    PROVE  IInv'
<1>0. /\ TypeInv /\ d \in Devices /\ d = Owner[t] /\ Grows
      /\ local'[d] = s /\ cred'[d] = a
      /\ \A e \in Devices : e # d => local'[e] = local[e] /\ cred'[e] = cred[e]
      /\ \A u \in Tasks \ {t} : task'[u] = task[u] /\ SameButLive(u)
  <2>1. Grows
    BY DEF Stored
  <2> QED
    BY <2>1, StoredFacts
<1>1. TypeInv'
  <2>1. local' \in [Devices -> Known']
    <3>1. \A e \in Devices : local'[e] \in Known'
      BY <1>0 DEF TypeInv, Stored, Grows
    <3> QED
      BY <1>0, <3>1 DEF Stored, TypeInv
  <2>2. cred' \in [Devices -> Artifact]
    BY <1>0 DEF Stored, TypeInv
  <2>3. /\ session' \in [Devices -> Known' \cup {None}]
        /\ committed' \subseteq Known' /\ withdrawn' \subseteq Known'
    BY <1>0 DEF Stored, TypeInv, Grows, WithdrawnFits
  <2>4. /\ task' \in [Tasks -> Task] /\ remote' \in committed' \cup {None}
        /\ wire' \subseteq Request
    BY <1>0 DEF Stored, TypeInv, OnlyTask
  <2> QED
    BY <2>1, <2>2, <2>3, <2>4 DEF TypeInv
<1>2. TasksInv'
  BY <1>0, OthersStay DEF IInv, Stored
<1>3. WireInv'
  BY StoredWire DEF WithdrawnFits
<1>4. SnapshotsInv'
  BY StoredSnapshots
<1>5. CountsInv'
  BY <1>1, StoredCounts
<1>6. TokensInv'
  <2>1. Comes(cred'[Owner[t]].tok, t) /\ \A n \in Tokens(t)' : Comes(n, t)
    BY <1>0 DEF MovesOn
  <2>2. \A e \in Devices \ {Owner[t]} : cred'[e] = cred[e]
    BY <1>0
  <2>3. task'[t].pc \notin Holding
    BY DEF MovesOn
  <2> QED
    BY <1>0, <2>1, <2>2, <2>3, TokensKept DEF IInv
<1>7. ClaimsInv'
  <2>1. task'[t].pc # "staged" /\ (CanFail(t)' => task'[t].cand \notin Known)
    BY DEF MovesOn, Holding
  <2> QED
    BY <2>1, StoredClaims
<1>8. MarkersInv'
  <2>1. ASSUME NEW e \in Devices, NEW x, x = cred'[e], HasMarker(x), NEW l, l = local'[e]
        PROVE  x.cand = l /\ Ready(l, x.exp)'
    <3>1. CASE e = d
      BY <1>0, <2>1, <3>1
    <3>2. CASE e # d
      <4>1. l = local[e] /\ x = cred[e] /\ l \in Known
        BY <1>0, <2>1, <3>2 DEF TypeInv
      <4>2. x.cand = l /\ Ready(l, x.exp)
        BY <2>1, <4>1 DEF IInv, MarkersInv
      <4> QED
        BY <1>0, <4>1, <4>2, SnapshotsStay
    <3> QED
      BY <3>1, <3>2
  <2> QED
    BY <2>1 DEF MarkersInv, HasMarker, Ready, Synced, Removing
<1>9. LiveInv'
  BY StoredLive DEF MovesOn
<1>10. SessionInv'
  <2>1. (Committing(t)' => task'[t].cand = s) /\ (task'[t].live => task[t].live)
    BY DEF MovesOn
  <2> QED
    BY <1>1, <2>1, StoredSession
<1>11. WithdrawnInv'
  BY StoredWithdrawn DEF WithdrawnFits
<1> QED
  BY <1>1, <1>2, <1>3, <1>4, <1>5, <1>6, <1>7, <1>8, <1>9, <1>10, <1>11 DEF IInv

-----------------------------------------------------------------------------
(* A snapshot is stored, and the session follows it                          *)

LEMMA StoreAndCommit ==
    ASSUME IInv, NEW t \in Tasks, NEW d, NEW s, NEW a, Stored(t, d, s, a),
           snapshots' \in Seq(Snapshot), Len(snapshots') \in Ids,
           TurnsToCommit(t, s), withdrawn' = withdrawn,
           task[t].pc \in {"checked", "conflicted", "removed"},
           local[d] \in Mentions(t),
           s \notin Known \/ s \in committed,
           task[t].op = "disable" /\ Removing(s)' => task[t].exp = TargetOf(s)',
           \A x \in Known' \ Known : SnapshotInv(x)',
           Removing(s)' => OneMore(d, s, RollbackOf(s))',
           CountsFit(d, s), Comes(a.tok, t), ~HasMarker(a),
           NoClaims(d), ContentShielded(d, s, a),
           NEW l, l = Content(local[d]), NEW r \in Known', r = Content(s)', Under(l, r)'
    PROVE  IInv'
<1>0. TypeInv /\ committed \subseteq Known /\ withdrawn \subseteq Known /\ s \in Known'
  BY DEF IInv, TypeInv, Stored
<1>1. ~Maker(t)' /\ ~CanFail(t)' /\ ~Fresh(t)' /\ ~Fresh(t)
  BY DEF TurnsToCommit, Maker, Tracked, CanFail, Fresh
<1>2. TaskInv(t)'
  <2>1. task[t].op # "none"
    BY DEF IInv, TasksInv, TaskInv
  <2>2. PICK q : q = task'[t].cand
    OBVIOUS
  <2>3. /\ q = s
        /\ task'[t].op = "disable" /\ Removing(q)' => task'[t].exp = TargetOf(q)'
    BY <2>2 DEF TurnsToCommit
  <2>4. task'[t].op = "disable" /\ Removing(task[t].cand)'
           => task'[t].exp = TargetOf(task[t].cand)'
    BY <2>2, <2>3 DEF Removing, TargetOf
  <2> QED
    BY <1>0, <1>1, <2>1, <2>2, <2>3, <2>4 DEF TaskInv, TurnsToCommit, Maker, Tracked
<1>3. OwnMaker(t, d, s)
  <2> SUFFICES ASSUME NEW p \in Tasks, Maker(p)', task'[p].cand = s, s \notin committed
               PROVE  FALSE
    BY DEF OwnMaker
  <2>1. p # t
    BY <1>1
  <2>2. task'[p] = task[p] /\ (Maker(p)' = Maker(p))
    BY <2>1, StoredFacts
  <2>3. task[p].cand \in Known
    BY <2>2, CommittingFacts DEF Committing
  <2> QED
    BY <2>2, <2>3
<1>4. MovesOn(t, d, s)
  <2>1. s \notin Known \/ Free(s)
    BY FreeFacts
  <2>2. \A n \in Tokens(t)' : Comes(n, t)
    BY DEF Tokens, Comes, TurnsToCommit, NoRecord
  <2>3. Mentions(t)' \subseteq Mentions(t) \cup {s, None}
    BY DEF Mentions, TurnsToCommit
  <2> QED
    BY <1>1, <2>1, <2>2, <2>3 DEF MovesOn, TurnsToCommit, Holding
<1>5. WithdrawnFits(d, s)
  <2>1. WithdrawnInv /\ \A w \in wire : w.kind = "put" => PutInv(w)
    BY DEF IInv, WireInv
  <2>2. s \notin withdrawn
    BY <1>0, <2>1 DEF WithdrawnInv
  <2>3. \A e \in Devices : local[e] \notin withdrawn
    BY <2>1 DEF WithdrawnInv
  <2>4. withdrawn \cap committed = {} /\ \A x \in withdrawn : x \in Known /\ Synced(x)
    BY <1>0, <2>1 DEF WithdrawnInv
  <2> QED
    BY <2>1, <2>2, <2>3, <2>4 DEF WithdrawnFits, PutInv
<1>6. BackShielded(t)
  BY <1>1 DEF BackShielded
<1>7. TypeInv'
  <2>1. local' \in [Devices -> Known'] /\ cred' \in [Devices -> Artifact]
    BY <1>0, StoredFacts DEF TypeInv, Stored, Grows
  <2>2. /\ session' \in [Devices -> Known' \cup {None}]
        /\ committed' \subseteq Known' /\ withdrawn' \subseteq Known'
    BY <1>0 DEF Stored, TypeInv, Grows
  <2>3. /\ task' \in [Tasks -> Task] /\ remote' \in committed' \cup {None}
        /\ wire' \subseteq Request
    BY <1>0 DEF Stored, TypeInv, OnlyTask
  <2> QED
    BY <2>1, <2>2, <2>3 DEF TypeInv
<1>8. \A q \in Known : Attached(d, t, q) => Under(q, r)'
  BY <1>7, SessionsFollow
<1> QED
  BY <1>2, <1>3, <1>4, <1>5, <1>6, <1>8, StoreStep

\* The device holds the removal mark c, put on r.
AtMark(t, d, c, r) == /\ task[t].pc \in {"conflicted", "removed"}
                      /\ d = Owner[t] /\ c = local[d] /\ c = task[t].cand
                      /\ r = RollbackOf(c)

LEMMA MarkFacts ==
    ASSUME IInv, NEW t \in Tasks, NEW d, NEW c, NEW r, AtMark(t, d, c, r)
    PROVE  /\ task[t].op = "disable"
           /\ c \in Known /\ Removing(c) /\ c \notin committed \cup {1}
           /\ r \in committed /\ r \in Known /\ ~Removing(r) /\ Content(c) = r
           /\ OneMore(d, c, r) /\ Under(r, c)
           /\ Unseen(d, c)
           /\ ~HasMarker(cred[d]) /\ NoClaims(d)
           /\ Shielded(d, r, cred[d], "nobody")
<1>0. /\ TypeInv /\ d \in Devices
      /\ task[t].pc \in {"conflicted", "removed"}
      /\ d = Owner[t] /\ c = local[d] /\ c = task[t].cand /\ r = RollbackOf(c)
  BY DeviceTypes DEF IInv, AtMark
<1>1. task[t].op = "disable" /\ c \in Known /\ Removing(c)
  BY <1>0 DEF IInv, TasksInv, TaskInv, RemovalInv
<1>2. /\ r \in committed /\ r \in Known /\ ~Removing(r) /\ Under(r, c)
      /\ c \notin committed /\ c # 1
  BY <1>0, <1>1 DEF IInv, SnapshotsInv, SnapshotInv, TypeInv
<1>3. Content(c) = r /\ OneMore(d, c, r)
  BY <1>0, <1>1 DEF Content, RollbackOf, IInv, SnapshotsInv
<1>4. Unseen(d, c)
  BY <1>0 DEF IInv, CountsInv
<1>5. ~HasMarker(cred[d])
  BY <1>0, <1>1 DEF IInv, MarkersInv, Ready
<1>6. NoClaims(d)
  BY <1>0, <1>5, StoreFacts DEF NoClaims
<1>7. Shielded(d, r, cred[d], "nobody")
  BY <1>0, <1>2, <1>3 DEF IInv, ClaimsInv
<1> QED
  BY <1>1, <1>2, <1>3, <1>4, <1>5, <1>6, <1>7

LEMMA UndoRemovalKeeps ==
    ASSUME IInv, NEW t \in Tasks, UndoRemoval(t)
    PROVE  IInv'
<1>0. PICK d, c, r, a : /\ d = Owner[t] /\ c = local[d] /\ c = task[t].cand
                        /\ r = RollbackOf(c) /\ a = cred[d]
  BY DEF UndoRemoval
<1>1. /\ task[t].pc = "conflicted" /\ Store(d, r, a) /\ Commits(t, r)
      /\ UNCHANGED <<snapshots, session, remote, wire, committed, withdrawn>>
  BY <1>0 DEF UndoRemoval, RollbackOf
<1>2. /\ c \in Known /\ Removing(c) /\ c \notin committed
      /\ r \in committed /\ r \in Known /\ ~Removing(r) /\ Content(c) = r
      /\ OneMore(d, c, r)
      /\ \A q \in Others(d) : Count(q, d) < Count(c, d)
      /\ ~HasMarker(a) /\ NoClaims(d)
      /\ Shielded(d, r, a, "nobody")
  <2>1. AtMark(t, d, c, r)
    BY <1>0, <1>1 DEF AtMark
  <2>2. /\ c \in Known /\ Removing(c) /\ c \notin committed \cup {1}
        /\ r \in committed /\ r \in Known /\ ~Removing(r) /\ Content(c) = r
        /\ OneMore(d, c, r)
        /\ Unseen(d, c)
        /\ ~HasMarker(cred[d]) /\ NoClaims(d)
        /\ Shielded(d, r, cred[d], "nobody")
    BY <2>1, MarkFacts
  <2> QED
    BY <1>0, <2>2 DEF Unseen
<1>3. TypeInv /\ d \in Devices /\ a \in Artifact /\ Known \subseteq Ids
  BY <1>0, DeviceTypes, IdsAreKnown DEF IInv
<1>4. TurnsToCommit(t, r)
  BY <1>1, <1>2, <1>3, CommitType
<1>5. Stored(t, d, r, a)
  BY <1>0, <1>1, <1>2, <1>3, <1>4 DEF Stored, TurnsToCommit, Store, Grows, Known
<1>6. CountsFit(d, r)
  <2>1. \A x \in Known, e \in Devices : Count(x, e)' = Count(x, e) /\ Count(x, e) \in Nat
    BY <1>5, StoredFacts
  <2>2. \A e \in Devices : Count(r, e)' <= Count(r, e)
    BY <1>2, <2>1
  <2>3. ASSUME NEW q \in Others(d) PROVE Count(q, d) <= Count(r, d)'
    <3>1. q \in Known
      BY <1>3 DEF Others, TypeInv
    <3>2. Count(q, d) < Count(r, d) + 1
      BY <1>2 DEF OneMore
    <3> QED
      BY <1>2, <1>3, <2>1, <3>1, <3>2
  <2> QED
    BY <1>2, <2>2, <2>3 DEF CountsFit
<1>7. ~Removing(r)' /\ r = Content(r)' /\ Under(r, r)' /\ r \in Known'
  <2>1. ~Removing(r)' /\ Under(r, r)' /\ r \in Known'
    BY <1>1, <1>2, <1>3, UnderFacts, SnapshotsStay, <1>5 DEF Stored
  <2> QED
    BY <2>1 DEF Content, RollbackOf
<1>8. ContentShielded(d, r, a)
  <2>1. Shielded(d, r, a, "nobody")'
    <3>1. SameFailures(t)
      BY <1>5, StoredFacts
    <3>2. ~CanFail(t)' /\ committed' = committed
      BY <1>1, <1>4 DEF TurnsToCommit, CanFail
    <3>3. PICK n : n = Token(d) /\ Unused(n, d)
      BY <1>0, StoreFacts
    <3>4. a.tok # n
      BY <1>0, <3>3 DEF Unused
    <3> QED
      BY <1>0, <1>2, <1>3, <3>1, <3>2, <3>3, <3>4, ShieldStep
  <2> QED
    BY <1>7, <2>1 DEF ContentShielded
<1>9. /\ snapshots' \in Seq(Snapshot) /\ Len(snapshots') \in Ids /\ Known' = Known
      /\ local[d] \in Mentions(t) /\ Comes(a.tok, t)
  BY <1>0, <1>1, <1>3 DEF TypeInv, Known, Mentions, Comes
<1>10. r = Content(local[d])
  BY <1>0, <1>2
<1> QED
  BY <1>0, <1>1, <1>2, <1>4, <1>5, <1>6, <1>7, <1>8, <1>9, <1>10, StoreAndCommit

\* The local snapshot that ends a removal: the mark with one more change.
MadeLocal(c, d) ==
    [snapshots[c] EXCEPT !.vv = IncrementVersionVector(snapshots[c].vv, d),
                         !.synced = FALSE, !.removal = NotRemoving,
                         !.trusted = {d}]

LEMMA MadeLocalFacts ==
    ASSUME TypeInv, NEW c \in Known, NEW d \in Devices, NEW x, x = MadeLocal(c, d)
    PROVE  /\ x \in Snapshot /\ x.exp = snapshots[c].exp
           /\ x.removal.rollback = None
           /\ x.vv[d] = snapshots[c].vv[d] + 1
           /\ \A e \in Devices \ {d} : x.vv[e] = snapshots[c].vv[e]
<1> DEFINE b == snapshots[c]
           up == IncrementVersionVector(b.vv, d)
<1>1. b \in Snapshot /\ b.vv \in [Devices -> Nat]
  BY IdsAreKnown DEF Snapshot
<1>2. /\ up \in [Devices -> Nat] /\ up[d] = b.vv[d] + 1
      /\ \A e \in Devices \ {d} : up[e] = b.vv[e]
  BY <1>1, FullIncrement
<1>3. /\ NotRemoving \in [target : Ids \cup {None}, rollback : Ids \cup {None}]
      /\ NotRemoving.rollback = None
  BY DEF NotRemoving
<1>4. x = [b EXCEPT !.vv = up, !.synced = FALSE, !.removal = NotRemoving, !.trusted = {d}]
  BY DEF MadeLocal
<1>5. {d} \in SUBSET Devices
  OBVIOUS
<1> HIDE DEF b, up
<1>6. /\ x \in Snapshot /\ x.exp = b.exp /\ x.removal = NotRemoving /\ x.vv = up
  BY <1>1, <1>2, <1>3, <1>4, <1>5 DEF Snapshot
<1> QED
  BY <1>2, <1>3, <1>6 DEF b

LEMMA FinishRemovalKeeps ==
    ASSUME IInv, NEW t \in Tasks, FinishRemoval(t)
    PROVE  IInv'
<1>0. PICK d, c, r, n, x : /\ d = Owner[t] /\ c = local[d] /\ c = task[t].cand
                           /\ r = RollbackOf(c) /\ n = New /\ x = MadeLocal(c, d)
  BY DEF FinishRemoval, StoreHolds
<1>1. /\ task[t].pc = "removed" /\ New <= MaxSnapshots
      /\ snapshots' = Append(snapshots, x)
      /\ local' = [local EXCEPT ![d] = New] /\ cred' = [cred EXCEPT ![d] = NoRecord]
      /\ Commits(t, n)
      /\ UNCHANGED <<session, remote, wire, committed, withdrawn>>
  BY <1>0 DEF FinishRemoval, MadeLocal, New, Store
<1>2. AtMark(t, d, c, r)
  BY <1>0, <1>1 DEF AtMark
<1>3. /\ c \in Known /\ Removing(c) /\ c \notin committed \cup {1}
      /\ r \in committed /\ r \in Known /\ Content(c) = r
      /\ Under(r, c) /\ Unseen(d, c) /\ NoClaims(d)
  BY <1>2, MarkFacts
<1>4. TypeInv /\ d \in Devices /\ SnapshotInv(c) /\ 1 \in Known
      /\ \A q \in Known : Under(q, q)
  BY <1>0, <1>3, DeviceTypes, IdsAreKnown, UnderFacts DEF IInv, SnapshotsInv
<1>5. /\ x \in Snapshot /\ x.exp = snapshots[c].exp /\ x.removal.rollback = None
      /\ x.vv[d] = snapshots[c].vv[d] + 1
      /\ \A e \in Devices \ {d} : x.vv[e] = snapshots[c].vv[e]
  BY <1>0, <1>3, <1>4, MadeLocalFacts
<1>6. Added(d) /\ snapshots'[n] = x
  <2>1. Added(d) /\ snapshots'[New] = x
    BY <1>1, <1>4, <1>5, AddedFacts
  <2> QED
    BY <1>0, <2>1
<1>7. /\ n \in Ids /\ n \notin Known /\ n # 1 /\ Known' = Known \cup {n} /\ Grows
      /\ snapshots' \in Seq(Snapshot) /\ Len(snapshots') \in Ids
  BY <1>0, <1>6 DEF Added
<1>8. TurnsToCommit(t, n)
  BY <1>1, <1>4, <1>7, CommitType
<1>9. Stored(t, d, n, NoRecord)
  <2>1. Known' \subseteq Ids
    BY <1>4, <1>7, IdsAreKnown
  <2>2. local' = [local EXCEPT ![d] = n]
    BY <1>0, <1>1
  <2> QED
    BY <1>0, <1>1, <1>7, <1>8, <2>1, <2>2, NoneIsTyped DEF Stored, TurnsToCommit
<1>10. /\ \A q \in Known, e \in Devices : Count(q, e)' = Count(q, e) /\ Count(q, e) \in Nat
       /\ Count(n, d)' = Count(c, d) + 1
       /\ \A e \in Devices \ {d} : Count(n, e)' = Count(c, e)
  <2>1. \A q \in Known, e \in Devices : Count(q, e)' = Count(q, e) /\ Count(q, e) \in Nat
    BY <1>9, StoredFacts
  <2>2. \A e : Count(n, e)' = x.vv[e]
    BY <1>6 DEF Count
  <2> QED
    BY <1>5, <2>1, <2>2 DEF Count
<1>11. ASSUME NEW q \in Known, Under(q, c) PROVE Under(q, n)' /\ ~Under(n, q)'
  <2>1. \A e \in Devices : Count(q, e) <= Count(c, e)
    BY <1>11 DEF Under
  <2>2. \A e \in Devices : Count(q, e)' <= Count(n, e)'
    BY <1>3, <1>4, <1>10, <2>1
  <2>3. ~(Count(n, d)' <= Count(q, d)')
    BY <1>3, <1>4, <1>10, <2>1
  <2> QED
    BY <1>4, <2>2, <2>3 DEF Under
<1>12. ~Removing(n)' /\ Content(n)' = n /\ snapshots'[n].exp = snapshots[c].exp
  BY <1>5, <1>6 DEF Removing, Content, RollbackOf
<1>13. SnapshotInv(n)'
  <2>1. Under(1, n)' /\ ~Under(n, 1)'
    BY <1>3, <1>4, <1>11 DEF SnapshotInv
  <2>2. PICK e : e = snapshots[c].exp
    OBVIOUS
  <2>3. e \in Known \cup {None, Unset} /\ (e \in Known => Under(e, c))
    BY <1>4, <2>2 DEF SnapshotInv
  <2>4. e \in Known' => Under(e, n)' /\ ~Under(n, e)'
    BY <1>7, <1>11, <2>3, NoneIsTyped
  <2>5. e = snapshots'[n].exp
    BY <1>12, <2>2
  <2>6. e \in Known' => Under(snapshots[n].exp, n)' /\ ~Under(n, snapshots[n].exp)'
    BY <2>4, <2>5 DEF Under, Count
  <2> QED
    BY <1>7, <1>12, <2>1, <2>3, <2>5, <2>6 DEF SnapshotInv
<1>14. CountsFit(d, n)
  <2>1. ASSUME NEW e \in Devices \ {d} PROVE Count(n, e)' <= Count(c, e)
    BY <1>3, <1>10
  <2>2. ASSUME NEW q \in Others(d) PROVE Count(q, d) < Count(n, d)' /\ Count(q, d) <= Count(n, d)'
    <3>1. q \in Known
      BY <1>4 DEF Others, TypeInv
    <3>2. Count(q, d) < Count(c, d)
      BY <1>3 DEF Unseen
    <3> QED
      BY <1>3, <1>4, <1>10, <3>1, <3>2
  <2> QED
    BY <1>0, <2>1, <2>2 DEF CountsFit
<1>15. ContentShielded(d, n, NoRecord)
  BY <1>4, <1>7, <1>12 DEF ContentShielded, TypeInv
<1>16. /\ local[d] \in Mentions(t) /\ Comes(NoRecord.tok, t) /\ ~HasMarker(NoRecord)
       /\ \A q \in Known' \ Known : SnapshotInv(q)'
       /\ task[t].pc \in {"checked", "conflicted", "removed"}
       /\ n \in Known' /\ r = Content(local[d]) /\ withdrawn' = withdrawn
  BY <1>0, <1>1, <1>3, <1>7, <1>13 DEF Mentions, Comes, NoRecord, HasMarker
<1>17. Under(r, n)'
  BY <1>3, <1>11
<1> QED
  BY <1>3, <1>7, <1>8, <1>9, <1>12, <1>14, <1>15, <1>16, <1>17, StoreAndCommit

\* An operation is about to store what it makes from the snapshot b.
AtBase(t, d, b) ==
    /\ task[t].pc = "checked" /\ RecordFits(t)
    /\ task[t].op \in {"mutate", "resolve", "setup", "disable"}
    /\ d = Owner[t] /\ b = local[d] /\ b = task[t].base

LEMMA BaseFacts ==
    ASSUME IInv, NEW t \in Tasks, NEW d, NEW b, AtBase(t, d, b)
    PROVE  /\ CheckedInv(task[t])
           /\ b \in Known /\ ~Removing(b) /\ Content(b) = b
           /\ Synced(b) => b \in committed
           /\ ~HasMarker(RecordAfter(t)) /\ RecordAfter(t) \in Artifact
           /\ Comes(RecordAfter(t).tok, t)
           /\ NoClaims(d)
<1>0. /\ TypeInv /\ SnapshotsInv /\ d \in Devices /\ task[t].pc = "checked" /\ RecordFits(t)
      /\ task[t].op \in {"mutate", "resolve", "setup", "disable"}
      /\ d = Owner[t] /\ b = local[d] /\ b = task[t].base /\ b \in Known
  BY DeviceTypes DEF AtBase, IInv
<1>1. CheckedInv(task[t])
  BY <1>0 DEF IInv, TasksInv, TaskInv
<1>2. ~Removing(b) /\ Content(b) = b
  BY <1>0, <1>1, BaseIsNoMark DEF Content, RollbackOf
<1>3. HasMarker(cred[d]) => Ready(b, cred[d].exp)
  BY <1>0 DEF IInv, MarkersInv
<1>4. ASSUME task[t].op = "resolve" PROVE b \in committed \cup {1} /\ Synced(b)
  <2>1. PICK r : r = task[t].exp /\ r \in committed /\ Relation(b, r) = "remote_ahead"
    BY <1>0, <1>1, <1>4 DEF CheckedInv, MayFollow
  <2>2. r \in Known /\ Under(b, r)
    BY <1>0, <2>1, RelationFacts DEF TypeInv
  <2>3. Count(b, d) <= Count(r, d) /\ Count(b, d) \in Nat /\ Count(r, d) \in Nat
    BY <1>0, <2>2, UnderFacts DEF Under
  <2>4. r \in Others(d)
    BY <2>1 DEF Others
  <2>5. Unseen(d, b)
    BY <1>0 DEF IInv, CountsInv
  <2>6. b \notin committed \cup {1} => Count(r, d) < Count(b, d)
    BY <2>4, <2>5 DEF Unseen
  <2>7. Synced(b)
    BY <1>0, <1>1, <1>4 DEF CheckedInv, Admits, Synced
  <2> QED
    BY <2>3, <2>6, <2>7
<1>5. Synced(b) => b \in committed
  <2>1. CASE task[t].op = "resolve"
    BY <1>0, <1>4, <2>1 DEF SnapshotsInv
  <2>2. CASE task[t].op \in {"mutate", "setup", "disable"}
    BY <1>0, <1>1, <2>2 DEF CheckedInv, Admits, Synced
  <2> QED
    BY <1>0, <2>1, <2>2
<1>6. task[t].op # "resolve" => ~HasMarker(cred[d])
  <2>1. CASE Synced(b) /\ task[t].op \in {"mutate", "disable"}
    BY <1>0, <1>1, <2>1 DEF CheckedInv, Admits, RecordFits, Synced
  <2>2. CASE ~Synced(b)
    BY <1>3, <2>2 DEF Ready
  <2>3. CASE task[t].op = "setup"
    BY <1>0, <1>1, <1>3, <2>3 DEF CheckedInv, Admits, Synced, Ready
  <2>4. task[t].op # "resolve" => \/ Synced(b) /\ task[t].op \in {"mutate", "disable"}
                                  \/ ~Synced(b)
                                  \/ task[t].op = "setup"
    BY <1>0
  <2> QED
    BY <2>1, <2>2, <2>3, <2>4
<1>7. ~HasMarker(RecordAfter(t)) /\ RecordAfter(t) \in Artifact
  <2>1. task[t].op \in AllOperations \ {"upload"}
    BY <1>0 DEF AllOperations
  <2> QED
    BY <1>0, <1>6, <2>1, RecordTypes
<1>8. Comes(RecordAfter(t).tok, t)
  <2>1. task[t].op \in AllOperations \ {"upload"}
    BY <1>0 DEF AllOperations
  <2>2. \/ RecordAfter(t) = cred[d]
        \/ RecordAfter(t) = Unmarked(Token(d))
    BY <1>0, <2>1, RecordTypes
  <2>3. Unused(Token(d), d) /\ Unmarked(Token(d)).tok = Token(d)
    BY <1>0, StoreFacts DEF Unmarked
  <2> QED
    BY <1>0, <2>2, <2>3 DEF Comes
<1>9. NoClaims(d)
  <2> SUFFICES ASSUME NEW f, NEW c, c \notin committed, Remembered(d, c, f)
               PROVE  FALSE
    BY DEF NoClaims
  <2>0. b # None
    BY <1>0, IdsAreKnown, NoneIsTyped
  <2>1. c = b /\ HasMarker(cred[d])
    BY <1>0, <2>0 DEF Remembered, HasMarker
  <2>2. Ready(b, cred[d].exp)
    BY <1>3, <2>1
  <2> QED
    BY <1>5, <2>1, <2>2 DEF Ready
<1> QED
  BY <1>0, <1>1, <1>2, <1>5, <1>7, <1>8, <1>9

LEMMA AdoptKeeps ==
    ASSUME IInv, NEW t \in Tasks, Adopt(t)
    PROVE  IInv'
<1>0. PICK d, b, s, a : /\ d = Owner[t] /\ b = local[d] /\ b = task[t].base
                        /\ s = task[t].exp /\ a = RecordAfter(t)
  BY DEF Adopt, MayStore
<1>1. /\ task[t].pc = "checked" /\ task[t].op = "resolve" /\ RecordFits(t)
      /\ Store(d, s, a) /\ Commits(t, s)
      /\ UNCHANGED <<snapshots, session, remote, wire, committed, withdrawn>>
  BY <1>0 DEF Adopt, MayStore
<1>2. AtBase(t, d, b)
  BY <1>0, <1>1 DEF AtBase
<1>3. /\ CheckedInv(task[t]) /\ b \in Known /\ ~Removing(b) /\ Content(b) = b
      /\ ~HasMarker(a) /\ a \in Artifact /\ Comes(a.tok, t) /\ NoClaims(d)
  BY <1>0, <1>2, BaseFacts
<1>4. TypeInv /\ d \in Devices /\ Known \subseteq Ids
  BY <1>0, DeviceTypes, IdsAreKnown DEF IInv
<1>5. s \in committed /\ s \in Known /\ Under(b, s) /\ ~Removing(s)
  <2>1. s \in committed /\ Relation(b, s) = "remote_ahead" /\ ~Removing(s)
    BY <1>0, <1>1, <1>3 DEF CheckedInv, MayFollow
  <2> QED
    BY <1>3, <1>4, <2>1, RelationFacts DEF TypeInv
<1>6. TurnsToCommit(t, s)
  BY <1>1, <1>4, <1>5, CommitType
<1>7. Stored(t, d, s, a)
  BY <1>0, <1>1, <1>3, <1>4, <1>5, <1>6 DEF Stored, TurnsToCommit, Store, Grows, Known
<1>8. CountsFit(d, s)
  <2>1. \A q \in Known, e \in Devices : Count(q, e)' = Count(q, e) /\ Count(q, e) \in Nat
    BY <1>7, StoredFacts
  <2>2. \A e \in Devices : Count(s, e)' <= Count(s, e)
    BY <1>5, <2>1
  <2>3. ASSUME NEW q \in Others(d) PROVE Count(q, d) <= Count(s, d)'
    <3>1. q \in Known
      BY <1>4 DEF Others, TypeInv
    <3>2. Count(q, d) <= Count(b, d) /\ Count(b, d) <= Count(s, d)
      BY <1>0, <1>4, <1>5 DEF IInv, CountsInv, Under
    <3> QED
      BY <1>3, <1>4, <1>5, <2>1, <3>1, <3>2
  <2> QED
    BY <1>5, <2>2, <2>3 DEF CountsFit
<1>9. ~Removing(s)' /\ s = Content(s)' /\ Under(b, s)' /\ s \in Known'
  <2>1. ~Removing(s)' /\ Under(b, s)' /\ s \in Known'
    BY <1>3, <1>5, <1>7, SnapshotsStay DEF Stored
  <2> QED
    BY <2>1 DEF Content, RollbackOf
<1>10. ContentShielded(d, s, a)
  <2>1. PICK n : n = Token(d) /\ Unused(n, d)
    BY <1>0, StoreFacts
  <2>2. a.tok = n
    <3>1. task[t].op \in AllOperations \ {"upload"}
      BY <1>1 DEF AllOperations
    <3>2. a = Unmarked(Token(d))
      BY <1>0, <1>1, <1>4, <3>1, RecordTypes
    <3> QED
      BY <2>1, <3>2 DEF Unmarked
  <2>3. ~CanFail(t)' /\ committed' = committed
    BY <1>1, <1>6 DEF TurnsToCommit, CanFail
  <2>4. ASSUME NEW u \in Tasks \ {"nobody"}, Owner[u] = d, CanFail(u)'
        PROVE  task'[u].mine # a
    <3>1. u # t /\ task'[u] = task[u]
      BY <1>7, <2>3, <2>4, StoredFacts
    <3>2. task[u].mine.tok # n
      BY <2>1, <2>4 DEF Unused
    <3> QED
      BY <2>2, <3>1, <3>2
  <2>5. Shielded(d, s, a, "nobody")'
    <3>1. s \in committed'
      BY <1>5, <2>3
    <3> QED
      BY <1>3, <2>4, <3>1, ShieldAlone
  <2> QED
    BY <1>9, <2>5 DEF ContentShielded
<1>11. /\ snapshots' \in Seq(Snapshot) /\ Len(snapshots') \in Ids /\ Known' = Known
       /\ local[d] \in Mentions(t) /\ task[t].op # "disable"
       /\ task[t].pc \in {"checked", "conflicted", "removed"}
       /\ withdrawn' = withdrawn
  BY <1>0, <1>1, <1>4 DEF TypeInv, Known, Mentions
<1>12. b = Content(local[d])
  BY <1>0, <1>3
<1> QED
  BY <1>3, <1>5, <1>6, <1>7, <1>8, <1>9, <1>10, <1>11, <1>12, StoreAndCommit

-----------------------------------------------------------------------------
(* A new snapshot is stored, to be uploaded or not                           *)

\* What storing the new snapshot n, made from b, does on device d.
LEMMA PersistFacts ==
    ASSUME IInv, NEW t \in Tasks, Persist(t),
           NEW d, d = Owner[t], NEW n, n = New, NEW b, b = task[t].base,
           NEW a, a = RecordAfter(t)
    PROVE  /\ AtBase(t, d, b) /\ Persisted(t) /\ withdrawn' = withdrawn
           /\ Known' = Known \cup {n} /\ n \in Ids /\ n \notin Known /\ Grows
           /\ snapshots' \in Seq(Snapshot) /\ Len(snapshots') \in Ids
           /\ Stored(t, d, n, a)
           /\ SnapshotInv(n)' /\ Under(b, n)' /\ CountsFit(d, n)
           /\ Count(n, d)' = Count(b, d) + 1 /\ Count(b, d)' = Count(b, d)
           /\ task[t].op # "disable" => ~Removing(n)'
           /\ task[t].op = "disable" => /\ Removing(n)' /\ OneMore(d, n, b)'
                                        /\ RollbackOf(n)' = b /\ b \in committed
<1>0. TypeInv /\ d \in Devices
  BY DeviceTypes DEF IInv
<1>1. Persisted(t) /\ CheckedInv(task[t])
  BY PersistEffect DEF IInv
<1>2. AtBase(t, d, b)
  BY <1>1 DEF AtBase, Persisted
<1>3. b \in Known /\ b = local[d]
  BY <1>2, BaseFacts DEF AtBase
<1>4. /\ Known' = Known \cup {n} /\ n \in Ids /\ n \notin Known /\ Grows
      /\ snapshots' \in Seq(Snapshot) /\ Len(snapshots') \in Ids
      /\ withdrawn' = withdrawn /\ local' = [local EXCEPT ![d] = n]
      /\ UNCHANGED <<session, remote, wire, committed>>
  BY <1>1 DEF Persisted, Added
<1>5. Stored(t, d, n, a)
  <2>1. Known' \subseteq Ids
    BY <1>0, <1>4, IdsAreKnown
  <2>2. OnlyTask(t) /\ task[t].pc = "checked"
    BY <1>1 DEF Persisted, TurnsToUpload, TurnsToCommit
  <2>3. cred' = [cred EXCEPT ![d] = a] /\ a \in Artifact
    BY <1>1 DEF Persisted
  <2> QED
    BY <1>4, <2>1, <2>2, <2>3 DEF Stored
<1>6. /\ SnapshotInv(n)'
      /\ \A s \in Known : Under(s, b) => Under(s, n)' /\ ~Under(n, s)'
      /\ task[t].op # "disable" => ~Removing(n)'
      /\ task[t].op = "disable" => /\ Removing(n)' /\ OneMore(d, n, b)'
                                   /\ RollbackOf(n)' = b /\ b \in committed
  <2>1. PICK o : o = Owner[t]
    OBVIOUS
  <2>2. task[t].op = "disable" => OneMore(Owner[t], n, b)'
    BY <1>1, PersistSnapshot
  <2>3. task[t].op = "disable" => OneMore(d, n, b)'
    BY <2>2 DEF OneMore
  <2> QED
    BY <1>1, <2>3, PersistSnapshot
<1>7. Under(b, n)'
  BY <1>0, <1>3, <1>6, UnderFacts
<1>8. /\ \A q \in Known, e \in Devices : Count(q, e)' = Count(q, e) /\ Count(q, e) \in Nat
      /\ Count(n, d)' = Count(b, d) + 1
      /\ \A e \in Devices \ {d} :
            \E r \in committed \cup {b} : Count(n, e)' = Count(r, e)
  <2>1. \A q \in Known, e \in Devices : Count(q, e)' = Count(q, e) /\ Count(q, e) \in Nat
    BY <1>5, StoredFacts
  <2> QED
    BY <1>1, <2>1, NewCounts
<1>9. CountsFit(d, n)
  <2>1. ASSUME NEW e \in Devices \ {d}
        PROVE  \E r \in committed \cup {local[d]} : Count(n, e)' <= Count(r, e)
    <3>1. PICK r \in committed \cup {b} : Count(n, e)' = Count(r, e)
      BY <1>8
    <3>2. Count(r, e) \in Nat
      BY <1>0, <1>3, <1>8 DEF TypeInv
    <3> QED
      BY <1>3, <3>1, <3>2
  <2>2. ASSUME NEW q \in Others(d)
        PROVE  Count(q, d) < Count(n, d)' /\ Count(q, d) <= Count(n, d)'
    <3>1. q \in Known
      BY <1>0 DEF Others, TypeInv
    <3>2. Count(q, d) <= Count(b, d)
      BY <1>0, <1>3 DEF IInv, CountsInv
    <3> QED
      BY <1>0, <1>3, <1>8, <3>1, <3>2
  <2> QED
    BY <2>1, <2>2 DEF CountsFit
<1> QED
  BY <1>0, <1>1, <1>2, <1>3, <1>4, <1>5, <1>6, <1>7, <1>8, <1>9

\* The record of the device shields the snapshot it replaces.
LEMMA BaseShielded ==
    ASSUME IInv, NEW t \in Tasks, NEW d, NEW s, NEW a, Stored(t, d, s, a),
           CanFail(t)' => task'[t].cand \notin Known,
           NEW b, b = Content(local[d]), b \in committed, NEW x, x = cred[d]
    PROVE  Shielded(d, b, x, "nobody")'
<1>1. TypeInv /\ d \in Devices /\ d = Owner[t] /\ SameFailures(t) /\ committed \subseteq Known
  BY StoredFacts
<1>2. Shielded(d, b, x, "nobody")
  BY <1>1 DEF IInv, ClaimsInv
<1>3. PICK n : n = Token(d) /\ Unused(n, d)
  BY <1>1, StoreFacts
<1>4. x.tok # n
  BY <1>3 DEF Unused
<1>5. ~(CanFail(t)' /\ task'[t].cand = b) /\ committed \subseteq committed'
  BY <1>1 DEF Stored
<1> QED
  BY <1>1, <1>2, <1>3, <1>4, <1>5, ShieldStep

LEMMA PersistCommits ==
    ASSUME IInv, NEW t \in Tasks, Persist(t), TurnsToCommit(t, New)
    PROVE  IInv'
<1>0. PICK d, n, b, a : /\ d = Owner[t] /\ n = New /\ b = task[t].base
                        /\ a = RecordAfter(t)
  OBVIOUS
<1>1. /\ AtBase(t, d, b) /\ withdrawn' = withdrawn
      /\ Known' = Known \cup {n} /\ n \in Ids /\ n \notin Known /\ Grows
      /\ snapshots' \in Seq(Snapshot) /\ Len(snapshots') \in Ids
      /\ Stored(t, d, n, a)
      /\ SnapshotInv(n)' /\ Under(b, n)' /\ CountsFit(d, n)
      /\ task[t].op # "disable" => ~Removing(n)'
      /\ task[t].op = "disable" => /\ Removing(n)' /\ OneMore(d, n, b)'
                                   /\ RollbackOf(n)' = b /\ b \in committed
  BY <1>0, PersistFacts
<1>2. /\ CheckedInv(task[t]) /\ b \in Known /\ ~Removing(b) /\ Content(b) = b
      /\ ~HasMarker(a) /\ Comes(a.tok, t) /\ NoClaims(d)
      /\ b = local[d] /\ task[t].pc = "checked"
  BY <1>0, <1>1, BaseFacts DEF AtBase
<1>3. TypeInv /\ committed \subseteq Known /\ TurnsToCommit(t, n)
  BY <1>0 DEF IInv, TypeInv
<1>4. task[t].op = "disable" => task[t].exp = TargetOf(n)'
  BY <1>0, <1>1, <1>2 DEF SnapshotInv, CheckedInv
<1>5. Removing(n)' => OneMore(d, n, RollbackOf(n))'
  BY <1>1 DEF OneMore, Count
<1>6. PICK r \in Known' : r = Content(n)' /\ r = IF task[t].op = "disable" THEN b ELSE n
  BY <1>1, <1>2 DEF Content, RollbackOf
<1>7. Under(b, r)'
  <2>1. Under(b, b)'
    BY <1>1, <1>2, <1>3, UnderFacts, SnapshotsStay
  <2> QED
    BY <1>1, <1>6, <2>1
<1>8. ContentShielded(d, n, a)
  <2>1. ASSUME task[t].op = "disable" PROVE Shielded(d, b, a, "nobody")'
    <3>1. ~CanFail(t)'
      BY <1>3 DEF TurnsToCommit, CanFail
    <3>2. a = cred[d]
      <4>1. task[t].op \in AllOperations \ {"upload"}
        BY <2>1 DEF AllOperations
      <4> QED
        BY <1>0, <1>3, <2>1, <4>1, RecordTypes
    <3>3. b = Content(local[d])
      BY <1>2
    <3> QED
      BY <1>1, <2>1, <3>1, <3>2, <3>3, BaseShielded
  <2> QED
    BY <1>1, <1>3, <1>6, <2>1 DEF ContentShielded
<1>9. /\ local[d] \in Mentions(t) /\ b = Content(local[d])
      /\ task[t].pc \in {"checked", "conflicted", "removed"}
      /\ \A x \in Known' \ Known : SnapshotInv(x)'
  BY <1>0, <1>1, <1>2 DEF Mentions
<1>10. task[t].op = "disable" /\ Removing(n)' => task[t].exp = TargetOf(n)'
  BY <1>4
<1> QED
  BY <1>1, <1>2, <1>3, <1>5, <1>6, <1>7, <1>8, <1>9, <1>10, StoreAndCommit

LEMMA PersistUploads ==
    ASSUME IInv, NEW t \in Tasks, Persist(t), TurnsToUpload(t),
           task[t].op # "disable", Successor(t).synced
    PROVE  IInv'
<1>0. PICK d, n, b, a : /\ d = Owner[t] /\ n = New /\ b = task[t].base
                        /\ a = RecordAfter(t)
  OBVIOUS
<1>1. /\ AtBase(t, d, b) /\ Persisted(t) /\ withdrawn' = withdrawn
      /\ Known' = Known \cup {n} /\ n \in Ids /\ n \notin Known /\ Grows
      /\ snapshots' \in Seq(Snapshot) /\ Len(snapshots') \in Ids
      /\ Stored(t, d, n, a)
      /\ SnapshotInv(n)' /\ Under(b, n)' /\ CountsFit(d, n)
      /\ Count(n, d)' = Count(b, d) + 1 /\ Count(b, d)' = Count(b, d)
      /\ ~Removing(n)'
  BY <1>0, PersistFacts
<1>2. /\ CheckedInv(task[t]) /\ b \in Known /\ ~Removing(b) /\ Content(b) = b
      /\ Synced(b) => b \in committed
      /\ ~HasMarker(a) /\ Comes(a.tok, t) /\ NoClaims(d)
      /\ b = local[d] /\ task[t].pc = "checked"
      /\ task[t].op \in {"mutate", "resolve", "setup"}
  BY <1>0, <1>1, BaseFacts DEF AtBase
<1>3. /\ TypeInv /\ committed \subseteq Known /\ withdrawn \subseteq Known /\ d \in Devices
      /\ n # None
  BY <1>0, <1>1, DeviceTypes, NoneIsTyped DEF IInv, TypeInv
<1>4. /\ OnlyTask(t) /\ task'[t].pc = "persisted"
      /\ task'[t].op = task[t].op /\ task'[t].live = task[t].live
      /\ task'[t].base = b /\ task'[t].cand = n /\ task'[t].exp = task[t].exp
      /\ task'[t].mine = a /\ task'[t].clear = task[t].clear /\ task'[t].back = cred[d]
  BY <1>0 DEF TurnsToUpload
<1>5. ASSUME NEW e, e = task[t].exp PROVE Ready(n, e)'
  <2>1. Synced(n)' /\ snapshots'[n].exp = task[t].exp
    <3>1. snapshots'[n] = Successor(t)
      BY <1>0, <1>1 DEF Persisted
    <3>2. snapshots'[n].exp = task[t].exp
      BY <1>0, <1>1, <1>2, <1>3, SuccessorCounts
    <3> QED
      BY <3>1, <3>2 DEF Synced
  <2>2. task[t].exp # Unset
    <3>1. CASE task[t].op = "mutate"
      <4>1. Synced(n)' = (task[t].op = "setup" \/ Synced(b))
        BY <1>0, <1>1, <1>2, <1>3, SuccessorCounts
      <4>2. Synced(b)
        BY <2>1, <3>1, <4>1
      <4> QED
        BY <1>0, <1>2, <1>3, <3>1, <4>2, IdsAreKnown, NoneIsTyped DEF CheckedInv
    <3>2. CASE task[t].op = "resolve"
      BY <1>2, <1>3, <3>2, IdsAreKnown, NoneIsTyped DEF CheckedInv
    <3>3. CASE task[t].op = "setup"
      BY <1>2, <3>3, NoneIsTyped DEF CheckedInv
    <3> QED
      BY <1>2, <3>1, <3>2, <3>3
  <2> QED
    BY <1>1, <1>5, <2>1, <2>2 DEF Ready
<1>6. TaskInv(t)'
  <2>1. MakerInv(task[t], Owner[t])'
    <3>1. Count(n, d)' = Count(b, d)' + 1
      BY <1>1
    <3>2. Under(b, n)' /\ ~Removing(b)' /\ (Synced(b)' => b \in committed')
      BY <1>1, <1>2, SnapshotsStay DEF Stored
    <3>3. PICK x, k : x = cred[d] /\ k = task'[t]
      OBVIOUS
    <3>4. HasMarker(x) => x.cand = b /\ Ready(b, x.exp)'
      <4>1. HasMarker(x) => x.cand = b /\ Ready(b, x.exp)
        BY <1>2, <1>3, <3>3 DEF IInv, MarkersInv
      <4> QED
        BY <1>1, <1>2, <4>1, SnapshotsStay
    <3>5. k.op \in {"mutate", "resolve", "setup"} /\ k.base = b /\ k.cand = n /\ k.back = x
      BY <1>2, <1>4, <3>3
    <3>6. MakerInv(k, d)'
      BY <3>1, <3>2, <3>4, <3>5 DEF MakerInv
    <3> QED
      BY <1>0, <3>3, <3>6
  <2>2. TrackedInv(task[t], Owner[t])'
    <3>1. PICK k, e : k = task'[t] /\ e = task'[t].exp /\ e = task[t].exp
      BY <1>4
    <3>2. Ready(n, e)'
      BY <1>5, <3>1
    <3>3. MakerInv(k, d)'
      BY <1>0, <2>1, <3>1
    <3>4. /\ k.base = b /\ k.cand = n /\ k.exp = e /\ k.pc = "persisted" /\ k.mine = a
          /\ b \in Known' /\ n \in Known'
      BY <1>1, <1>2, <1>4, <3>1
    <3>5. TrackedInv(k, d)'
      BY <1>2, <3>2, <3>3, <3>4 DEF TrackedInv
    <3> QED
      BY <1>0, <3>1, <3>5
  <2> QED
    BY <1>2, <1>4, <2>2 DEF TaskInv, Tracked
<1>7. OwnMaker(t, d, n)
  <2> SUFFICES ASSUME NEW p \in Tasks, Maker(p)', task'[p].cand = n
               PROVE  p = t
    BY <1>2, <1>4 DEF OwnMaker
  <2> SUFFICES ASSUME p # t PROVE FALSE
    OBVIOUS
  <2>1. task'[p] = task[p] /\ (Maker(p)' = Maker(p))
    BY <1>1, StoredFacts
  <2>2. task[p].cand \in Known
    BY <2>1, CommittingFacts DEF Committing
  <2> QED
    BY <1>1, <2>1, <2>2
<1>8. MovesOn(t, d, n)
  <2>1. \A m \in Tokens(t)' : Comes(m, t)
    BY <1>0, <1>2, <1>4 DEF Tokens, Comes
  <2>2. Mentions(t)' \subseteq Mentions(t) \cup {n, None} /\ local[d] \in Mentions(t)
    BY <1>0, <1>2, <1>4 DEF Mentions
  <2> QED
    BY <1>1, <1>2, <1>4, <2>1, <2>2 DEF MovesOn, Fresh, Holding
<1>9. WithdrawnFits(d, n)
  <2>1. WithdrawnInv /\ \A w \in wire : w.kind = "put" => PutInv(w)
    BY DEF IInv, WireInv
  <2>2. n \notin withdrawn
    BY <1>1, <1>3
  <2>3. \A e \in Devices : local[e] \notin withdrawn
    BY <2>1 DEF WithdrawnInv
  <2>4. withdrawn \cap committed = {} /\ \A x \in withdrawn : x \in Known /\ Synced(x)
    BY <1>3, <2>1 DEF WithdrawnInv
  <2> QED
    BY <1>1, <2>1, <2>2, <2>3, <2>4 DEF WithdrawnFits, PutInv
<1>10. ContentShielded(d, n, a)
  <2>1. Content(n)' = n
    BY <1>1 DEF Content, RollbackOf
  <2> QED
    BY <1>1, <1>3, <2>1 DEF ContentShielded
<1>11. BackShielded(t)
  <2>1. CanFail(t)' => task'[t].cand \notin Known
    BY <1>1, <1>4
  <2>2. b = Content(local[d])
    BY <1>2
  <2>3. \A x : b \in committed /\ x = cred[d] => Shielded(d, b, x, "nobody")'
    BY <1>1, <2>1, <2>2, BaseShielded
  <2> QED
    BY <1>0, <1>4, <2>3 DEF BackShielded
<1>12. n = Content(n)' /\ n \in Known' /\ ~HasMarker(a)
  BY <1>1, <1>2 DEF Content, RollbackOf
<1>13. TypeInv'
  <2>1. local' \in [Devices -> Known'] /\ cred' \in [Devices -> Artifact]
    BY <1>1, <1>3, StoredFacts DEF TypeInv, Stored, Grows
  <2>2. /\ session' \in [Devices -> Known' \cup {None}]
        /\ committed' \subseteq Known' /\ withdrawn' \subseteq Known'
    BY <1>1, <1>3 DEF Stored, TypeInv, Grows
  <2>3. /\ task' \in [Tasks -> Task] /\ remote' \in committed' \cup {None}
        /\ wire' \subseteq Request
    BY <1>1, <1>3 DEF Stored, TypeInv, OnlyTask
  <2> QED
    BY <1>1, <2>1, <2>2, <2>3 DEF TypeInv
<1>14. \A q \in Known : Attached(d, t, q) => Under(q, n)'
  <2>1. b = Content(local[d])
    BY <1>2
  <2> QED
    BY <1>1, <1>12, <1>13, <2>1, SessionsFollow
<1>15. \A x \in Known' \ Known : SnapshotInv(x)'
  BY <1>1
<1> QED
  BY <1>1, <1>2, <1>6, <1>7, <1>8, <1>9, <1>10, <1>11, <1>12, <1>14, <1>15, StoreStep

LEMMA PersistKeeps ==
    ASSUME IInv, NEW t \in Tasks, Persist(t)
    PROVE  IInv'
<1>1. Persisted(t)
  BY PersistEffect DEF IInv
<1> QED
  BY <1>1, PersistCommits, PersistUploads DEF Persisted

-----------------------------------------------------------------------------
(* A failed operation takes back its snapshot                                *)

\* The operation takes back the snapshot c, made from b, and its record.
TakesBack(t, d, b, c) ==
    /\ task[t].pc = "failed" /\ task[t].op # "upload"
    /\ d = Owner[t] /\ b = task[t].base /\ c = task[t].cand
    /\ local[d] = c /\ cred[d] = task[t].mine

\* The snapshot was never remote and no request may still bring it there.
LEMMA TakesBackFacts ==
    ASSUME IInv, NEW t \in Tasks, NEW d, NEW b, NEW c, TakesBack(t, d, b, c)
    PROVE  /\ b \in Known /\ c \in Known /\ d \in Devices /\ b # c
           /\ Maker(t) /\ CanFail(t)
           /\ MakerInv(task[t], d) /\ Synced(c)
           /\ c \notin committed
           /\ \A q \in Others(d) : Count(q, d) <= Count(b, d) /\ q # c
           /\ Unseen(d, b)
           /\ NoClaims(d)
           /\ \A w \in wire : w.kind = "put" /\ w.st = "sent" => w.cand # c
<1>0. /\ TypeInv /\ d \in Devices /\ task[t].pc = "failed" /\ task[t].op # "upload"
      /\ d = Owner[t] /\ b = task[t].base /\ c = task[t].cand
      /\ local[d] = c /\ cred[d] = task[t].mine
  BY DeviceTypes DEF IInv, TakesBack
<1>1. Maker(t) /\ CanFail(t)
  BY <1>0 DEF Maker, Tracked, CanFail
<1>2. TrackedInv(task[t], d)
  BY <1>0, <1>1 DEF IInv, TasksInv, TaskInv, Maker
<1>3. MakerInv(task[t], d) /\ b \in Known /\ c \in Known /\ Synced(c) /\ ~Removing(c) /\ c # 1
  BY <1>0, <1>2 DEF TrackedInv, RetryInv, Ready, IInv, SnapshotsInv
<1>4. \A f : f # t /\ Shielded(d, c, cred[d], f) => FALSE
  BY <1>0, <1>1, ShieldBack
<1>5. c \notin committed
  <2>1. c \in committed => Shielded(d, c, cred[d], "nobody")
    BY <1>0, <1>3 DEF IInv, ClaimsInv, Content, RollbackOf
  <2> QED
    BY <1>4, <2>1, TasksAssumption
<1>6. /\ Count(c, d) = Count(b, d) + 1 /\ Count(b, d) \in Nat
  BY <1>0, <1>3, UnderFacts DEF MakerInv
<1>7. ASSUME NEW q \in Others(d) PROVE Count(q, d) <= Count(b, d) /\ q # c
  <2>1. q \in Known
    BY <1>0 DEF Others, TypeInv
  <2>2. Unseen(d, c)
    BY <1>0 DEF IInv, CountsInv
  <2>3. Count(q, d) < Count(c, d)
    BY <1>3, <1>5, <2>2 DEF Unseen
  <2>4. Count(q, d) \in Nat
    BY <1>0, <2>1, UnderFacts
  <2> QED
    BY <1>6, <2>3, <2>4
<1>8. Unseen(d, b)
  BY <1>0, <1>1, <1>5 DEF IInv, CountsInv
<1>9. ASSUME NEW f, NEW q, ClaimOf(f, q), Remembered(d, q, f) PROVE FALSE
  <2>1. q = c /\ Shielded(d, c, cred[d], f)
    BY <1>0, <1>9 DEF Remembered
  <2>2. f # t
    <3>1. ASSUME f = t, NEW v \in wire, v.kind = "put", v.from = f PROVE FALSE
      BY <1>0, <3>1, RequestFacts
    <3> QED
      BY <1>0, <1>9, <3>1 DEF ClaimOf
  <2> QED
    BY <1>4, <2>1, <2>2
<1>10. ASSUME NEW w \in wire, w.kind = "put", w.st = "sent", w.cand = c PROVE FALSE
  <2>1. ClaimOf(w.from, c)
    BY <1>10 DEF ClaimOf
  <2>2. PICK e \in Devices : Remembered(e, c, w.from)
    BY <1>5, <1>10 DEF IInv, ClaimsInv
  <2>3. local[e] = c
    BY <2>2 DEF Remembered
  <2>4. e = d
    BY <1>7, <2>3 DEF Others
  <2> QED
    BY <1>9, <2>1, <2>2, <2>4
<1>11. b # c
  BY <1>6
<1> QED
  BY <1>0, <1>1, <1>3, <1>5, <1>7, <1>8, <1>9, <1>10, <1>11 DEF NoClaims

LEMMA TakeBackKeeps ==
    ASSUME IInv, NEW t \in Tasks, NEW d, NEW b, NEW c, TakesBack(t, d, b, c),
           session[d] \in {None, b},
           local' = [local EXCEPT ![d] = b], cred' = [cred EXCEPT ![d] = task[t].back],
           withdrawn' = withdrawn \cup {c}, Finishes(t),
           UNCHANGED <<snapshots, session, remote, wire, committed>>
    PROVE  IInv'
<1>0. PICK a : a = task[t].back
  OBVIOUS
<1>1. /\ b \in Known /\ c \in Known /\ d \in Devices /\ b # c
      /\ Maker(t) /\ CanFail(t)
      /\ MakerInv(task[t], d) /\ Synced(c) /\ c \notin committed
      /\ \A q \in Others(d) : Count(q, d) <= Count(b, d) /\ q # c
      /\ Unseen(d, b) /\ NoClaims(d)
      /\ \A w \in wire : w.kind = "put" /\ w.st = "sent" => w.cand # c
  BY TakesBackFacts
<1>2. /\ task[t].pc = "failed" /\ d = Owner[t] /\ b = task[t].base /\ c = task[t].cand
      /\ local[d] = c
  BY DEF TakesBack
<1>3. /\ TypeInv /\ a \in Artifact /\ Known \subseteq Ids
      /\ snapshots \in Seq(Snapshot) /\ Len(snapshots) \in Ids
  BY <1>0, DeviceTypes, IdsAreKnown DEF IInv, TypeInv
<1>4. /\ ~Removing(b) /\ Content(b) = b /\ (Synced(b) => b \in committed)
      /\ Count(c, d) = Count(b, d) + 1 /\ Under(b, c)
      /\ HasMarker(a) => a.cand = b /\ Ready(b, a.exp)
  BY <1>0, <1>1, <1>2 DEF MakerInv, Content, RollbackOf
<1>5. Stored(t, d, b, a)
  BY <1>0, <1>1, <1>2, <1>3 DEF Stored, Finishes, Grows, Known
<1>6. TaskInv(t)' /\ task'[t] = Idle
  BY FinishIsMilder DEF Finishes
<1>7. ~Maker(t)' /\ ~CanFail(t)' /\ ~Fresh(t)' /\ ~Fresh(t) /\ ~Committing(t)'
  BY <1>2, <1>6 DEF Maker, Tracked, CanFail, Fresh, Committing, Idle
<1>8. CountsFit(d, b)
  <2>1. \A q \in Known, e \in Devices : Count(q, e)' = Count(q, e) /\ Count(q, e) \in Nat
    BY <1>5, StoredFacts
  <2>2. \A e \in Devices : Count(b, e)' <= Count(local[d], e)
    BY <1>1, <1>2, <1>4, <2>1 DEF Under
  <2>3. \A q \in Others(d) : Count(q, d) <= Count(b, d)'
    BY <1>1, <2>1
  <2>4. b \notin committed \cup {1} => \A q \in Others(d) : Count(q, d) < Count(b, d)'
    BY <1>1, <2>1 DEF Unseen
  <2> QED
    BY <2>2, <2>3, <2>4 DEF CountsFit
<1>9. OwnMaker(t, d, b)
  <2> SUFFICES ASSUME NEW p \in Tasks, Maker(p)', task'[p].cand = b, b \notin committed
               PROVE  FALSE
    BY DEF OwnMaker
  <2>1. task'[p] = task[p] /\ (Maker(p)' = Maker(p))
    BY <1>5, <1>7, StoredFacts
  <2>2. Ready(b, task[p].exp)
    BY <2>1 DEF Maker, IInv, TasksInv, TaskInv, TrackedInv
  <2> QED
    BY <1>4, <2>2 DEF Ready
<1>10. MovesOn(t, d, b)
  <2>1. Free(b)
    BY <1>2, <1>7, FreeFacts
  <2>2. \A n \in Tokens(t)' : Comes(n, t)
    BY <1>6 DEF Tokens, Comes, Idle, NoRecord
  <2>3. Mentions(t)' \subseteq Mentions(t) \cup {b, None} /\ local[d] \in Mentions(t)
    BY <1>2, <1>6 DEF Mentions, Idle
  <2>4. task'[t].pc \notin Holding /\ (task'[t].live => task[t].live)
    BY <1>6 DEF Idle, Holding
  <2> QED
    BY <1>7, <2>1, <2>2, <2>3, <2>4 DEF MovesOn
<1>11. WithdrawnFits(d, b)
  <2>1. WithdrawnInv /\ \A w \in wire : w.kind = "put" => PutInv(w)
    BY DEF IInv, WireInv
  <2>2. b \notin withdrawn
    BY <1>4, <2>1 DEF WithdrawnInv
  <2>3. \A e \in Devices : e # d => local[e] \notin withdrawn /\ local[e] # c
    BY <1>1, <2>1 DEF WithdrawnInv, Others
  <2>4. withdrawn \cap committed = {} /\ \A x \in withdrawn : x \in Known /\ Synced(x)
    BY <1>3, <2>1 DEF WithdrawnInv, TypeInv
  <2>5. \A w \in wire : w.kind = "put" /\ w.st = "sent" => w.cand \notin withdrawn
    BY <2>1 DEF PutInv
  <2> QED
    BY <1>1, <2>2, <2>3, <2>4, <2>5 DEF WithdrawnFits
<1>12. Comes(a.tok, t) /\ (HasMarker(a) => a.cand = b /\ Ready(b, a.exp)')
  <2>1. HasMarker(a) => Ready(b, a.exp)'
    BY <1>1, <1>4, <1>5, SnapshotsStay DEF Stored
  <2> QED
    BY <1>0, <1>4, <2>1 DEF Comes, Tokens
<1>13. ~Removing(b)' /\ b = Content(b)' /\ b \in Known' /\ Under(b, b)'
  <2>1. ~Removing(b)' /\ b \in Known' /\ Under(b, b)'
    BY <1>1, <1>3, <1>4, <1>5, SnapshotsStay, UnderFacts DEF Stored
  <2> QED
    BY <2>1 DEF Content, RollbackOf
<1>14. ContentShielded(d, b, a)
  <2>1. ASSUME b \in committed PROVE Shielded(d, b, a, "nobody")'
    <3>1. Shielded(d, b, a, "nobody")
      BY <1>0, <1>1, <1>2, <2>1 DEF IInv, ClaimsInv
    <3>2. PICK n : n = Token(d) /\ Unused(n, d)
      BY <1>2, StoreFacts
    <3>3. a.tok # n
      BY <1>0, <1>2, <3>2 DEF Unused
    <3>4. SameFailures(t)
      BY <1>5, StoredFacts
    <3> QED
      BY <1>2, <1>3, <1>7, <3>1, <3>2, <3>3, <3>4, ShieldStep
  <2> QED
    BY <1>13, <2>1 DEF ContentShielded
<1>15. BackShielded(t)
  BY <1>7 DEF BackShielded
<1>16. ASSUME NEW q \in Known, Attached(d, t, q) PROVE Under(q, b)'
  <2>1. CASE session[d] # None /\ q = Content(session[d])
    BY <1>4, <1>13, <2>1
  <2>2. CASE \E u \in Tasks \ {t} : /\ Owner[u] = d /\ Committing(u)
                                    /\ q = Content(task[u].cand)
    <3>1. Under(q, b)
      BY <1>1, <1>2, <2>2 DEF IInv, SessionInv
    <3> QED
      BY <1>1, <1>5, <3>1, SnapshotsStay DEF Stored
  <2> QED
    BY <1>16, <2>1, <2>2 DEF Attached
<1>17. /\ \A x \in Known' \ Known : SnapshotInv(x)'
       /\ snapshots' \in Seq(Snapshot) /\ Len(snapshots') \in Ids
       /\ (Removing(b)' => OneMore(d, b, RollbackOf(b))')
  BY <1>3, <1>13 DEF Known
<1> QED
  BY <1>5, <1>6, <1>8, <1>9, <1>10, <1>11, <1>12, <1>13, <1>14, <1>15, <1>16, <1>17,
     <1>1, StoreStep

LEMMA RollbackKeeps ==
    ASSUME IInv, NEW t \in Tasks, Rollback(t)
    PROVE  IInv'
<1>0. PICK d, b, c : d = Owner[t] /\ b = task[t].base /\ c = task[t].cand
  OBVIOUS
<1>1. /\ task[t].pc = "failed" /\ task[t].op # "upload" /\ TypeInv
      /\ d \in Devices /\ t # "nobody"
  BY <1>0, DeviceTypes, TasksAssumption DEF Rollback, IInv
<1>2. CASE ~SessionAdvanced(t) /\ StoreHolds(d, c, task[t].mine)
  <2>1. TakesBack(t, d, b, c)
    BY <1>0, <1>1, <1>2 DEF TakesBack, StoreHolds
  <2>2. session[d] \in {None, b}
    BY <1>0, <1>2 DEF SessionAdvanced
  <2>3. /\ local' = [local EXCEPT ![d] = b] /\ cred' = [cred EXCEPT ![d] = task[t].back]
        /\ withdrawn' = withdrawn \cup {c} /\ Ends(t)
        /\ UNCHANGED <<snapshots, session, remote, wire, committed>>
    BY <1>0, <1>2 DEF Rollback, Store, RecordBefore
  <2>4. Finishes(t)
    BY <1>1, <2>3, EndType
  <2> QED
    BY <2>1, <2>2, <2>3, <2>4, TakeBackKeeps
<1>3. CASE SessionAdvanced(t)
  <2>1. /\ Ends(t)
        /\ UNCHANGED <<snapshots, local, cred, session, remote, wire, committed,
                       withdrawn>>
    BY <1>0, <1>3 DEF Rollback
  <2>2. Finishes(t)
    BY <1>1, <2>1, EndType
  <2>3. task[t].pc \notin {"sent", "deleting"}
    BY <1>1
  <2> QED
    BY <2>1, <2>2, <2>3, QuietEnd
<1>4. CASE ~SessionAdvanced(t) /\ ~StoreHolds(d, c, task[t].mine)
  <2>1. /\ session' = [session EXCEPT ![d] = None]
        /\ task' = Outlived([task EXCEPT ![t] = Idle], d)
        /\ UNCHANGED <<snapshots, local, cred, remote, wire, committed, withdrawn>>
    BY <1>0, <1>4 DEF Rollback
  <2>2. [task EXCEPT ![t] = Idle] = Ended(t)
    BY <1>1 DEF TypeInv, Ended
  <2> QED
    BY <1>1, <2>1, <2>2, SessionStep
<1> QED
  BY <1>2, <1>3, <1>4

-----------------------------------------------------------------------------
(* The storage performs a request                                            *)

\* Record v is what request w leaves behind for the page that waits for it.
LandedAs(v, w) ==
    /\ v.st = "landed" /\ w.from \in Tasks /\ v.from = w.from
    /\ v.kind = w.kind /\ v.cand = w.cand /\ v.match = w.match

\* What performing request w does to the requests.
Performed(w) ==
    /\ wire' \subseteq Request
    /\ \A v \in wire' : v \in wire \ {w} \/ LandedAs(v, w)
    /\ \A v, x \in wire' : v \notin wire \ {w} /\ x \notin wire \ {w} => v = x
    /\ UNCHANGED <<snapshots, local, cred, session, task, withdrawn>>

LEMMA PerformedFacts ==
    ASSUME IInv, NEW w \in wire, Perform(w)
    PROVE  /\ Performed(w) /\ w.st = "sent" /\ w \in Request
           /\ remote' = IF w.kind = "put" THEN w.cand ELSE None
           /\ committed' = IF w.kind = "put" THEN committed \cup {w.cand} ELSE committed
<1>1. w \in Request /\ wire \subseteq Request /\ w.st = "sent"
  BY DEF IInv, TypeInv, Perform
<1>2. /\ remote' = IF w.kind = "put" THEN w.cand ELSE None
      /\ committed' = IF w.kind = "put" THEN committed \cup {w.cand} ELSE committed
      /\ UNCHANGED <<snapshots, local, cred, session, task, withdrawn>>
  BY DEF Perform
<1>3. CASE w.from = "nobody"
  <2>1. wire' = wire \ {w}
    BY <1>3 DEF Perform, Done
  <2>2. Performed(w)
    BY <1>1, <1>2, <2>1 DEF Performed
  <2> QED
    BY <1>1, <1>2, <2>2
<1>4. CASE w.from # "nobody"
  <2>1. PICK x : x = [w EXCEPT !.st = "landed"]
    OBVIOUS
  <2>2. wire' = (wire \ {w}) \cup {x}
    BY <1>4, <2>1 DEF Perform, Done
  <2>3. /\ x \in Request /\ x.st = "landed" /\ x.from = w.from /\ x.kind = w.kind
        /\ x.cand = w.cand /\ x.match = w.match
    BY <1>1, <2>1 DEF Request
  <2>4. w.from \in Tasks
    BY <1>1, <1>4 DEF Request
  <2>5. /\ wire' \subseteq Request
        /\ \A v \in wire' : v \in wire \ {w} \/ v = x
    BY <1>1, <2>2, <2>3
  <2>6. LandedAs(x, w)
    BY <2>3, <2>4 DEF LandedAs
  <2>7. Performed(w)
    BY <1>2, <2>5, <2>6 DEF Performed
  <2> QED
    BY <1>1, <1>2, <2>7
<1> QED
  BY <1>1, <1>2, <1>3, <1>4

\* Nothing fails by it, and what its page waits for can no longer fail.
LEMMA PerformedFailures ==
    ASSUME IInv, NEW w \in wire, Performed(w)
    PROVE  /\ \A u : CanFail(u)' => CanFail(u)
           /\ SameFailures("nobody")
           /\ w.from \in Tasks => ~CanFail(w.from)'
<1>1. \A v \in wire' : v.st = "sent" => v \in wire \ {w}
  BY DEF Performed, LandedAs
<1>2. ASSUME NEW u, CanFail(u)' PROVE CanFail(u)
  BY <1>1, <1>2 DEF CanFail, Performed
<1>3. SameFailures("nobody")
  BY <1>2 DEF SameFailures, Performed
<1>4. ASSUME w.from \in Tasks PROVE ~CanFail(w.from)'
  <2>1. /\ \A v \in wire : v.from = w.from => v = w
        /\ task[w.from].pc \in {"sent", "deleting"}
    <3>1. w \in Request
      BY DEF IInv, TypeInv
    <3> QED
      BY <1>4, <3>1, RequestFacts DEF Request
  <2>2. PICK f : f = w.from
    OBVIOUS
  <2>3. ~CanFail(f)'
    BY <1>1, <2>1, <2>2 DEF CanFail, Performed
  <2> QED
    BY <2>2, <2>3 DEF CanFail
<1> QED
  BY <1>2, <1>3, <1>4

LEMMA PerformedWire ==
    ASSUME IInv, NEW w \in wire, Performed(w), committed \subseteq committed',
           w.kind = "put" => w.cand \in committed'
    PROVE  Grows /\ TasksInv' /\ WireInv' /\ TokensInv' /\ MarkersInv'
<1>1. Grows
  BY DEF Grows, Performed, Known
<1>2. TasksInv'
  <2>1. \A u \in Tasks : SameButLive(u)
    BY DEF SameButLive, Performed
  <2> QED
    BY <1>1, <2>1, TaskStays DEF TasksInv, IInv
<1>3. TokensInv' /\ MarkersInv'
  BY DEF IInv, TokensInv, MarkersInv, HasMarker, Ready, Removing, Synced, Performed
<1>4. ASSUME NEW v \in wire', v.kind = "put" PROVE PutInv(v)'
  <2>1. CASE v \in wire
    <3>1. PutInv(v)
      BY <1>4, <2>1, RequestFacts
    <3> QED
      BY <3>1 DEF PutInv, Performed, Known, Ready, Synced, Removing
  <2>2. CASE LandedAs(v, w)
    <3>1. PutInv(w)
      BY <1>4, <2>2, RequestFacts DEF LandedAs
    <3> QED
      BY <1>4, <2>2, <3>1
         DEF LandedAs, PutInv, Performed, Known, Ready, Synced, Removing
  <2> QED
    BY <2>1, <2>2 DEF Performed
<1>5. ASSUME NEW v \in wire', v.kind = "delete" PROVE DeleteInv(v)'
  <2>1. CASE v \in wire
    BY <1>5, <2>1, RequestFacts DEF DeleteInv, Performed
  <2>2. CASE LandedAs(v, w)
    BY <1>5, <2>2, RequestFacts DEF DeleteInv, Performed, LandedAs
  <2> QED
    BY <2>1, <2>2 DEF Performed
<1>6. ASSUME NEW v \in wire', v.st # "sent" PROVE v.from \in Tasks
  BY <1>6, RequestFacts DEF Performed, LandedAs
<1>7. ASSUME NEW v \in wire', NEW x \in wire', v.from = x.from, v.from \in Tasks
      PROVE  v = x
  <2>1. ASSUME NEW y \in wire \ {w}, NEW z \in wire', LandedAs(z, w)
        PROVE  y.from # z.from
    BY <2>1, RequestFacts DEF LandedAs
  <2>2. CASE v \in wire \ {w} /\ x \in wire \ {w}
    BY <1>7, <2>2, RequestFacts
  <2>3. CASE v \notin wire \ {w} /\ x \notin wire \ {w}
    BY <2>3 DEF Performed
  <2>4. CASE v \in wire \ {w} /\ x \notin wire \ {w}
    BY <1>7, <2>1, <2>4 DEF Performed
  <2>5. CASE v \notin wire \ {w} /\ x \in wire \ {w}
    BY <1>7, <2>1, <2>5 DEF Performed
  <2> QED
    BY <2>2, <2>3, <2>4, <2>5
<1> QED
  BY <1>1, <1>2, <1>3, <1>4, <1>5, <1>6, <1>7 DEF WireInv

\* The requests it leaves have the snapshots and the claims of those there were.
LEMMA PerformedRequests ==
    ASSUME IInv, NEW w \in wire, Performed(w)
    PROVE  /\ \A v \in wire' : \E x \in wire : x.cand = v.cand
           /\ \A v \in wire' : v.st = "sent" => v \in wire \ {w}
           /\ SameMakers /\ SameCommitting
           /\ \A u \in Tasks : (Fresh(u)' <=> Fresh(u)) /\ Mentions(u)' = Mentions(u)
           /\ \A g : SameFailures(g)
<1>1. \A v \in wire' : \E x \in wire : x.cand = v.cand
  BY DEF Performed, LandedAs
<1>2. \A v \in wire' : v.st = "sent" => v \in wire \ {w}
  BY DEF Performed, LandedAs
<1>3. SameMakers /\ SameCommitting
  BY DEF SameMakers, SameCommitting, Maker, Committing, Tracked, Performed
<1>4. \A u \in Tasks : (Fresh(u)' <=> Fresh(u)) /\ Mentions(u)' = Mentions(u)
  BY DEF Fresh, Mentions, Performed
<1>5. ASSUME NEW g PROVE SameFailures(g)
  BY PerformedFailures DEF SameFailures, Performed
<1> QED
  BY <1>1, <1>2, <1>3, <1>4, <1>5

\* A deletion, or a write whose snapshot was remote before.
LEMMA PerformAgainKeeps ==
    ASSUME IInv, NEW w \in wire, Perform(w), committed' = committed
    PROVE  IInv'
<1>1. /\ Performed(w) /\ w.st = "sent" /\ w \in Request
      /\ remote' = IF w.kind = "put" THEN w.cand ELSE None
      /\ w.kind = "put" => w.cand \in committed
  BY PerformedFacts
<1>2. UNCHANGED <<snapshots, local, cred, session, task, committed, withdrawn>>
  BY <1>1 DEF Performed
<1>3. TypeInv'
  <2>1. wire' \subseteq Request
    BY <1>1 DEF Performed
  <2> QED
    BY <1>1, <1>2, <2>1 DEF IInv, TypeInv, Known
<1>4. TasksInv' /\ WireInv' /\ TokensInv'
  BY <1>1, <1>2, PerformedWire
<1>5. /\ SameFailures("nobody") /\ SameMakers /\ SameCommitting
      /\ \A v \in wire' : \E x \in wire : x.cand = v.cand
      /\ \A v \in wire' : v.st = "sent" => v \in wire
      /\ \A u \in Tasks : (Fresh(u)' <=> Fresh(u)) /\ Mentions(u)' = Mentions(u)
  BY <1>1, PerformedRequests
<1>6. ClaimsFrom
  BY <1>2, <1>5 DEF ClaimsFrom, ClaimOf
<1>7. LiveFrom
  BY <1>2, <1>5 DEF LiveFrom, IInv, LiveInv
<1>8. SessionFrom
  BY <1>2 DEF SessionFrom, Inert
<1> QED
  BY <1>2, <1>3, <1>4, <1>5, <1>6, <1>7, <1>8, QuietStep

-----------------------------------------------------------------------------
(* A snapshot is remote for the first time                                   *)

Lands(w, c) ==
    /\ Performed(w) /\ w.kind = "put" /\ w.st = "sent" /\ w.cand = c
    /\ c \notin committed /\ committed' = committed \cup {c} /\ remote' = c

\* It is the local snapshot of one device, which remembers the upload.
LandsOn(d, c) ==
    /\ d \in Devices /\ local[d] = c /\ Shielded(d, c, cred[d], "nobody")'
    /\ \A e \in Devices \ {d} : local[e] # c
    /\ \A r \in Others(d) : Count(r, d) < Count(c, d)

LEMMA LandsFacts ==
    ASSUME IInv, NEW w \in wire, NEW c, Lands(w, c)
    PROVE  /\ c \in Known /\ c # None /\ c # 1 /\ c \notin withdrawn
           /\ Synced(c) /\ ~Removing(c)
           /\ UNCHANGED <<snapshots, local, cred, session, task, withdrawn>>
           /\ Grows /\ committed \subseteq committed'
           /\ \E d : LandsOn(d, c)
<1>1. /\ c \in Known /\ Ready(c, w.match) /\ c \notin withdrawn
  BY RequestFacts DEF Lands, PutInv
<1>2. Synced(c) /\ ~Removing(c) /\ c # 1
  BY <1>1 DEF Ready, IInv, SnapshotsInv
<1>3. c # None
  BY <1>1, IdsAreKnown, NoneIsTyped DEF IInv
<1>4. UNCHANGED <<snapshots, local, cred, session, task, withdrawn>>
  BY DEF Lands, Performed
<1>5. Grows /\ committed \subseteq committed'
  BY <1>4 DEF Grows, Known, Lands
<1>6. PICK d \in Devices : Remembered(d, c, w.from)
  BY DEF Lands, IInv, ClaimsInv
<1>7. local[d] = c
  BY <1>6 DEF Remembered
<1>8. Shielded(d, c, cred[d], "nobody")'
  <2>1. Performed(w)
    BY DEF Lands
  <2>2. SameFailures("nobody")
    BY <2>1, PerformedFailures
  <2>3. w.from = "nobody" \/ ~CanFail(w.from)'
    <3>1. w \in Request
      BY DEF IInv, TypeInv
    <3> QED
      BY <2>1, <3>1, PerformedFailures DEF Request
  <2>4. PICK f, a : f = w.from /\ a = cred[d]
    OBVIOUS
  <2>5. Shielded(d, c, a, f) /\ (f = "nobody" \/ ~CanFail(f)')
    BY <1>6, <2>3, <2>4 DEF Remembered, CanFail
  <2>6. Shielded(d, c, a, "nobody")'
    BY <1>5, <2>2, <2>5, ShieldKept
  <2> QED
    BY <1>4, <2>4, <2>6
<1>9. \A r \in Others(d) : Count(r, d) < Count(c, d)
  BY <1>2, <1>7 DEF IInv, CountsInv, Unseen, Lands
<1>10. \A e \in Devices \ {d} : local[e] # c
  <2>1. Count(c, d) \in Nat
    BY <1>1, UnderFacts DEF IInv
  <2> QED
    BY <1>9, <2>1 DEF Others
<1>11. LandsOn(d, c)
  BY <1>7, <1>8, <1>9, <1>10 DEF LandsOn
<1> QED
  BY <1>1, <1>2, <1>3, <1>4, <1>5, <1>11

LEMMA LandsSnapshots ==
    ASSUME IInv, NEW w \in wire, NEW c, Lands(w, c)
    PROVE  TypeInv' /\ SnapshotsInv' /\ WithdrawnInv'
<1>1. /\ c \in Known /\ c # None /\ c \notin withdrawn /\ ~Removing(c)
      /\ UNCHANGED <<snapshots, local, cred, session, task, withdrawn>>
      /\ committed' = committed \cup {c} /\ remote' = c /\ wire' \subseteq Request
  BY LandsFacts DEF Lands, Performed
<1>2. TypeInv'
  BY <1>1 DEF IInv, TypeInv, Known
<1>3. ASSUME NEW s \in Known PROVE SnapshotInv(s)'
  <2>1. SnapshotInv(s)
    BY <1>3 DEF IInv, SnapshotsInv
  <2> QED
    BY <1>1, <2>1 DEF SnapshotInv, Known, Under, Count, Removing, RollbackOf,
                      TargetOf, Synced
<1>4. SnapshotsInv'
  BY <1>1, <1>3 DEF IInv, SnapshotsInv, Known, Removing, Synced, RollbackOf, OneMore, Count
<1>5. WithdrawnInv'
  BY <1>1 DEF IInv, WithdrawnInv, Synced
<1> QED
  BY <1>2, <1>4, <1>5

LEMMA LandsCounts ==
    ASSUME IInv, NEW w \in wire, NEW c, Lands(w, c)
    PROVE  CountsInv'
<1>1. /\ c \in Known /\ committed' = committed \cup {c}
      /\ UNCHANGED <<snapshots, local, cred, session, task, withdrawn>>
  BY LandsFacts DEF Lands
<1>2. PICK d : LandsOn(d, c)
  BY LandsFacts
<1>3. /\ d \in Devices /\ local[d] = c
      /\ \A e \in Devices \ {d} : local[e] # c
      /\ \A r \in Others(d) : Count(r, d) < Count(c, d)
  BY <1>2 DEF LandsOn
<1>4. Others(d)' = Others(d) \cup {c}
  BY <1>1 DEF Others
<1>5. \A e \in Devices \ {d} : Others(e)' = Others(e)
  BY <1>1, <1>3 DEF Others
<1>6. \A s, e : Count(s, e)' = Count(s, e)
  BY <1>1 DEF Count
<1>7. /\ \A e \in Devices : \A r \in Others(e) : Count(r, e) <= Count(local[e], e)
      /\ \A e \in Devices : Unseen(e, local[e])
      /\ \A t \in Tasks : /\ Maker(t)
                          /\ local[Owner[t]] = task[t].cand
                          /\ task[t].cand \notin committed
                          => Unseen(Owner[t], task[t].base)
      /\ \A s, r \in committed : Under(s, r) /\ Under(r, s) => s = r
  BY DEF IInv, CountsInv
<1>8. /\ committed \subseteq Known /\ \A s \in Known, e \in Devices : Count(s, e) \in Nat
  BY UnderFacts DEF IInv, TypeInv
<1>9. ASSUME NEW e \in Devices \ {d}, NEW s, Unseen(e, s) PROVE Unseen(e, s)'
  BY <1>1, <1>5, <1>6, <1>9 DEF Unseen
<1>10. \A e \in Devices : \A r \in Others(e)' : Count(r, e)' <= Count(local[e], e)'
  <2>1. ASSUME NEW e \in Devices \ {d}, NEW r \in Others(e)'
        PROVE  Count(r, e)' <= Count(local[e], e)'
    <3>1. Count(r, e) <= Count(local[e], e)
      BY <1>5, <1>7
    <3> QED
      BY <1>1, <1>6, <3>1
  <2>2. ASSUME NEW r \in Others(d)' PROVE Count(r, d)' <= Count(local[d], d)'
    <3>1. Count(r, d) <= Count(local[d], d)
      BY <1>1, <1>3, <1>4, <1>7, <1>8
    <3> QED
      BY <1>1, <1>6, <3>1
  <2> QED
    BY <2>1, <2>2
<1>11. ASSUME NEW e \in Devices PROVE Unseen(e, local[e])'
  <2>1. CASE e = d
    BY <1>1, <1>3, <2>1 DEF Unseen
  <2>2. CASE e # d
    BY <1>1, <1>7, <1>9, <2>2
  <2> QED
    BY <2>1, <2>2
<1>12. ASSUME NEW t \in Tasks, Maker(t)', local'[Owner[t]] = task'[t].cand,
              task'[t].cand \notin committed'
       PROVE  Unseen(Owner[t], task[t].base)'
  <2>1. Maker(t)
    BY <1>1, <1>12 DEF Maker, Tracked
  <2>2. Owner[t] \in Devices \ {d}
    BY <1>1, <1>3, <1>12, OwnerAssumption
  <2>3. Unseen(Owner[t], task[t].base)
    BY <1>1, <1>7, <1>12, <2>1
  <2>4. PICK b : b = task[t].base
    OBVIOUS
  <2>5. Unseen(Owner[t], b)'
    BY <1>9, <2>2, <2>3, <2>4
  <2> QED
    BY <1>1, <2>4, <2>5
<1>13. ASSUME NEW s \in committed', NEW r \in committed', Under(s, r)', Under(r, s)'
       PROVE  s = r
  <2>1. Under(s, r) /\ Under(r, s)
    BY <1>6, <1>13 DEF Under
  <2>2. ASSUME NEW q \in committed PROVE ~Under(c, q)
    <3>1. q \in Others(d) /\ q \in Known
      BY <1>8 DEF Others
    <3>2. Count(q, d) < Count(c, d) /\ Count(q, d) \in Nat /\ Count(c, d) \in Nat
      BY <1>1, <1>3, <1>8, <3>1
    <3> QED
      BY <1>3, <3>2 DEF Under
  <2> QED
    BY <1>1, <1>7, <2>1, <2>2
<1> QED
  BY <1>1, <1>10, <1>11, <1>12, <1>13 DEF CountsInv

LEMMA LandsClaims ==
    ASSUME IInv, NEW w \in wire, NEW c, Lands(w, c)
    PROVE  ClaimsInv'
<1>1. /\ c \in Known /\ committed' = committed \cup {c} /\ Synced(c)
      /\ UNCHANGED <<snapshots, local, cred, session, task, withdrawn>>
      /\ committed \subseteq committed'
  BY LandsFacts DEF Lands
<1>2. /\ \A v \in wire' : v.st = "sent" => v \in wire \ {w}
      /\ SameMakers /\ \A g : SameFailures(g)
  BY PerformedRequests DEF Lands
<1>3. ASSUME NEW d \in Devices, NEW s, NEW a, NEW g, Shielded(d, s, a, g)
      PROVE  Shielded(d, s, a, g)'
  BY <1>1, <1>2, <1>3, ShieldKept
<1>4. ASSUME NEW d \in Devices, NEW s, NEW g, Remembered(d, s, g)
      PROVE  Remembered(d, s, g)'
  <2>1. PICK a : a = cred[d]
    OBVIOUS
  <2>2. Shielded(d, s, a, g)'
    BY <1>3, <1>4, <2>1 DEF Remembered
  <2>3. Shielded(d, s, cred[d], g)'
    BY <1>1, <2>1, <2>2
  <2> QED
    BY <1>1, <1>4, <2>3 DEF Remembered
<1>5. ASSUME NEW v \in wire', v.kind = "put", v.st = "sent", v.cand \notin committed'
      PROVE  \E d \in Devices : Remembered(d, v.cand, v.from)'
  <2>1. v \in wire /\ v.cand \notin committed
    BY <1>1, <1>2, <1>5
  <2>2. PICK d \in Devices : Remembered(d, v.cand, v.from)
    BY <1>5, <2>1 DEF IInv, ClaimsInv
  <2> QED
    BY <1>4, <2>2
<1>6. ASSUME NEW t \in Tasks, task'[t].pc = "staged", task'[t].cand \notin committed'
      PROVE  Remembered(Owner[t], task[t].cand, t)'
  <2>1. Remembered(Owner[t], task[t].cand, t) /\ Owner[t] \in Devices
    BY <1>1, <1>6, OwnerAssumption DEF IInv, ClaimsInv
  <2>2. PICK s : s = task[t].cand
    OBVIOUS
  <2>3. Remembered(Owner[t], s, t)'
    BY <1>4, <2>1, <2>2
  <2> QED
    BY <1>1, <2>2, <2>3
<1>7. ASSUME NEW e \in Devices, Content(local[e])' \in committed'
      PROVE  Shielded(e, Content(local[e]), cred[e], "nobody")'
  <2>1. PICK s, a : s = Content(local[e]) /\ a = cred[e]
    OBVIOUS
  <2>2. Content(local[e])' = s /\ cred'[e] = a
    BY <1>1, <2>1 DEF Content, Removing, RollbackOf
  <2>3. CASE s \in committed
    <3>1. Shielded(e, s, a, "nobody")
      BY <2>1, <2>3 DEF IInv, ClaimsInv
    <3>2. Shielded(e, s, a, "nobody")'
      BY <1>3, <3>1
    <3> QED
      BY <2>2, <3>2
  <2>4. CASE s \notin committed
    <3>1. s = c
      BY <1>1, <1>7, <2>2, <2>4
    <3>2. local[e] = c
      <4>1. local[e] \in Known
        BY DEF IInv, TypeInv
      <4>2. Removing(local[e]) => RollbackOf(local[e]) \in committed
        BY <4>1 DEF IInv, SnapshotsInv, SnapshotInv
      <4> QED
        BY <2>1, <2>4, <3>1, <4>2 DEF Content, RollbackOf
    <3>3. PICK d : LandsOn(d, c)
      BY LandsFacts
    <3>4. e = d
      BY <3>2, <3>3 DEF LandsOn
    <3>5. Shielded(e, c, cred[e], "nobody")'
      BY <3>3, <3>4 DEF LandsOn
    <3> QED
      BY <2>2, <3>1, <3>5
  <2> QED
    BY <2>3, <2>4
<1>8. ASSUME NEW t \in Tasks, Maker(t)', CanFail(t)', task'[t].base \in committed'
      PROVE  Shielded(Owner[t], task[t].base, task[t].back, "nobody")'
  <2>1. Maker(t) /\ CanFail(t) /\ Owner[t] \in Devices
    <3>1. Performed(w)
      BY DEF Lands
    <3> QED
      BY <1>2, <1>8, <3>1, PerformedFailures, OwnerAssumption DEF SameMakers
  <2>2. task[t].base \in committed
    <3>1. TrackedInv(task[t], Owner[t])
      BY <2>1 DEF IInv, TasksInv, TaskInv, Maker
    <3>2. MakerInv(task[t], Owner[t])
      BY <2>1, <3>1 DEF TrackedInv, RetryInv, Maker
    <3> QED
      BY <1>1, <1>8, <3>2 DEF MakerInv
  <2>3. PICK b, a : b = task[t].base /\ a = task[t].back
    OBVIOUS
  <2>4. Shielded(Owner[t], b, a, "nobody")
    BY <2>1, <2>2, <2>3 DEF IInv, ClaimsInv
  <2>5. Shielded(Owner[t], b, a, "nobody")'
    BY <1>3, <2>1, <2>4
  <2> QED
    BY <1>1, <2>3, <2>5
<1> QED
  BY <1>5, <1>6, <1>7, <1>8 DEF ClaimsInv

LEMMA LandsSessions ==
    ASSUME IInv, NEW w \in wire, NEW c, Lands(w, c)
    PROVE  LiveInv' /\ SessionInv'
<1>1. /\ committed' = committed \cup {c} /\ w.cand = c
      /\ UNCHANGED <<snapshots, local, cred, session, task, withdrawn>>
  BY LandsFacts DEF Lands
<1>2. /\ \A v \in wire' : \E x \in wire : x.cand = v.cand
      /\ SameMakers /\ SameCommitting
  BY PerformedRequests DEF Lands
<1>3. LiveInv'
  BY <1>1, <1>2 DEF IInv, LiveInv, Mentions, Known
<1>4. \A s, r : Under(Content(s), Content(r))' <=> Under(Content(s), Content(r))
  BY <1>1 DEF Under, Content, Count, Removing, RollbackOf
<1>5. ASSUME NEW t \in Tasks, Maker(t)', CanFail(t)',
             local'[Owner[t]] = task'[t].cand, task'[t].cand \notin committed',
             NEW u \in Tasks \ {t}, Owner[u] = Owner[t], Committing(u)'
      PROVE  Under(Content(task[u].cand), task[t].base)'
  <2>1. Performed(w)
    BY DEF Lands
  <2>2. Maker(t) /\ CanFail(t) /\ Committing(u)
    BY <1>2, <1>5, <2>1, PerformedFailures DEF SameMakers, SameCommitting
  <2>3. Under(Content(task[u].cand), task[t].base)
    BY <1>1, <1>5, <2>2 DEF IInv, SessionInv
  <2> QED
    BY <1>1, <2>3 DEF Under, Content, Count, Removing, RollbackOf
<1>6. \A d \in Devices : session'[d] # None /\ ~Inert(d)' =>
          Under(Content(session[d]), Content(local[d]))'
  BY <1>1, <1>4 DEF IInv, SessionInv, Inert
<1>7. \A u \in Tasks : Committing(u)' =>
          Under(Content(task[u].cand), Content(local[Owner[u]]))'
  BY <1>1, <1>2, <1>4 DEF IInv, SessionInv, SameCommitting
<1> QED
  BY <1>3, <1>5, <1>6, <1>7 DEF SessionInv

LEMMA PerformKeeps ==
    ASSUME IInv, NEW w \in wire, Perform(w)
    PROVE  IInv'
<1>1. /\ Performed(w) /\ w.st = "sent" /\ w \in Request
      /\ remote' = IF w.kind = "put" THEN w.cand ELSE None
      /\ committed' = IF w.kind = "put" THEN committed \cup {w.cand} ELSE committed
  BY PerformedFacts
<1>2. CASE w.kind = "put" /\ w.cand \notin committed
  <2>1. PICK c : c = w.cand
    OBVIOUS
  <2>2. Lands(w, c)
    BY <1>1, <1>2, <2>1 DEF Lands
  <2>3. TypeInv' /\ SnapshotsInv' /\ WithdrawnInv'
    BY <2>2, LandsSnapshots
  <2>4. CountsInv' /\ ClaimsInv' /\ LiveInv' /\ SessionInv'
    BY <2>2, LandsCounts, LandsClaims, LandsSessions
  <2>5. TasksInv' /\ WireInv' /\ TokensInv' /\ MarkersInv'
    BY <1>1, <1>2, PerformedWire
  <2> QED
    BY <2>3, <2>4, <2>5 DEF IInv
<1>3. CASE ~(w.kind = "put" /\ w.cand \notin committed)
  <2>1. committed' = committed
    BY <1>1, <1>3
  <2> QED
    BY <2>1, PerformAgainKeeps
<1> QED
  BY <1>2, <1>3

-----------------------------------------------------------------------------
(* The invariant holds in every state                                        *)

\* A vault that was never changed: one snapshot, and nothing is under way.
LEMMA InitFacts ==
    ASSUME Init
    PROVE  /\ snapshots \in Seq(Snapshot) /\ Len(snapshots) = 1 /\ Known = {1}
           /\ snapshots[1].exp = Unset /\ ~Removing(1) /\ Synced(1) = Enrolled
           /\ \A d \in Devices : Count(1, d) = 1
           /\ \A d \in Devices : local[d] = 1 /\ session[d] = None
                                 /\ cred[d] \in Artifact /\ ~HasMarker(cred[d])
           /\ \A t \in Tasks : task[t] = Idle
           /\ committed = (IF Enrolled THEN {1} ELSE {})
           /\ remote = (IF Enrolled THEN 1 ELSE None)
           /\ wire = {} /\ withdrawn = {}
<1>1. PICK x : x = [vv |-> [d \in Devices |-> 1], exp |-> Unset, synced |-> Enrolled,
                    removal |-> NotRemoving, trusted |-> Devices]
  OBVIOUS
<1>2. snapshots = <<x>>
  BY <1>1 DEF Init
<1>3. x \in Snapshot
  <2>1. [d \in Devices |-> 1] \in [Devices -> Nat]
    OBVIOUS
  <2>2. NotRemoving \in [target : Ids \cup {None}, rollback : Ids \cup {None}]
    BY DEF NotRemoving
  <2> QED
    BY <1>1, <2>1, <2>2, EnrolledAssumption DEF Snapshot
<1>4. /\ snapshots \in Seq(Snapshot) /\ Len(snapshots) = 1 /\ DOMAIN snapshots = {1}
      /\ snapshots[1] = x
  BY <1>2, <1>3
<1>5. /\ x.exp = Unset /\ x.removal = NotRemoving /\ x.synced = Enrolled
      /\ x.vv = [d \in Devices |-> 1]
  BY <1>1
<1>6. ~Removing(1) /\ Synced(1) = Enrolled /\ \A d \in Devices : Count(1, d) = 1
  BY <1>4, <1>5 DEF Removing, NotRemoving, Synced, Count
<1>7. \A d \in Devices : cred[d] \in Artifact /\ ~HasMarker(cred[d])
  BY NoneIsTyped DEF Init, Unmarked, NoRecord, HasMarker
<1> QED
  BY <1>4, <1>5, <1>6, <1>7 DEF Init, Known

LEMMA InitIInv ==
    ASSUME Init
    PROVE  IInv
<1>1. /\ snapshots \in Seq(Snapshot) /\ Len(snapshots) = 1 /\ Known = {1}
      /\ snapshots[1].exp = Unset /\ ~Removing(1) /\ Synced(1) = Enrolled
      /\ \A d \in Devices : Count(1, d) = 1
      /\ \A d \in Devices : local[d] = 1 /\ session[d] = None
                            /\ cred[d] \in Artifact /\ ~HasMarker(cred[d])
      /\ \A t \in Tasks : task[t] = Idle
      /\ committed = (IF Enrolled THEN {1} ELSE {})
      /\ remote = (IF Enrolled THEN 1 ELSE None)
      /\ wire = {} /\ withdrawn = {}
  BY InitFacts
<1>2. \A t \in Tasks : /\ task[t].pc = "idle" /\ task[t].op = "none" /\ ~task[t].live
                       /\ task[t].base = None /\ task[t].cand = None
                       /\ ~Tracked(t) /\ ~Maker(t) /\ ~Committing(t) /\ ~CanFail(t)
  BY <1>1 DEF Idle, Tracked, Maker, Committing, CanFail
<1>3. TypeInv
  <2>1. 1 \in Ids
    BY MaxSnapshotsAssumption DEF Ids
  <2>2. /\ local \in [Devices -> Known] /\ cred \in [Devices -> Artifact]
        /\ session \in [Devices -> Known \cup {None}]
    BY <1>1 DEF Init
  <2>3. task \in [Tasks -> Task]
    BY NoneIsTyped DEF Init
  <2> QED
    BY <1>1, <2>1, <2>2, <2>3 DEF TypeInv
<1>4. SnapshotsInv
  <2>1. SnapshotInv(1)
    BY <1>1 DEF SnapshotInv, Unset
  <2> QED
    BY <1>1, <2>1 DEF SnapshotsInv
<1>5. TasksInv
  BY <1>1, <1>2 DEF TasksInv, TaskInv
<1>6. WireInv /\ WithdrawnInv
  BY <1>1 DEF WireInv, WithdrawnInv
<1>7. CountsInv
  BY <1>1, <1>2 DEF CountsInv, Others, Unseen
<1>8. TokensInv
  BY <1>2 DEF TokensInv
<1>9. ClaimsInv
  <2>1. ASSUME NEW d \in Devices, Content(local[d]) \in committed
        PROVE  Shielded(d, Content(local[d]), cred[d], "nobody")
    <3>1. Content(local[d]) = 1
      BY <1>1 DEF Content, RollbackOf
    <3>2. Closed({cred[d]}, d, 1, "nobody")
      BY <1>2 DEF Closed
    <3> QED
      BY <1>1, <2>1, <3>1, <3>2 DEF Shielded
  <2> QED
    BY <1>1, <1>2, <2>1 DEF ClaimsInv
<1>10. MarkersInv
  BY <1>1 DEF MarkersInv
<1>11. LiveInv
  BY <1>1, <1>2 DEF LiveInv, Mentions
<1>12. SessionInv
  BY <1>1, <1>2 DEF SessionInv
<1> QED
  BY <1>3, <1>4, <1>5, <1>6, <1>7, <1>8, <1>9, <1>10, <1>11, <1>12 DEF IInv

LEMMA StepKeeps ==
    ASSUME IInv, NEW t \in Tasks, Step(t)
    PROVE  IInv'
<1>1. ASSUME NEW op \in Operations, Begin(t, op) PROVE IInv'
  BY <1>1, BeginKeeps
<1>2. ASSUME CheckStep(t) PROVE IInv'
  BY <1>2, CheckKeeps
<1>3. ASSUME \/ Persist(t) \/ Adopt(t) \/ ReplaceCredentials(t)
             \/ UndoRemoval(t) \/ FinishRemoval(t)
      PROVE  IInv'
  BY <1>3, PersistKeeps, AdoptKeeps, ReplaceCredentialsKeeps, UndoRemovalKeeps,
     FinishRemovalKeeps
<1>4. ASSUME Stage(t) \/ Restage(t) \/ NotSent(t) \/ Send(t) PROVE IInv'
  BY <1>4, StageKeeps, RestageKeeps, NotSentKeeps, SendKeeps
<1>5. ASSUME NEW w \in wire, Answer(t, w) \/ RemovalAnswer(t, w) PROVE IInv'
  BY <1>5, AnswerKeeps, RemovalAnswerKeeps
<1>6. ASSUME Clear(t) \/ ClearMatched(t) \/ Rollback(t) \/ Unmark(t) PROVE IInv'
  BY <1>6, ClearKeeps, ClearMatchedKeeps, RollbackKeeps, UnmarkKeeps
<1>7. ASSUME Commit(t) \/ PrepareRemoval(t) \/ Stop(t) PROVE IInv'
  BY <1>7, CommitKeeps, PrepareRemovalKeeps, StopKeeps
<1> QED
  BY <1>1, <1>2, <1>3, <1>4, <1>5, <1>6, <1>7 DEF Step, CheckStep

LEMMA NextKeeps ==
    ASSUME IInv, OpeningInv, [Next]_vars
    PROVE  IInv'
<1>1. ASSUME NEW d \in Devices, Lock(d) PROVE IInv'
  BY <1>1, LockKeeps
<1>2. ASSUME NEW t \in Tasks, Step(t) \/ FinishUnlock(t) PROVE IInv'
  BY <1>2, StepKeeps, FinishUnlockKeeps
<1>3. ASSUME NEW w \in wire, Perform(w) \/ AnswerRemoval(w) \/ SendAgain(w) PROVE IInv'
  BY <1>3, PerformKeeps, AnswerRemovalKeeps, SendAgainKeeps
<1>4. ASSUME NEW t \in Tasks, BeginUnlock(t) \/ AbandonUnlock(t) PROVE IInv'
  BY <1>4, StutterKeeps DEF BeginUnlock, AbandonUnlock, Calm
<1>5. CASE UNCHANGED vars
  BY <1>5, StutterKeeps DEF vars, Calm
<1> QED
  BY <1>1, <1>2, <1>3, <1>4, <1>5 DEF Next, Network

-----------------------------------------------------------------------------
(* Unlocks under way                                                         *)

\* What a step of page t does to the sessions, to the local snapshots and to the
\* unlocks: nothing; it stores a snapshot and goes on; it takes one back; it ends
\* the session of its device or moves it on.
PageEffect(t) ==
    /\ UNCHANGED opening \/ AdvancesEpoch(Owner[t])
    /\ withdrawn \subseteq withdrawn'
    /\ \A e \in Devices : e # Owner[t] =>
           local'[e] = local[e] /\ session'[e] = session[e]
    /\ \/ UNCHANGED <<local, session>>
       \/ UNCHANGED session /\ task'[t].live /\ AdvancesEpoch(Owner[t])
       \/ /\ UNCHANGED session /\ local[Owner[t]] \in withdrawn'
          /\ session[Owner[t]] \in {None, local'[Owner[t]]}
       \/ UNCHANGED local /\ session'[Owner[t]] = None
       \/ /\ UNCHANGED <<snapshots, local>> /\ Committing(t)
          /\ session'[Owner[t]] = task[t].cand

\* Storing goes on in the session: its operation is not over.
LEMMA StoringGoesOn ==
    ASSUME IInv, NEW t \in Tasks,
           Persist(t) \/ Adopt(t) \/ UndoRemoval(t) \/ FinishRemoval(t)
    PROVE  PageEffect(t)
<1>1. /\ TypeInv /\ TasksInv /\ Owner[t] \in Devices
  BY DeviceTypes DEF IInv
<1>2. ASSUME NEW s \in Ids \cup {None}, task[t].live, Commits(t, s) PROVE task'[t].live
  BY <1>1, <1>2, CommitType DEF TurnsToCommit
<1>3. task'[t].live
  <2>1. CASE Persist(t)
    <3>1. Persisted(t)
      BY <1>1, <2>1, PersistEffect
    <3> QED
      BY <3>1 DEF Persisted, TurnsToUpload, TurnsToCommit
  <2>2. CASE Adopt(t)
    <3>1. task[t].exp \in Ids \cup {None}
      <4>1. CheckedInv(task[t])
        BY <1>1, <2>2 DEF Adopt, MayStore, TasksInv, TaskInv
      <4> QED
        BY <1>1, <2>2, <4>1, IdsAreKnown DEF Adopt, CheckedInv, TypeInv
    <3> QED
      BY <1>2, <2>2, <3>1 DEF Adopt, MayStore, InSession
  <2>3. CASE UndoRemoval(t)
    <3>1. local[Owner[t]] = task[t].cand /\ task[t].cand \in Known
      BY <1>1, <2>3, DeviceTypes DEF UndoRemoval
    <3>2. snapshots[task[t].cand].removal.rollback \in Ids \cup {None}
      BY <1>1, <3>1, IdsAreKnown DEF Snapshot
    <3> QED
      BY <1>2, <2>3, <3>2 DEF UndoRemoval, InSession
  <2>4. CASE FinishRemoval(t)
    <3>1. Len(snapshots) + 1 \in Ids \cup {None}
      BY <1>1, <2>4, MaxSnapshotsAssumption DEF FinishRemoval, TypeInv, Ids
    <3> QED
      BY <1>2, <2>4, <3>1 DEF FinishRemoval, InSession
  <2> QED
    BY <2>1, <2>2, <2>3, <2>4
<1>4. /\ AdvancesEpoch(Owner[t]) /\ UNCHANGED <<session, withdrawn>>
      /\ \E s : local' = [local EXCEPT ![Owner[t]] = s]
  BY DEF Persist, Adopt, UndoRemoval, FinishRemoval, Store
<1>5. \A e \in Devices : e # Owner[t] => local'[e] = local[e]
  BY <1>1, <1>4 DEF TypeInv
<1> QED
  BY <1>3, <1>4, <1>5 DEF PageEffect

LEMMA RollbackPage ==
    ASSUME IInv, NEW t \in Tasks, Rollback(t)
    PROVE  PageEffect(t)
<1>0. PICK d, b, c : d = Owner[t] /\ b = task[t].base /\ c = task[t].cand
  OBVIOUS
<1>1. TypeInv /\ d \in Devices
  BY <1>0, DeviceTypes DEF IInv
<1>2. UNCHANGED opening \/ AdvancesEpoch(d)
  BY <1>0 DEF Rollback
<1>3. CASE ~SessionAdvanced(t) /\ StoreHolds(d, c, task[t].mine)
  <2>1. /\ local' = [local EXCEPT ![d] = b] /\ session' = session
        /\ withdrawn' = withdrawn \cup {c} /\ local[d] = c
    BY <1>0, <1>3 DEF Rollback, Store, StoreHolds
  <2>2. session[d] \in {None, b}
    BY <1>0, <1>3 DEF SessionAdvanced
  <2> QED
    BY <1>0, <1>1, <1>2, <2>1, <2>2 DEF PageEffect, TypeInv
<1>4. CASE SessionAdvanced(t)
  BY <1>0, <1>2, <1>4 DEF Rollback, PageEffect
<1>5. CASE ~SessionAdvanced(t) /\ ~StoreHolds(d, c, task[t].mine)
  <2>1. session' = [session EXCEPT ![d] = None] /\ UNCHANGED <<local, withdrawn>>
    BY <1>0, <1>5 DEF Rollback
  <2> QED
    BY <1>0, <1>1, <1>2, <2>1 DEF PageEffect, TypeInv
<1> QED
  BY <1>3, <1>4, <1>5

LEMMA CommitPage ==
    ASSUME IInv, NEW t \in Tasks, Commit(t)
    PROVE  PageEffect(t)
<1>1. TypeInv /\ Owner[t] \in Devices /\ Committing(t)
  BY DeviceTypes DEF IInv, Commit, Committing
<1>2. UNCHANGED <<snapshots, local, withdrawn>>
  BY DEF Commit
<1>3. CASE InSession(t)
  <2>1. /\ session' = [session EXCEPT ![Owner[t]] = task[t].cand]
        /\ AdvancesEpoch(Owner[t])
    BY <1>3 DEF Commit
  <2> QED
    BY <1>1, <1>2, <2>1 DEF PageEffect, TypeInv
<1>4. CASE ~InSession(t)
  BY <1>2, <1>4 DEF Commit, PageEffect
<1> QED
  BY <1>3, <1>4

\* Marking an upload leaves the snapshot where it is.
LEMMA MarkingPage ==
    ASSUME IInv, NEW t \in Tasks,
           \/ Stage(t) \/ Restage(t) \/ Clear(t) \/ ClearMatched(t) \/ Unmark(t)
           \/ ReplaceCredentials(t)
    PROVE  PageEffect(t)
<1>1. TypeInv /\ Owner[t] \in Devices
  BY DeviceTypes DEF IInv
<1>2. /\ UNCHANGED <<session, withdrawn>>
      /\ UNCHANGED opening \/ AdvancesEpoch(Owner[t])
  BY DEF Stage, Restage, Clear, ClearMatched, Unmark, ReplaceCredentials
<1>3. \/ local' = local
      \/ local' = [local EXCEPT ![Owner[t]] = local[Owner[t]]]
  BY DEF Stage, Restage, Clear, ClearMatched, Unmark, ReplaceCredentials, MayStore,
         Store
<1>4. local' = local
  BY <1>1, <1>3 DEF TypeInv
<1> QED
  BY <1>2, <1>4 DEF PageEffect

LEMMA StepPage ==
    ASSUME IInv, NEW t \in Tasks, Step(t)
    PROVE  PageEffect(t)
<1>1. ASSUME UNCHANGED <<local, session, opening, withdrawn>> PROVE PageEffect(t)
  BY <1>1 DEF PageEffect
<1>2. ASSUME NEW op \in Operations, Begin(t, op) PROVE PageEffect(t)
  BY <1>1, <1>2 DEF Begin
<1>3. ASSUME CheckStep(t) PROVE PageEffect(t)
  BY <1>1, <1>3 DEF CheckStep, CheckForMutation, CheckForResolution, CheckForSetup,
                    CheckForRemoval, CheckForCredentials, CheckForUpload, OnlyLooked
<1>4. ASSUME NEW w \in wire, Answer(t, w) \/ RemovalAnswer(t, w) PROVE PageEffect(t)
  BY <1>1, <1>4 DEF Answer, RemovalAnswer
<1>5. ASSUME NotSent(t) \/ Send(t) \/ PrepareRemoval(t) \/ Stop(t) PROVE PageEffect(t)
  BY <1>1, <1>5 DEF NotSent, Send, PrepareRemoval, Stop
<1> QED
  BY <1>2, <1>3, <1>4, <1>5, StoringGoesOn, RollbackPage, CommitPage, MarkingPage
     DEF Step, CheckStep

\* The epoch moves on whenever the local snapshot does, unless it is rolled back in
\* an open session: so an unlock under way has read the local snapshot, or one
\* that was rolled back.
LEMMA OpeningKeeps ==
    ASSUME IInv, IInv', OpeningInv, [Next]_vars, Grows
    PROVE  OpeningInv'
<1>1. /\ opening \in [Tasks -> Known \cup {None}] /\ Known \subseteq Known'
      /\ \A t \in Tasks : opening[t] \in {None, local[Owner[t]]} \cup withdrawn
      /\ \A t \in Tasks : Owner[t] \in Devices
  BY OwnerAssumption DEF OpeningInv, Grows
<1>2. ASSUME NEW d, AdvancesEpoch(d), withdrawn \subseteq withdrawn',
             \A e \in Devices : e # d => local'[e] = local[e]
      PROVE  OpeningInv'
  <2>1. \A t \in Tasks : opening'[t] = IF Owner[t] = d THEN None ELSE opening[t]
    BY <1>2 DEF AdvancesEpoch
  <2>2. opening' \in [Tasks -> Known' \cup {None}]
    BY <1>1, <1>2 DEF AdvancesEpoch
  <2>3. \A t \in Tasks : opening'[t] \in {None, local'[Owner[t]]} \cup withdrawn'
    BY <1>1, <1>2, <2>1
  <2> QED
    BY <2>2, <2>3 DEF OpeningInv
<1>3. ASSUME UNCHANGED opening, withdrawn \subseteq withdrawn',
             \A d \in Devices : local'[d] = local[d] \/ local[d] \in withdrawn'
      PROVE  OpeningInv'
  <2>1. opening' \in [Tasks -> Known' \cup {None}]
    BY <1>1, <1>3
  <2>2. \A t \in Tasks : opening'[t] \in {None, local'[Owner[t]]} \cup withdrawn'
    BY <1>1, <1>3
  <2> QED
    BY <2>1, <2>2 DEF OpeningInv
<1>4. ASSUME NEW t \in Tasks, Step(t) PROVE OpeningInv'
  <2>1. PageEffect(t)
    BY <1>4, StepPage
  <2>2. CASE AdvancesEpoch(Owner[t])
    BY <1>2, <2>1, <2>2 DEF PageEffect
  <2>3. CASE UNCHANGED opening /\ ~AdvancesEpoch(Owner[t])
    <3>1. \A d \in Devices : local'[d] = local[d] \/ local[d] \in withdrawn'
      BY <2>1, <2>3 DEF PageEffect
    <3> QED
      BY <1>3, <2>1, <2>3, <3>1 DEF PageEffect
  <2> QED
    BY <2>1, <2>2, <2>3 DEF PageEffect
<1>5. ASSUME NEW t \in Tasks, BeginUnlock(t) PROVE OpeningInv'
  <2>1. /\ opening' = [opening EXCEPT ![t] = local[Owner[t]]]
        /\ UNCHANGED <<local, withdrawn>> /\ local[Owner[t]] \in Known
    BY <1>5, DeviceTypes DEF BeginUnlock, IInv
  <2>2. \A u \in Tasks : opening'[u] = IF u = t THEN local[Owner[t]] ELSE opening[u]
    BY <1>1, <2>1
  <2>3. opening' \in [Tasks -> Known' \cup {None}]
    BY <1>1, <2>1
  <2>4. \A u \in Tasks : opening'[u] \in {None, local'[Owner[u]]} \cup withdrawn'
    BY <1>1, <2>1, <2>2
  <2> QED
    BY <2>3, <2>4 DEF OpeningInv
<1>6. ASSUME NEW t \in Tasks, AbandonUnlock(t) PROVE OpeningInv'
  <2>1. opening' = [opening EXCEPT ![t] = None] /\ UNCHANGED <<local, withdrawn>>
    BY <1>6 DEF AbandonUnlock
  <2>2. \A u \in Tasks : opening'[u] = IF u = t THEN None ELSE opening[u]
    BY <1>1, <2>1
  <2>3. opening' \in [Tasks -> Known' \cup {None}]
    BY <1>1, <2>1
  <2>4. \A u \in Tasks : opening'[u] \in {None, local'[Owner[u]]} \cup withdrawn'
    BY <1>1, <2>1, <2>2
  <2> QED
    BY <2>3, <2>4 DEF OpeningInv
<1>7. ASSUME NEW t \in Tasks, FinishUnlock(t) PROVE OpeningInv'
  BY <1>2, <1>7 DEF FinishUnlock
<1>8. ASSUME NEW d \in Devices, Lock(d) PROVE OpeningInv'
  BY <1>2, <1>8 DEF Lock
<1>9. ASSUME NEW w \in wire, Perform(w) \/ AnswerRemoval(w) \/ SendAgain(w)
      PROVE  OpeningInv'
  BY <1>3, <1>9 DEF Perform, AnswerRemoval, SendAgain
<1>10. CASE UNCHANGED vars
  BY <1>3, <1>10 DEF vars
<1> QED
  BY <1>4, <1>5, <1>6, <1>7, <1>8, <1>9, <1>10 DEF Next, Network

-----------------------------------------------------------------------------
(* The remote object, step by step                                           *)

\* What a step can do to the remote object and to the fates of the snapshots.
RemoteStays == UNCHANGED <<snapshots, remote, committed, withdrawn>>
Adds == /\ \E x \in Snapshot : snapshots' = Append(snapshots, x)
        /\ Len(snapshots) + 1 <= MaxSnapshots
        /\ UNCHANGED <<remote, committed, withdrawn>>
Withdraws == /\ \E c \in Known \ (committed \cup withdrawn) :
                   withdrawn' = withdrawn \cup {c}
             /\ UNCHANGED <<snapshots, remote, committed>>
Accepts == /\ \E c \in Known \ withdrawn : /\ snapshots[c].exp = remote
                                           /\ remote' = c
                                           /\ committed' = committed \cup {c}
           /\ UNCHANGED <<snapshots, withdrawn>>
Removes == remote' = None /\ UNCHANGED <<snapshots, committed, withdrawn>>

LEMMA StoreEffect ==
    ASSUME IInv, NEW t \in Tasks, Persist(t) \/ FinishRemoval(t)
    PROVE  Adds
<1>1. TypeInv /\ TasksInv
  BY DEF IInv
<1>2. CASE Persist(t)
  <2>1. Persisted(t) /\ CheckedInv(task[t])
    BY <1>1, <1>2, PersistEffect
  <2>2. Successor(t) \in Snapshot
    BY <1>1, <2>1, SuccessorFacts DEF Persisted
  <2> QED
    BY <1>2, <2>2 DEF Persist, Adds
<1>3. CASE FinishRemoval(t)
  <2>1. PICK x : x = MadeLocal(task[t].cand, Owner[t])
    OBVIOUS
  <2>2. task[t].cand \in Known
    BY <1>3 DEF FinishRemoval, IInv, TasksInv, TaskInv, RemovalInv
  <2>3. x \in Snapshot
    BY <1>1, <2>1, <2>2, MadeLocalFacts, OwnerAssumption
  <2>4. snapshots' = Append(snapshots, x)
    BY <1>3, <2>1 DEF FinishRemoval, MadeLocal
  <2> QED
    BY <1>3, <2>3, <2>4 DEF FinishRemoval, Adds
<1> QED
  BY <1>2, <1>3

LEMMA RollbackEffect ==
    ASSUME IInv, NEW t \in Tasks, Rollback(t)
    PROVE  RemoteStays \/ Withdraws
<1>1. PICK d, b, c : d = Owner[t] /\ b = task[t].base /\ c = task[t].cand
  OBVIOUS
<1>2. CASE ~SessionAdvanced(t) /\ StoreHolds(d, c, task[t].mine)
  <2>1. TakesBack(t, d, b, c)
    BY <1>1, <1>2 DEF TakesBack, StoreHolds, Rollback
  <2>2. c \in Known /\ c \notin committed /\ d \in Devices /\ local[d] = c
    BY <2>1, TakesBackFacts DEF TakesBack
  <2>3. c \notin withdrawn
    BY <2>2 DEF IInv, WithdrawnInv
  <2>4. withdrawn' = withdrawn \cup {c} /\ UNCHANGED <<snapshots, remote, committed>>
    BY <1>1, <1>2 DEF Rollback
  <2> QED
    BY <2>2, <2>3, <2>4 DEF Withdraws
<1>3. CASE ~(~SessionAdvanced(t) /\ StoreHolds(d, c, task[t].mine))
  BY <1>1, <1>3 DEF Rollback, RemoteStays
<1> QED
  BY <1>2, <1>3

LEMMA PerformEffect ==
    ASSUME IInv, NEW w \in wire, Perform(w)
    PROVE  Accepts \/ Removes
<1>1. /\ w \in Request /\ w.st = "sent"
      /\ remote' = IF w.kind = "put" THEN w.cand ELSE None
      /\ committed' = IF w.kind = "put" THEN committed \cup {w.cand} ELSE committed
  BY PerformedFacts
<1>2. remote = w.match /\ UNCHANGED <<snapshots, withdrawn>>
  BY DEF Perform, ConditionHolds
<1>3. CASE w.kind = "put"
  <2>1. PutInv(w)
    BY <1>3, RequestFacts
  <2>2. w.cand \in Known /\ w.cand \notin withdrawn /\ snapshots[w.cand].exp = remote
    BY <1>1, <1>2, <2>1 DEF PutInv, Ready
  <2> QED
    BY <1>1, <1>2, <1>3, <2>2 DEF Accepts
<1>4. CASE w.kind # "put"
  BY <1>1, <1>2, <1>4 DEF Removes
<1> QED
  BY <1>3, <1>4

LEMMA StepEffects ==
    ASSUME IInv, [Next]_vars
    PROVE  RemoteStays \/ Adds \/ Withdraws \/ Accepts \/ Removes
<1>1. ASSUME NEW d \in Devices, Lock(d) PROVE RemoteStays
  BY <1>1 DEF Lock, RemoteStays
<1>5. ASSUME NEW t \in Tasks, BeginUnlock(t) \/ FinishUnlock(t) \/ AbandonUnlock(t)
      PROVE  RemoteStays
  BY <1>5 DEF BeginUnlock, FinishUnlock, AbandonUnlock, RemoteStays
<1>2. ASSUME NEW t \in Tasks, Step(t) PROVE RemoteStays \/ Adds \/ Withdraws
  <2>1. ASSUME NEW op \in Operations, Begin(t, op) PROVE RemoteStays
    BY <2>1 DEF Begin, RemoteStays
  <2>2. ASSUME CheckStep(t) PROVE RemoteStays
    BY <2>2 DEF CheckStep, CheckForMutation, CheckForResolution, CheckForSetup,
                CheckForRemoval, CheckForCredentials, CheckForUpload, OnlyLooked,
                RemoteStays
  <2>3. ASSUME Persist(t) \/ FinishRemoval(t) PROVE Adds
    BY <2>3, StoreEffect
  <2>4. ASSUME \/ Adopt(t) \/ ReplaceCredentials(t) \/ Stage(t) \/ Restage(t)
               \/ NotSent(t) \/ Send(t)
        PROVE  RemoteStays
    BY <2>4 DEF Adopt, ReplaceCredentials, Stage, Restage, NotSent, Send, RemoteStays
  <2>5. ASSUME NEW w \in wire, Answer(t, w) \/ RemovalAnswer(t, w) PROVE RemoteStays
    BY <2>5 DEF Answer, RemovalAnswer, RemoteStays
  <2>6. ASSUME \/ Clear(t) \/ ClearMatched(t) \/ Unmark(t) \/ Commit(t)
               \/ PrepareRemoval(t) \/ UndoRemoval(t) \/ Stop(t)
        PROVE  RemoteStays
    BY <2>6 DEF Clear, ClearMatched, Unmark, Commit, PrepareRemoval, UndoRemoval,
                Stop, RemoteStays
  <2> QED
    BY <1>2, <2>1, <2>2, <2>3, <2>4, <2>5, <2>6, RollbackEffect DEF Step, CheckStep
<1>3. ASSUME NEW w \in wire, Perform(w) \/ AnswerRemoval(w) \/ SendAgain(w)
      PROVE  RemoteStays \/ Accepts \/ Removes
  BY <1>3, PerformEffect DEF AnswerRemoval, SendAgain, RemoteStays
<1>4. CASE UNCHANGED vars
  BY <1>4 DEF vars, RemoteStays
<1> QED
  BY <1>1, <1>2, <1>3, <1>4, <1>5 DEF Next, Network

\* Snapshots never change once they are made.
LEMMA NextGrows ==
    ASSUME IInv, [Next]_vars
    PROVE  Grows
<1>1. CASE snapshots' = snapshots /\ committed \subseteq committed'
  BY <1>1 DEF Grows, Known
<1>2. CASE Adds
  <2>1. /\ TypeInv /\ Len(snapshots) + 1 <= MaxSnapshots
        /\ \E x \in Snapshot : snapshots' = Append(snapshots, x)
        /\ committed' = committed
    BY <1>2 DEF Adds, IInv
  <2> QED
    BY <2>1, Appended DEF Grows
<1> QED
  BY <1>1, <1>2, StepEffects DEF RemoteStays, Withdraws, Accepts, Removes

\* IInv and OpeningInv hold in every state synchronization can reach, whatever the
\* devices, the pages and the operations are.
THEOREM Invariance == Spec => [](IInv /\ OpeningInv)
<1>1. Init => IInv /\ OpeningInv
  <2> SUFFICES ASSUME Init PROVE IInv /\ OpeningInv
    OBVIOUS
  <2>1. OpeningInv
    BY DEF Init, OpeningInv
  <2> QED
    BY <2>1, InitIInv
<1>2. IInv /\ OpeningInv /\ [Next]_vars => IInv' /\ OpeningInv'
  BY NextKeeps, NextGrows, OpeningKeeps
<1> QED
  BY <1>1, <1>2, PTL DEF Spec

-----------------------------------------------------------------------------
(* What the invariant says of the system                                     *)

\* The state of the devices, the pages and the network is of its type.
THEOREM TypeCorrect == Spec => []TypeOK
<1>1. IInv /\ OpeningInv => TypeOK
  <2> SUFFICES ASSUME IInv, OpeningInv PROVE TypeOK
    OBVIOUS
  <2>2. Known \subseteq Ids
    BY IdsAreKnown DEF IInv
  <2> QED
    BY <2>2 DEF IInv, OpeningInv, TypeInv, TypeOK, Known
<1> QED
  BY <1>1, Invariance, PTL

\* While a write can still bring its snapshot to the remote object for the first
\* time, the device that sent it has that snapshot and the marker of its upload:
\* no rollback, resolution or clearing by another page forgot it.
THEOREM OpenUploadsAreRemembered == Spec => []OpenUploadIsRemembered
<1>1. IInv => OpenUploadIsRemembered
  BY DEF IInv, ClaimsInv, Remembered, OpenUploadIsRemembered
<1> QED
  BY <1>1, Invariance, PTL

\* A marker in an encrypted record always describes the local snapshot and what
\* that is signed to replace, so that the pending upload can be tried again.
THEOREM PendingUploadsCanBeRetried == Spec => []PendingUploadCanBeRetried
<1>1. IInv => PendingUploadCanBeRetried
  BY DEF IInv, MarkersInv, Ready, Synced, Admits, PendingUploadCanBeRetried
<1> QED
  BY <1>1, Invariance, PTL

\* Snapshots that were remote or are local have different version vectors, also
\* when a counter was used again after a rollback.
THEOREM VersionsTellSnapshotsApart == Spec => []SameVersionSameSnapshot
<1>1. IInv => SameVersionSameSnapshot
  <2> SUFFICES ASSUME IInv,
                      NEW s \in committed \cup {local[d] : d \in Devices},
                        NEW r \in committed \cup {local[d] : d \in Devices},
                        Relation(s, r) = "equal"
                 PROVE  s = r
    BY DEF SameVersionSameSnapshot
  <2>2. /\ s \in Known /\ r \in Known /\ committed \subseteq Known
        /\ \A d \in Devices : local[d] \in Known
        /\ \A x \in Known, e \in Devices : Count(x, e) \in Nat
        /\ SnapshotInv(s) /\ SnapshotInv(r)
    BY UnderFacts DEF IInv, TypeInv, SnapshotsInv
  <2>3. Under(s, r) /\ Under(r, s)
    BY <2>2, RelationFacts DEF IInv
  <2>4. ASSUME NEW d \in Devices, NEW q \in Others(d), q \in Known,
               Under(local[d], q), local[d] \notin committed
        PROVE  local[d] = 1
    <3>1. local[d] # 1 => Count(q, d) < Count(local[d], d)
      BY <2>4 DEF IInv, CountsInv, Unseen
    <3>2. Count(local[d], d) <= Count(q, d)
      BY <2>4 DEF Under
    <3> QED
      BY <2>2, <2>4, <3>1, <3>2
  <2>5. ASSUME NEW x \in Known, NEW q \in Known, x = 1, Under(q, x), SnapshotInv(q)
        PROVE  q = 1
    BY <2>5 DEF SnapshotInv
  <2>6. ASSUME NEW x \in committed \cup {local[d] : d \in Devices}, x \notin committed,
               NEW q \in committed \cup {local[d] : d \in Devices}, x # q,
               Under(x, q), Under(q, x), x \in Known, q \in Known, SnapshotInv(q)
        PROVE  FALSE
    <3>1. PICK d \in Devices : x = local[d]
      BY <2>6
    <3>2. q \in Others(d)
      BY <2>6, <3>1 DEF Others
    <3>3. x = 1
      BY <2>4, <2>6, <3>1, <3>2
    <3> QED
      BY <2>5, <2>6, <3>3
  <2>7. CASE s \in committed /\ r \in committed
    BY <2>3, <2>7 DEF IInv, CountsInv
  <2>8. CASE s \notin committed \/ r \notin committed
    BY <2>2, <2>3, <2>6, <2>8
  <2> QED
    BY <2>7, <2>8
<1> QED
  BY <1>1, Invariance, PTL

\* What it is for a session to be ahead, in terms of the counters.
AheadMeans(d) ==
    /\ AheadOfStore(d) <=> /\ session[d] # None
                           /\ ~Under(Content(session[d]), Content(local[d]))
    /\ session[d] = local[d] => ~AheadOfStore(d)

LEMMA AheadFacts ==
    ASSUME IInv, NEW d \in Devices
    PROVE  AheadMeans(d)
<1>1. TypeInv /\ SnapshotsInv /\ Known \subseteq Known /\ local[d] \in Known
  BY DEF IInv, TypeInv
<1>2. ASSUME NEW s \in Known PROVE Content(s) \in Known
  BY <1>1, <1>2 DEF Content, RollbackOf, SnapshotsInv, SnapshotInv, TypeInv
<1>3. PICK l \in Known : l = Content(local[d])
  BY <1>1, <1>2
<1>4. CASE session[d] = None
  BY <1>4 DEF AheadMeans, AheadOfStore
<1>5. CASE session[d] # None
  <2>1. session[d] \in Known
    BY <1>1, <1>5 DEF TypeInv
  <2>2. PICK s \in Known : s = Content(session[d])
    BY <1>2, <2>1
  <2>3. Relation(s, l) \in {"equal", "remote_ahead"} <=> Under(s, l)
    BY <1>1, RelationFacts
  <2>4. AheadOfStore(d) <=> ~Under(s, l)
    BY <1>3, <1>5, <2>2, <2>3 DEF AheadOfStore
  <2>5. session[d] = local[d] => Under(s, l)
    BY <1>1, <1>3, <2>2, UnderFacts
  <2> QED
    BY <1>3, <1>5, <2>2, <2>4, <2>5 DEF AheadMeans
<1> QED
  BY <1>4, <1>5

\* A session that is ahead after a step was already, or a page has just opened it at
\* what it read; and its operations are over.
LEMMA AheadStep ==
    ASSUME IInv, IInv', OpeningInv, [Next]_vars, NEW d \in Devices,
           AheadMeans(d), AheadMeans(d)', AheadOfStore(d)'
    PROVE  /\ \/ AheadOfStore(d) /\ session'[d] = session[d]
              \/ /\ session'[d] \in withdrawn
                 /\ \E t \in Tasks : Owner[t] = d /\ opening[t] = session'[d]
           /\ Inert(d)'
<1>1. /\ session'[d] # None /\ session'[d] # local'[d]
      /\ ~Under(Content(session[d]), Content(local[d]))'
  BY DEF AheadMeans
<1>2. Inert(d)'
  BY <1>1 DEF IInv, SessionInv
<1>3. TypeInv /\ SnapshotsInv /\ Grows /\ local[d] \in Known
  BY NextGrows DEF IInv, TypeInv
<1>4. ASSUME session'[d] = session[d], local'[d] = local[d] PROVE AheadOfStore(d)
  <2>1. PICK s \in Known, l \in Known : s = session[d] /\ l = local[d]
    BY <1>1, <1>3, <1>4 DEF TypeInv
  <2>2. ~Under(Content(s), Content(l))'
    BY <1>1, <1>4, <2>1 DEF Under, Count, Content, Removing
  <2>3. ~Under(Content(s), Content(l))
    BY <1>3, <2>2, ContentStays
  <2> QED
    BY <1>1, <1>4, <2>1, <2>3 DEF AheadMeans
<1>5. ASSUME NEW t \in Tasks, Owner[t] = d, Committing(t), session'[d] = task[t].cand,
             UNCHANGED <<snapshots, local>>
      PROVE  FALSE
  <2>1. Under(Content(task[t].cand), Content(local[d]))
    BY <1>5 DEF IInv, SessionInv
  <2>2. PICK s, l : s = session'[d] /\ l = local[d]
    OBVIOUS
  <2>3. Under(Content(s), Content(l))
    BY <1>5, <2>1, <2>2
  <2>4. ~Under(Content(s), Content(l))'
    BY <1>1, <1>5, <2>2 DEF Under, Count, Content, Removing
  <2> QED
    BY <1>5, <2>3, <2>4 DEF Under, Count, Content, Removing
<1>6. ASSUME NEW t \in Tasks, Step(t)
      PROVE  AheadOfStore(d) /\ session'[d] = session[d]
  <2>1. PageEffect(t)
    BY <1>6, StepPage
  <2>2. CASE Owner[t] # d
    BY <1>4, <2>1, <2>2 DEF PageEffect
  <2>3. CASE Owner[t] = d
    <3>1. ~task'[t].live
      BY <1>2, <2>3 DEF Inert
    <3>2. UNCHANGED <<local, session>>
      BY <1>1, <1>5, <2>1, <2>3, <3>1 DEF PageEffect
    <3> QED
      BY <1>4, <3>2
  <2> QED
    BY <2>2, <2>3
<1>7. ASSUME NEW t \in Tasks, FinishUnlock(t)
      PROVE  \/ AheadOfStore(d) /\ session'[d] = session[d]
             \/ /\ session'[d] \in withdrawn
                /\ Owner[t] = d /\ opening[t] = session'[d]
  <2>1. /\ session' = [session EXCEPT ![Owner[t]] = opening[t]] /\ local' = local
        /\ opening[t] # None
    BY <1>7 DEF FinishUnlock
  <2>2. CASE Owner[t] # d
    <3>1. session'[d] = session[d]
      BY <1>3, <2>1, <2>2 DEF TypeInv
    <3> QED
      BY <1>4, <2>1, <3>1
  <2>3. CASE Owner[t] = d
    <3>1. session'[d] = opening[t]
      BY <1>3, <2>1, <2>3 DEF TypeInv
    <3>2. opening[t] \in withdrawn
      BY <1>1, <2>1, <2>3, <3>1 DEF OpeningInv
    <3> QED
      BY <2>3, <3>1, <3>2
  <2> QED
    BY <2>2, <2>3
<1>8. ASSUME NEW e \in Devices, Lock(e) PROVE AheadOfStore(d) /\ session'[d] = session[d]
  <2>1. session' = [session EXCEPT ![e] = None] /\ local' = local
    BY <1>8 DEF Lock
  <2>2. session'[d] = session[d]
    BY <1>1, <1>3, <2>1 DEF TypeInv
  <2> QED
    BY <1>4, <2>1, <2>2
<1>9. ASSUME UNCHANGED <<local, session>>
      PROVE  AheadOfStore(d) /\ session'[d] = session[d]
  BY <1>4, <1>9
<1>10. ASSUME NEW t \in Tasks, BeginUnlock(t) \/ AbandonUnlock(t)
       PROVE  UNCHANGED <<local, session>>
  BY <1>10 DEF BeginUnlock, AbandonUnlock
<1>11. ASSUME NEW w \in wire, Perform(w) \/ AnswerRemoval(w) \/ SendAgain(w)
       PROVE  UNCHANGED <<local, session>>
  BY <1>11 DEF Perform, AnswerRemoval, SendAgain
<1>12. CASE UNCHANGED vars
  BY <1>2, <1>9, <1>12 DEF vars
<1> QED
  BY <1>2, <1>6, <1>7, <1>8, <1>9, <1>10, <1>11, <1>12 DEF Next, Network

\* A session gets ahead of the store only where an unlock opens it at a snapshot
\* that was rolled back since the unlock read it, and no operation goes on in such
\* a session: no store, rollback, undone removal or late commit leads to one.
THEOREM SessionsFollowUnlessOvertaken == Spec => OnlyOvertakenUnlocksAreAhead
<1> DEFINE Means == \A d \in Devices : AheadMeans(d)
           Overtaken ==
               \A d \in Devices : AheadOfStore(d)' =>
                   /\ \/ AheadOfStore(d) /\ session'[d] = session[d]
                      \/ /\ session'[d] \in withdrawn
                         /\ \E t \in Tasks : Owner[t] = d /\ opening[t] = session'[d]
                   /\ \A t \in Tasks : Owner[t] = d => ~task'[t].live
<1>1. IInv => Means
  BY AheadFacts
<1>2. IInv /\ OpeningInv /\ Means /\ IInv' /\ Means' /\ [Next]_vars => [Overtaken]_vars
  <2> SUFFICES ASSUME IInv, OpeningInv, Means, IInv', Means', [Next]_vars,
                      NEW d \in Devices, AheadOfStore(d)'
               PROVE  /\ \/ AheadOfStore(d) /\ session'[d] = session[d]
                         \/ /\ session'[d] \in withdrawn
                            /\ \E t \in Tasks : Owner[t] = d /\ opening[t] = session'[d]
                      /\ \A t \in Tasks : Owner[t] = d => ~task'[t].live
    OBVIOUS
  <2>1. AheadMeans(d) /\ AheadMeans(d)'
    OBVIOUS
  <2> QED
    BY <2>1, AheadStep DEF Inert
<1> HIDE DEF Means
<1> QED
  BY <1>1, <1>2, Invariance, PTL DEF Spec, OnlyOvertakenUnlocksAreAhead

-----------------------------------------------------------------------------
(* The remote object                                                         *)

\* No write, however late or repeated, replaces the remote snapshot by an older one
\* or by one that was made without knowing it.
THEOREM RemoteObjectMovesForward == Spec => RemoteMovesForward
<1> DEFINE Forward == remote # None /\ remote' # None /\ remote' # remote
                      => CompareVersionVectors(snapshots[remote].vv,
                                               snapshots'[remote'].vv) = "remote_ahead"
<1>1. IInv /\ [Next]_vars => [Forward]_vars
  <2> SUFFICES ASSUME IInv, [Next]_vars, remote # None, remote' # None,
                      remote' # remote
               PROVE  CompareVersionVectors(snapshots[remote].vv,
                                            snapshots'[remote'].vv) = "remote_ahead"
    OBVIOUS
  <2>1. Accepts
    BY StepEffects DEF RemoteStays, Adds, Withdraws, Removes
  <2>2. PICK c \in Known : snapshots[c].exp = remote /\ remote' = c
    BY <2>1 DEF Accepts
  <2>3. SnapshotInv(c) /\ remote \in Known
    BY DEF IInv, SnapshotsInv, TypeInv
  <2>4. Under(remote, c) /\ ~Under(c, remote)
    BY <2>2, <2>3 DEF SnapshotInv
  <2>5. Relation(remote, c) = "remote_ahead"
    BY <2>3, <2>4, RelationFacts DEF IInv
  <2>6. snapshots' = snapshots
    BY <2>1 DEF Accepts
  <2> QED
    BY <2>2, <2>5, <2>6 DEF Relation
<1> QED
  BY <1>1, Invariance, PTL DEF Spec, RemoteMovesForward

-----------------------------------------------------------------------------
(* The remote object is a register                                           *)

Offers == [s \in Known |-> snapshots[s].exp]
Fates == {"open", "accepted", "withdrawn"}
FateOf(s) == IF s \in committed THEN "accepted"
             ELSE IF s \in withdrawn THEN "withdrawn" ELSE "open"
Fate == [s \in Known |-> FateOf(s)]

LEMMA RegisterTypes ==
    ASSUME TypeInv
    PROVE  /\ Offers \in Seq(Ids \cup {None, Unset}) /\ Fate \in Seq(Fates)
           /\ Len(Offers) = Len(snapshots) /\ Len(Fate) = Len(snapshots)
           /\ DOMAIN Offers = Known /\ DOMAIN Fate = Known
<1>1. /\ Known = 1 .. Len(snapshots) /\ Len(snapshots) \in Nat
      /\ \A s \in Known : snapshots[s] \in Snapshot
  BY IdsAreKnown
<1>2. \A s \in Known : snapshots[s].exp \in Ids \cup {None, Unset}
  BY <1>1 DEF Snapshot
<1>3. \A s \in Known : FateOf(s) \in Fates
  BY DEF FateOf, Fates
<1> QED
  BY <1>1, <1>2, <1>3 DEF Offers, Fate

LEMMA RegisterInit ==
    ASSUME Init
    PROVE  Register!Init
<1>1. /\ Len(snapshots) = 1 /\ Known = {1} /\ snapshots[1].exp = Unset
      /\ committed = (IF Enrolled THEN {1} ELSE {}) /\ withdrawn = {}
      /\ remote = (IF Enrolled THEN 1 ELSE None)
  BY InitFacts
<1>2. Offers = <<Unset>>
  BY <1>1 DEF Offers
<1>3. Fate = IF remote = None THEN <<"open">> ELSE <<"accepted">>
  BY <1>1, EnrolledAssumption DEF Fate, FateOf, None
<1> QED
  BY <1>1, <1>2, <1>3 DEF Register!Init, Offers, Fate, FateOf, Known

LEMMA AppendAsFunction ==
    ASSUME NEW S, NEW q \in Seq(S), NEW e \in S, NEW n, n = Len(q) + 1
    PROVE  Append(q, e) = [s \in 1 .. n |-> IF s = n THEN e ELSE q[s]]
<1>1. PICK a : a = Append(q, e)
  OBVIOUS
<1>2. /\ a \in Seq(S) /\ Len(a) = n /\ n \in Nat /\ Len(q) \in Nat
      /\ \A s \in 1 .. Len(q) : a[s] = q[s]
      /\ a[n] = e
  BY <1>1, AppendProperties, LenProperties
<1>3. a \in [1 .. n -> S]
  BY <1>2, LenProperties
<1>4. \A s \in 1 .. n : a[s] = IF s = n THEN e ELSE q[s]
  BY <1>2
<1> QED
  BY <1>1, <1>3, <1>4

LEMMA AddsOffers ==
    ASSUME IInv, Adds
    PROVE  \E e \in Ids \cup {None, Unset} :
              /\ Len(Offers) < MaxSnapshots
              /\ Offers' = Append(Offers, e) /\ Fate' = Append(Fate, "open")
              /\ remote' = remote
<1>1. PICK x \in Snapshot : snapshots' = Append(snapshots, x)
  BY DEF Adds
<1>2. /\ Len(snapshots) + 1 <= MaxSnapshots
      /\ UNCHANGED <<remote, committed, withdrawn>>
  BY DEF Adds
<1>3. PICK n : n = Len(snapshots) + 1
  OBVIOUS
<1>4. /\ TypeInv /\ committed \subseteq Known /\ withdrawn \subseteq Known
  BY DEF IInv, TypeInv
<1>5. /\ Known' = Known \cup {n} /\ n \notin Known
      /\ \A s \in Known : snapshots'[s] = snapshots[s]
      /\ snapshots'[n] = x
  BY <1>1, <1>2, <1>3, <1>4, Appended
<1>6. /\ Known = 1 .. Len(snapshots) /\ Len(snapshots) \in Nat
      /\ Known' = 1 .. n
  BY <1>3, <1>4, <1>5, IdsAreKnown
<1>7. /\ Offers \in Seq(Ids \cup {None, Unset}) /\ Fate \in Seq(Fates)
      /\ Len(Offers) = Len(snapshots) /\ Len(Fate) = Len(snapshots)
  BY <1>4, RegisterTypes
<1>8. x.exp \in Ids \cup {None, Unset}
  BY DEF Snapshot
<1>9. Offers' = Append(Offers, x.exp)
  <2>1. Offers' = [s \in 1 .. n |-> IF s = n THEN x.exp ELSE Offers[s]]
    BY <1>5, <1>6 DEF Offers
  <2>2. Append(Offers, x.exp) = [s \in 1 .. n |-> IF s = n THEN x.exp ELSE Offers[s]]
    BY <1>3, <1>7, <1>8, AppendAsFunction
  <2> QED
    BY <2>1, <2>2
<1>10. Fate' = Append(Fate, "open")
  <2>1. \A s \in Known : FateOf(s)' = FateOf(s)
    BY <1>2 DEF FateOf
  <2>2. FateOf(n)' = "open"
    BY <1>2, <1>4, <1>5 DEF FateOf
  <2>3. Fate' = [s \in 1 .. n |-> IF s = n THEN "open" ELSE Fate[s]]
    BY <1>5, <1>6, <2>1, <2>2 DEF Fate
  <2>4. PICK o \in Fates : o = "open"
    BY DEF Fates
  <2>5. Append(Fate, o) = [s \in 1 .. n |-> IF s = n THEN o ELSE Fate[s]]
    BY <1>3, <1>7, AppendAsFunction
  <2> QED
    BY <2>3, <2>4, <2>5
<1>11. Len(Offers) < MaxSnapshots
  BY <1>2, <1>6, <1>7, MaxSnapshotsAssumption
<1> QED
  BY <1>2, <1>8, <1>9, <1>10, <1>11

LEMMA RegisterStep ==
    ASSUME IInv, [Next]_vars
    PROVE  [Register!Next]_(Register!vars)
<1>1. /\ TypeInv /\ DOMAIN Offers = Known /\ DOMAIN Fate = Known
      /\ committed \subseteq Known /\ withdrawn \subseteq Known
      /\ \A s \in Known : Offers[s] = snapshots[s].exp /\ Fate[s] = FateOf(s)
  BY RegisterTypes DEF IInv, TypeInv, Offers, Fate
<1>2. CASE RemoteStays
  <2>1. UNCHANGED Register!vars
    BY <1>2 DEF RemoteStays, Register!vars
  <2> QED
    BY <2>1
<1>3. CASE Adds
  <2>1. PICK e \in Ids \cup {None, Unset} :
           /\ Len(Offers) < MaxSnapshots
           /\ Offers' = Append(Offers, e) /\ Fate' = Append(Fate, "open")
           /\ remote' = remote
    BY <1>3, AddsOffers
  <2>2. Register!Offer(e)
    BY <2>1 DEF Register!Offer, Offers, Fate, FateOf, Known
  <2> QED
    BY <2>2 DEF Register!Next, Ids
<1>4. CASE Withdraws
  <2>1. PICK c \in Known \ (committed \cup withdrawn) :
           withdrawn' = withdrawn \cup {c}
    BY <1>4 DEF Withdraws
  <2>2. UNCHANGED <<snapshots, remote, committed>>
    BY <1>4 DEF Withdraws
  <2>3. UNCHANGED <<remote, Offers>> /\ Known' = Known
    BY <2>2 DEF Offers, Known
  <2>4. Fate[c] = "open" /\ Fate' = [Fate EXCEPT ![c] = "withdrawn"]
    BY <1>1, <2>1, <2>2, <2>3 DEF Fate, FateOf
  <2>5. Register!Withdraw(c)
    BY <2>3, <2>4 DEF Register!Withdraw, Offers, Fate, FateOf, Known
  <2> QED
    BY <1>1, <2>5 DEF Register!Next, Offers, Known
<1>5. CASE Accepts
  <2>1. PICK c \in Known \ withdrawn : /\ snapshots[c].exp = remote
                                       /\ remote' = c
                                       /\ committed' = committed \cup {c}
    BY <1>5 DEF Accepts
  <2>2. UNCHANGED <<snapshots, withdrawn>>
    BY <1>5 DEF Accepts
  <2>3. UNCHANGED Offers /\ Known' = Known
    BY <2>2 DEF Offers, Known
  <2>4. Fate[c] # "withdrawn" /\ Fate' = [Fate EXCEPT ![c] = "accepted"]
    BY <1>1, <2>1, <2>2, <2>3 DEF Fate, FateOf
  <2>5. Register!Accept(c)
    BY <1>1, <2>1, <2>3, <2>4 DEF Register!Accept, Offers, Fate, FateOf, Known
  <2> QED
    BY <1>1, <2>5 DEF Register!Next, Offers, Known
<1>6. CASE Removes
  <2>1. remote' = None /\ UNCHANGED <<snapshots, committed, withdrawn>>
    BY <1>6 DEF Removes
  <2>2. CASE remote = None
    <3>1. UNCHANGED Register!vars
      BY <2>1, <2>2 DEF Register!vars
    <3> QED
      BY <3>1
  <2>3. CASE remote # None
    <3>1. Register!Remove
      BY <2>1, <2>3 DEF Register!Remove
    <3> QED
      BY <3>1 DEF Register!Next
  <2> QED
    BY <2>2, <2>3
<1> QED
  BY <1>2, <1>3, <1>4, <1>5, <1>6, StepEffects

\* Every run is a run of the register: a snapshot that was taken back is never in the
\* remote object later, an accepted one is never taken back, and the object changes
\* only from the state the new snapshot expected.
THEOREM RemoteObjectIsRegister == Spec => ImplementsRegister
<1>1. Init => Register!Init
  BY RegisterInit
<1>2. IInv /\ [Next]_vars => [Register!Next]_(Register!vars)
  BY RegisterStep
<1> QED
  BY <1>1, <1>2, Invariance, PTL DEF Spec, ImplementsRegister, Register!Spec
=============================================================================
