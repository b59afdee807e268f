---------------------------- MODULE SnapshotSync ----------------------------
(***************************************************************************)
(* Synchronization of one vault between devices through one remote object  *)
(* (services/sync/vault-sync-guard.service.ts, the use cases under         *)
(* use-cases/sync, services/vault/vault-mutation.service.ts and the S3     *)
(* adapter).  A device keeps its snapshot and its encrypted sync           *)
(* credential record, which also carries the marker of an upload whose     *)
(* outcome is not known; both are written by one compare-and-set.  The     *)
(* pages of a device run operations at the same time.  An operation may    *)
(* stop between any two steps, the session may be locked and reopened      *)
(* between any two steps, and an answer of the storage may be lost, before *)
(* or after the write took effect, or come from the second try of the SDK. *)
(*                                                                         *)
(* A step is one section under the Web Lock, one transaction of the local  *)
(* store or one request.  What an operation reads of its session, of the   *)
(* snapshot and of the credential record before its first remote request   *)
(* is one step: the compare-and-set of its first write checks it again.    *)
(* An unlock is two steps: nothing checks again what it has read, and only *)
(* the shared epoch tells whether it may still open a session.             *)
(* Left out: what the vault contains, cryptography, the device-trust       *)
(* flows, and the parts of a session's activation (module VaultSession).   *)
(***************************************************************************)
EXTENDS VersionVectors, Sequences, FiniteSets

CONSTANTS
    Tasks,          \* pages that can run one operation each
    Owner,          \* the device of each page
    Operations,     \* the operations this instance runs
    Enrolled,       \* does the vault start synchronized on all devices?
    MaxSnapshots    \* bound: snapshots ever made

None  == 0          \* no snapshot, no remote object
Unset == -1         \* a snapshot that was not prepared for an upload

AllOperations == {"mutate", "upload", "resolve", "setup", "disable",
                  "credentials"}

ASSUME TasksAssumption == IsFiniteSet(Tasks) /\ "nobody" \notin Tasks
ASSUME OwnerAssumption == Owner \in [Tasks -> Devices]
ASSUME OperationsAssumption == Operations \subseteq AllOperations
ASSUME EnrolledAssumption == Enrolled \in BOOLEAN
ASSUME MaxSnapshotsAssumption == MaxSnapshots \in Nat \ {0}

VARIABLES
    snapshots,  \* every snapshot ever signed; its index stands for its digest
    local,      \* device -> the snapshot in its local store
    cred,       \* device -> its encrypted credential record
    session,    \* device -> the snapshot its session is at, or None: locked
    opening,    \* page -> the snapshot its unlock has read, or None
    task,       \* page -> the operation it runs
    remote,     \* the snapshot in the remote object, or None
    wire,       \* requests that were started
    committed,  \* history: snapshots the remote object has held
    withdrawn   \* history: snapshots rolled back out of a local store

vars == <<snapshots, local, cred, session, opening, task, remote, wire,
          committed, withdrawn>>

-----------------------------------------------------------------------------
(* Records.                                                                *)

Ids == 1 .. MaxSnapshots

\* exp is the signed uploadExpectedRemoteSnapshotIdentity; rollback # None is
\* a pending sync removal, which also records the remote it removes.
NotRemoving == [target |-> None, rollback |-> None]

Snapshot == [vv : [Devices -> Nat],
             exp : Ids \cup {None, Unset},
             synced : BOOLEAN,
             removal : [target : Ids \cup {None}, rollback : Ids \cup {None}],
             trusted : SUBSET Devices]

\* An encrypted record: tok stands for its ciphertext and nonce, cand and exp
\* for the pending upload inside it.
Artifact == [tok : Nat, cand : Ids \cup {None}, exp : Ids \cup {None}]
NoRecord == [tok |-> 0, cand |-> None, exp |-> None]

Phases == {"idle", "opened", "checked", "persisted", "staging", "restaging",
           "staged", "sent", "landed", "failed", "matched", "committing",
           "removing", "deleting", "removed", "conflicted"}

Task == [pc : Phases, op : Operations \cup {"none"}, live : BOOLEAN,
         base : Ids \cup {None}, cand : Ids \cup {None},
         exp : Ids \cup {None, Unset}, mine : Artifact, clear : Artifact,
         back : Artifact]

Idle == [pc |-> "idle", op |-> "none", live |-> FALSE, base |-> None,
         cand |-> None, exp |-> None, mine |-> NoRecord, clear |-> NoRecord,
         back |-> NoRecord]

\* A request outlives its page: from is then "nobody".
Request == [from : Tasks \cup {"nobody"}, kind : {"put", "delete"},
            cand : Ids \cup {None}, match : Ids \cup {None},
            st : {"sent", "landed", "refused"}, tries : 1 .. 2]

HasMarker(a) == a.cand # None
Removing(s)  == snapshots[s].removal.rollback # None

\* A removal mark has the content of the snapshot it was put on.
Content(s) == IF Removing(s) THEN snapshots[s].removal.rollback ELSE s

\* compareVaultSnapshotDescriptors: how snapshot s relates to snapshot r.
Relation(s, r) == CompareVersionVectors(snapshots[s].vv, snapshots[r].vv)

\* The session an operation began in is still open.  Ids are not kept: the end
\* of a session marks the operations of its device for good.
InSession(t) == task[t].live
Outlived(tasks, d) ==
    [t \in Tasks |-> [tasks[t] EXCEPT !.live = @ /\ Owner[t] # d]]

\* The epoch of the sessions moves on: no unlock under way may open one.
AdvancesEpoch(d) ==
    opening' = [t \in Tasks |-> IF Owner[t] = d THEN None ELSE opening[t]]

\* Fresh encryption differs from every artifact anyone still holds.
TokensOf(d) == {cred[d].tok} \cup
    UNION {{task[t].mine.tok, task[t].clear.tok, task[t].back.tok} :
           t \in {u \in Tasks : Owner[u] = d}}
NewNumber(used) == CHOOSE n \in 1 .. Cardinality(used) + 1 : n \notin used
Token(d) == NewNumber(TokensOf(d))
NextToken(d) == NewNumber(TokensOf(d) \cup {Token(d)})

Unmarked(tok) == [tok |-> tok, cand |-> None, exp |-> None]

\* The compare-and-set of the local store: the exact snapshot and record.
StoreHolds(d, s, a) == local[d] = s /\ cred[d] = a

Goes(t, pc) == task' = [task EXCEPT ![t].pc = pc]
Ends(t) == task' = [task EXCEPT ![t] = Idle]
\* The operation goes on to bring the session to the snapshot it stored.
\* What it held for an upload it does not need any more.
Commits(t, s) ==
    LET held == IF task[t].op = "disable" THEN task[t] ELSE Idle
    IN  task' = [task EXCEPT ![t] =
                   [Idle EXCEPT !.pc = "committing", !.op = task[t].op,
                                !.live = task[t].live, !.cand = s,
                                !.exp = held.exp, !.mine = held.mine]]
Store(d, s, a) == /\ local' = [local EXCEPT ![d] = s]
                  /\ cred' = [cred EXCEPT ![d] = a]

-----------------------------------------------------------------------------
(* Initial states: a vault synchronized on all devices, or a vault that    *)
(* never left the device that made it.                                     *)

Init ==
    /\ snapshots = <<[vv |-> [d \in Devices |-> 1], exp |-> Unset,
                      synced |-> Enrolled, removal |-> NotRemoving,
                      trusted |-> Devices]>>
    /\ local = [d \in Devices |-> 1]
    /\ cred = [d \in Devices |-> IF Enrolled THEN Unmarked(1) ELSE NoRecord]
    /\ session = [d \in Devices |-> None]
    /\ opening = [t \in Tasks |-> None]
    /\ task = [t \in Tasks |-> Idle]
    /\ remote = IF Enrolled THEN 1 ELSE None
    /\ wire = {}
    /\ committed = IF Enrolled THEN {1} ELSE {}
    /\ withdrawn = {}

-----------------------------------------------------------------------------
(* The session of a device.                                                *)

\* An unlock reads the epoch and then the local snapshot.  Deriving the keys
\* takes long, and is done without the lock.
BeginUnlock(t) ==
    /\ task[t].pc = "idle" /\ opening[t] = None
    /\ opening' = [opening EXCEPT ![t] = local[Owner[t]]]
    /\ UNCHANGED <<snapshots, local, cred, session, task, remote, wire,
                   committed, withdrawn>>

\* It opens a session at what it read unless the epoch moved since then; an
\* open session of the vault is replaced.
FinishUnlock(t) ==
    LET d == Owner[t]
    IN  /\ opening[t] # None
        /\ session' = [session EXCEPT ![d] = opening[t]]
        /\ task' = Outlived(task, d)
        /\ AdvancesEpoch(d)
        /\ UNCHANGED <<snapshots, local, cred, remote, wire, committed,
                       withdrawn>>

\* A wrong password, or the page is closed.
AbandonUnlock(t) ==
    /\ opening[t] # None
    /\ opening' = [opening EXCEPT ![t] = None]
    /\ UNCHANGED <<snapshots, local, cred, session, task, remote, wire,
                   committed, withdrawn>>

Lock(d) ==
    /\ session' = [session EXCEPT ![d] = None]
    /\ task' = Outlived(task, d)
    /\ AdvancesEpoch(d)
    /\ UNCHANGED <<snapshots, local, cred, remote, wire, committed, withdrawn>>

-----------------------------------------------------------------------------
(* The start of an operation: its session, the local snapshot, which must  *)
(* be the session's, and the credential record.                            *)

Admits(op, s, a) ==
    \/ /\ op = "mutate"
       /\ snapshots[s].synced => ~Removing(s) /\ ~HasMarker(a)
    \/ /\ op = "upload"
       /\ snapshots[s].synced /\ ~Removing(s) /\ snapshots[s].exp # Unset
       /\ HasMarker(a) => a.cand = s /\ a.exp = snapshots[s].exp
    \/ op = "resolve" /\ snapshots[s].synced /\ ~Removing(s)
    \/ op = "setup" /\ ~snapshots[s].synced
    \/ op = "disable" /\ snapshots[s].synced /\ ~HasMarker(a)
    \/ op = "credentials" /\ snapshots[s].synced

Begin(t, op) ==
    LET d == Owner[t]
        s == local[d]
    IN  /\ task[t].pc = "idle" /\ opening[t] = None
        /\ session[d] = s
        /\ Admits(op, s, cred[d])
        /\ task' = [task EXCEPT ![t] =
              [Idle EXCEPT !.pc = IF op = "mutate" /\ ~snapshots[s].synced
                                  THEN "checked" ELSE "opened",
                           !.op = op, !.live = TRUE, !.base = s,
                           !.exp = snapshots[s].exp, !.mine = cred[d]]]
        /\ UNCHANGED <<snapshots, local, cred, session, opening, remote, wire,
                       committed, withdrawn>>

\* What the operation requires of the remote object it downloads, and where
\* it goes on.  A remote that changes between the descriptor and the download
\* is an error like any other remote that does not fit.
Proceed(t, pc, exp) ==
    task' = [task EXCEPT ![t].pc = pc, ![t].exp = exp,
                         ![t].cand = IF pc \in {"checked", "opened"}
                                     THEN None ELSE task[t].base]

\* The remote may be reviewed or adopted: newer, of the same trust, in use.
MayFollowAny(s, r) == r # None /\ ~Removing(r)         \* seeded fault
MayFollow(s, r) ==
    /\ r # None
    /\ Relation(s, r) = "remote_ahead"
    /\ snapshots[r].trusted = snapshots[s].trusted
    /\ snapshots[r].synced /\ ~Removing(r)

Looks(t, op) == task[t].pc = "opened" /\ task[t].op = op

OnlyLooked == UNCHANGED <<snapshots, local, cred, session, opening, remote,
                          wire, committed, withdrawn>>

\* A change needs the remote object to be the local snapshot.
CheckForMutation(t) ==
    /\ Looks(t, "mutate")
    /\ remote = task[t].base
    /\ Proceed(t, "checked", remote)
    /\ OnlyLooked

CheckForResolution(t) ==
    /\ Looks(t, "resolve")
    /\ MayFollow(task[t].base, remote)
    /\ Proceed(t, "checked", remote)
    /\ OnlyLooked

CheckForSetup(t) ==
    /\ Looks(t, "setup")
    /\ remote = None
    /\ Proceed(t, "checked", None)
    /\ OnlyLooked

\* A removal that was interrupted goes on with the object it recorded.
CheckForRemoval(t) ==
    LET s == task[t].base
    IN  /\ Looks(t, "disable")
        /\ \/ /\ ~Removing(s) /\ remote = s
              /\ Proceed(t, "checked", s)
           \/ /\ Removing(s)
              /\ Proceed(t, "removing", snapshots[s].removal.target)
        /\ OnlyLooked

\* New credentials are tried out, whatever the object is.
CheckForCredentials(t) ==
    /\ Looks(t, "credentials")
    /\ Proceed(t, "checked", task[t].exp)
    /\ OnlyLooked

\* The remote object is the local snapshot already, or what that snapshot is
\* signed to replace: then a pending upload is retried, or a first one made.
CheckForUpload(t) ==
    LET s == task[t].base
        exp == task[t].exp
    IN  /\ Looks(t, "upload")
        /\ \/ remote = s /\ Proceed(t, "matched", exp)
           \/ /\ remote # s /\ remote = exp
              /\ HasMarker(task[t].mine)
              /\ Proceed(t, "restaging", exp)
           \/ /\ remote # s /\ remote = exp
              /\ ~HasMarker(task[t].mine)
              /\ exp # None => Relation(s, exp) = "local_ahead"
              /\ Proceed(t, "staging", exp)
        /\ OnlyLooked

-----------------------------------------------------------------------------
(* Storing a new snapshot.  Its expectation of the remote is signed into   *)
(* it; a snapshot that is not prepared for an upload keeps the old one.    *)

Successor(t) ==
    LET d == Owner[t]
        s == task[t].base
        b == snapshots[s]
        exp == task[t].exp
        next == [b EXCEPT !.vv = IncrementVersionVector(b.vv, d)]
    IN  CASE task[t].op = "mutate" -> [next EXCEPT !.exp = exp]
          [] task[t].op = "setup" -> [next EXCEPT !.exp = None, !.synced = TRUE]
          [] task[t].op = "resolve" ->
               [next EXCEPT !.exp = exp,
                            !.vv = IncrementVersionVector(
                                 MergeVersionVectors(b.vv, snapshots[exp].vv), d)]
          [] task[t].op = "disable" ->
               [next EXCEPT !.removal = [target |-> exp, rollback |-> s]]

\* What the first write of the operation expects to find, beyond the snapshot.
RecordFits(t) ==
    LET found == cred[Owner[t]]
    IN  CASE task[t].op = "disable" -> found = task[t].mine
          [] task[t].op = "mutate" ->
               snapshots[task[t].base].synced => found = task[t].mine
          [] task[t].op = "setup" -> found = NoRecord
          [] task[t].op = "resolve" -> found # NoRecord
          [] task[t].op = "credentials" -> found # NoRecord

\* Setting up and resolving replace the record, the latter without its marker.
RecordAfter(t) ==
    LET d == Owner[t]
    IN  CASE task[t].op \in {"mutate", "disable"} -> cred[d]
          [] task[t].op \in {"setup", "resolve"} -> Unmarked(Token(d))
          [] task[t].op = "credentials" -> [cred[d] EXCEPT !.tok = Token(d)]

MayStore(t) == /\ task[t].pc = "checked"
               /\ InSession(t)
               /\ local[Owner[t]] = task[t].base
               /\ RecordFits(t)

\* A synchronized change, a resolution and a setup go on to upload; the
\* others only bring the session to what they stored.
Persist(t) ==
    LET d == Owner[t]
        new == Len(snapshots) + 1
    IN  /\ MayStore(t)
        /\ task[t].op \in {"mutate", "resolve", "setup", "disable"}
        /\ new <= MaxSnapshots
        /\ snapshots' = Append(snapshots, Successor(t))
        /\ Store(d, new, RecordAfter(t))
        /\ IF task[t].op # "disable" /\ Successor(t).synced
           THEN task' = [task EXCEPT ![t].pc = "persisted", ![t].cand = new,
                                     ![t].mine = RecordAfter(t),
                                     ![t].back = cred[d]]
           ELSE Commits(t, new)
        /\ AdvancesEpoch(Owner[t])
        /\ UNCHANGED <<session, remote, wire, committed, withdrawn>>

\* The remote snapshot is adopted as it is; a marker is dropped with the
\* snapshot it described.
Adopt(t) ==
    /\ MayStore(t)
    /\ task[t].op = "resolve"
    /\ Store(Owner[t], task[t].exp, RecordAfter(t))
    /\ Commits(t, task[t].exp)
    /\ AdvancesEpoch(Owner[t])
    /\ UNCHANGED <<snapshots, session, remote, wire, committed, withdrawn>>

ReplaceCredentials(t) ==
    /\ MayStore(t)
    /\ task[t].op = "credentials"
    /\ Store(Owner[t], task[t].base, RecordAfter(t))
    /\ Ends(t)
    /\ AdvancesEpoch(Owner[t])
    /\ UNCHANGED <<snapshots, session, remote, wire, committed, withdrawn>>

-----------------------------------------------------------------------------
(* A tracked upload: mark, send, take the answer, clear the mark.          *)

Marks(t, a) == a.cand = task[t].cand /\ a.exp = task[t].exp

Marked(t, tok) == [tok |-> tok, cand |-> task[t].cand, exp |-> task[t].exp]

\* The upload is reported as pending: the snapshot and its marker stay.
StaysPending(t) == IF task[t].op = "upload" THEN Ends(t)
                   ELSE Commits(t, task[t].cand)

\* The marker is stored; what would clear it is encrypted at the same time.
Stage(t) ==
    LET d == Owner[t]
        a == Marked(t, Token(d))
    IN  /\ task[t].pc \in {"persisted", "staging"}
        /\ InSession(t)
        /\ local[d] = task[t].cand
        /\ cred[d] # NoRecord
        /\ \/ /\ ~HasMarker(cred[d])
              /\ Store(d, local[d], a)
              /\ task' = [task EXCEPT ![t].pc = "staged", ![t].mine = a,
                             ![t].clear = Unmarked(NextToken(d)),
                             ![t].back = IF task[t].op = "upload"
                                         THEN Unmarked(NextToken(d)) ELSE @]
           \/ /\ HasMarker(cred[d]) /\ Marks(t, cred[d])
              /\ StaysPending(t)
              /\ UNCHANGED <<local, cred>>
        /\ UNCHANGED <<snapshots, session, opening, remote, wire, committed,
                       withdrawn>>

\* A retry first encrypts the marker again: the record is then its own.
Restage(t) ==
    LET d == Owner[t]
        a == Marked(t, Token(d))
    IN  /\ task[t].pc = "restaging"
        /\ InSession(t)
        /\ local[d] = task[t].cand
        /\ Marks(t, cred[d])
        /\ Store(d, local[d], a)
        /\ task' = [task EXCEPT ![t].pc = "staged", ![t].mine = a,
                                ![t].clear = Unmarked(NextToken(d)),
                                ![t].back = cred[d]]
        /\ UNCHANGED <<snapshots, session, opening, remote, wire, committed,
                       withdrawn>>

\* Marking fails, the storage cannot be read or holds another snapshot than
\* the expected one, or the session is gone: nothing was sent.
NotSent(t) ==
    /\ task[t].pc \in {"persisted", "staged"}
    /\ Goes(t, "failed")
    /\ UNCHANGED <<snapshots, local, cred, session, opening, remote, wire,
                   committed, withdrawn>>

\* The conditional write is started while the session is the operation's own.
\* Its condition is the object just read, or that there is none.
Send(t) ==
    /\ task[t].pc = "staged"
    /\ InSession(t)
    /\ task[t].exp # None => remote = task[t].exp
    /\ wire' = wire \cup {[from |-> t, kind |-> "put", cand |-> task[t].cand,
                           match |-> task[t].exp, st |-> "sent", tries |-> 1]}
    /\ Goes(t, "sent")
    /\ UNCHANGED <<snapshots, local, cred, session, opening, remote, committed,
                   withdrawn>>

\* What is left of a request nobody waits for: it may still arrive.
Forgotten(w) == IF w.st = "sent"
                THEN {[w EXCEPT !.from = "nobody", !.tries = 1]} ELSE {}
Forget(w) == (wire \ {w}) \cup Forgotten(w)
Done(w) == wire \ {w}

\* The storage performs the request if its condition holds: If-Match with the
\* object that was read, or If-None-Match when there was none.
ConditionIgnored(w) == TRUE                             \* seeded fault
ConditionHolds(w) == remote = w.match

Perform(w) ==
    /\ w.st = "sent" /\ ConditionHolds(w)
    /\ remote' = IF w.kind = "put" THEN w.cand ELSE None
    /\ committed' = IF w.kind = "put" THEN committed \cup {w.cand}
                    ELSE committed
    /\ wire' = IF w.from = "nobody" THEN Done(w)
               ELSE Done(w) \cup {[w EXCEPT !.st = "landed"]}
    /\ UNCHANGED <<snapshots, local, cred, session, opening, task, withdrawn>>

\* A removal finds another object than the recorded one, or none: deleting an
\* object that is not there succeeds.
AnswerRemoval(w) ==
    /\ w.st = "sent" /\ w.kind = "delete" /\ w.from # "nobody"
    /\ remote # w.match
    /\ wire' = Done(w) \cup
         {[w EXCEPT !.st = IF remote = None THEN "landed" ELSE "refused"]}
    /\ UNCHANGED <<snapshots, local, cred, session, opening, task, remote,
                   committed, withdrawn>>

\* The SDK sends the request again when it gets no answer.
SendAgain(w) ==
    /\ w.from # "nobody" /\ w.tries = 1
    /\ wire' = Forget(w) \cup {[w EXCEPT !.st = "sent", !.tries = 2]}
    /\ UNCHANGED <<snapshots, local, cred, session, opening, task, remote,
                   committed, withdrawn>>

\* A refusal proves that nothing was written only when it answers the first
\* try: an earlier try may have been performed and its answer lost.
IsDefiniteAnyway(w) == TRUE                             \* seeded fault
IsDefinite(w) == w.tries = 1

\* The answer of the storage.  It may refuse a request, because of its condition
\* or for another reason, and its answer may be lost or make no sense: the
\* outcome is then unknown.
Answer(t, w) ==
    /\ task[t].pc = "sent" /\ w.from = t
    /\ \/ /\ w.st = "landed"
          /\ Goes(t, "landed")
          /\ wire' = Done(w)
       \/ /\ w.st = "sent"
          /\ IF IsDefinite(w) THEN Goes(t, "failed") ELSE StaysPending(t)
          /\ wire' = Done(w)
       \/ /\ StaysPending(t)
          /\ wire' = Forget(w)
    /\ UNCHANGED <<snapshots, local, cred, session, opening, remote, committed,
                   withdrawn>>

\* The marker is cleared if the record is still the one the upload stored.
\* If not, or if the session is gone, the upload is reported as pending.
Clear(t) ==
    LET d == Owner[t]
    IN  /\ task[t].pc = "landed"
        /\ IF InSession(t) /\ StoreHolds(d, task[t].cand, task[t].mine)
           THEN Store(d, local[d], task[t].clear)
           ELSE UNCHANGED <<local, cred>>
        /\ StaysPending(t)
        /\ UNCHANGED <<snapshots, session, opening, remote, wire, committed,
                       withdrawn>>

\* The remote object is the local snapshot already: the marker is cleared.
ClearMatched(t) ==
    LET d == Owner[t]
    IN  /\ task[t].pc = "matched"
        /\ IF InSession(t) /\ local[d] = task[t].cand /\ Marks(t, cred[d])
           THEN Store(d, local[d], Unmarked(Token(d)))
           ELSE UNCHANGED <<local, cred>>
        /\ Ends(t)
        /\ UNCHANGED <<snapshots, session, opening, remote, wire, committed,
                       withdrawn>>

-----------------------------------------------------------------------------
(* A definite failure takes back what the operation stored.                *)

\* The session the rollback would change under is another one, or has moved.
SessionClosed(t) == session[Owner[t]] = None            \* seeded fault
SessionAdvanced(t) ==
    LET open == session[Owner[t]]
    IN  open # None /\ (~InSession(t) \/ open # task[t].base)

\* What the record was before the operation stored its snapshot.
RecordNow(t) == cred[Owner[t]]                          \* seeded fault
RecordBefore(t) == task[t].back

\* A rollback that cannot be done ends the session it belongs to.
Rollback(t) ==
    LET d == Owner[t]
        intact == StoreHolds(d, task[t].cand, task[t].mine)
    IN  /\ task[t].pc = "failed" /\ task[t].op # "upload"
        /\ IF ~SessionAdvanced(t) /\ intact
           THEN /\ Store(d, task[t].base, RecordBefore(t))
                /\ withdrawn' = withdrawn \cup {task[t].cand}
           ELSE UNCHANGED <<local, cred, withdrawn>>
        /\ IF SessionAdvanced(t) \/ intact
           THEN Ends(t) /\ UNCHANGED session
           ELSE /\ session' = [session EXCEPT ![d] = None]
                /\ task' = Outlived([task EXCEPT ![t] = Idle], d)
        /\ IF session[d] = None \/ ~(SessionAdvanced(t) \/ intact)
           THEN AdvancesEpoch(d) ELSE UNCHANGED opening
        /\ UNCHANGED <<snapshots, remote, wire, committed>>

\* An upload of an older snapshot takes back only its marker: a first try
\* clears it, a retry puts back the record it had replaced.
Unmark(t) ==
    LET d == Owner[t]
    IN  /\ task[t].pc = "failed" /\ task[t].op = "upload"
        /\ IF InSession(t) /\ StoreHolds(d, task[t].cand, task[t].mine)
           THEN Store(d, local[d], task[t].back)
           ELSE UNCHANGED <<local, cred>>
        /\ Ends(t)
        /\ UNCHANGED <<snapshots, session, opening, remote, wire, committed,
                       withdrawn>>

\* The session moves to the stored snapshot if it is still the operation's.
Commit(t) ==
    LET d == Owner[t]
    IN  /\ task[t].pc = "committing"
        /\ IF InSession(t)
           THEN /\ session' = [session EXCEPT ![d] = task[t].cand]
                /\ AdvancesEpoch(d)
                /\ IF task[t].op = "disable" /\ Removing(task[t].cand)
                   THEN Goes(t, "removing") ELSE Ends(t)
           ELSE Ends(t) /\ UNCHANGED <<session, opening>>
        /\ UNCHANGED <<snapshots, local, cred, remote, wire, committed,
                       withdrawn>>

-----------------------------------------------------------------------------
(* Disabling sync: the pending removal is stored, the remote object is     *)
(* deleted if it is still the recorded one, and the vault becomes local.   *)

PrepareRemoval(t) ==
    /\ task[t].pc = "removing"
    /\ \/ /\ remote = None
          /\ Goes(t, "removed") /\ UNCHANGED wire
       \/ /\ remote \notin {None, task[t].exp}
          /\ Goes(t, "conflicted") /\ UNCHANGED wire
       \/ /\ remote = task[t].exp /\ InSession(t)
          /\ Goes(t, "deleting")
          /\ wire' = wire \cup {[from |-> t, kind |-> "delete", cand |-> None,
                                 match |-> task[t].exp, st |-> "sent",
                                 tries |-> 1]}
    /\ UNCHANGED <<snapshots, local, cred, session, opening, remote, committed,
                   withdrawn>>

RemovalAnswer(t, w) ==
    /\ task[t].pc = "deleting" /\ w.from = t
    /\ w.st # "sent"
    /\ Goes(t, IF w.st = "landed" THEN "removed" ELSE "conflicted")
    /\ wire' = Done(w)
    /\ UNCHANGED <<snapshots, local, cred, session, opening, remote, committed,
                   withdrawn>>

\* The remote object is not the recorded one: the snapshot from before the
\* removal is restored, with the record as it is now.
UndoRemoval(t) ==
    LET d == Owner[t]
        s == snapshots[task[t].cand].removal.rollback
    IN  /\ task[t].pc = "conflicted"
        /\ InSession(t)
        /\ local[d] = task[t].cand
        /\ Store(d, s, cred[d])
        /\ Commits(t, s)
        /\ AdvancesEpoch(Owner[t])
        /\ UNCHANGED <<snapshots, session, remote, wire, committed, withdrawn>>

\* The vault becomes local, and this device the only one it trusts.
FinishRemoval(t) ==
    LET d == Owner[t]
        b == snapshots[task[t].cand]
        new == Len(snapshots) + 1
    IN  /\ task[t].pc = "removed"
        /\ InSession(t)
        /\ StoreHolds(d, task[t].cand, task[t].mine)
        /\ new <= MaxSnapshots
        /\ snapshots' = Append(snapshots,
              [b EXCEPT !.vv = IncrementVersionVector(b.vv, d),
                        !.synced = FALSE, !.removal = NotRemoving,
                        !.trusted = {d}])
        /\ Store(d, new, NoRecord)
        /\ Commits(t, new)
        /\ AdvancesEpoch(Owner[t])
        /\ UNCHANGED <<session, remote, wire, committed, withdrawn>>

-----------------------------------------------------------------------------
\* The operation ends with an error, or its page is closed, wherever it is.
\* What it sent may still arrive.
Stop(t) ==
    /\ task[t].pc # "idle"
    /\ Ends(t)
    /\ wire' = {w \in wire : w.from # t} \cup
               UNION {Forgotten(w) : w \in {v \in wire : v.from = t}}
    /\ UNCHANGED <<snapshots, local, cred, session, opening, remote, committed,
                   withdrawn>>

Step(t) ==
    \/ \E op \in Operations : Begin(t, op)
    \/ CheckForMutation(t)
    \/ CheckForResolution(t)
    \/ CheckForSetup(t)
    \/ CheckForRemoval(t)
    \/ CheckForCredentials(t)
    \/ CheckForUpload(t)
    \/ Persist(t)
    \/ Adopt(t)
    \/ ReplaceCredentials(t)
    \/ Stage(t)
    \/ Restage(t)
    \/ NotSent(t)
    \/ Send(t)
    \/ \E w \in wire : Answer(t, w)
    \/ Clear(t)
    \/ ClearMatched(t)
    \/ Rollback(t)
    \/ Unmark(t)
    \/ Commit(t)
    \/ PrepareRemoval(t)
    \/ \E w \in wire : RemovalAnswer(t, w)
    \/ UndoRemoval(t)
    \/ FinishRemoval(t)
    \/ Stop(t)

Network == \E w \in wire : Perform(w) \/ AnswerRemoval(w) \/ SendAgain(w)

Next == \/ \E d \in Devices : Lock(d)
        \/ \E t \in Tasks : \/ BeginUnlock(t) \/ FinishUnlock(t)
                            \/ AbandonUnlock(t) \/ Step(t)
        \/ Network

Spec == Init /\ [][Next]_vars

-----------------------------------------------------------------------------
TypeOK ==
    /\ snapshots \in Seq(Snapshot) /\ Len(snapshots) \in Ids
    /\ local \in [Devices -> DOMAIN snapshots]
    /\ cred \in [Devices -> Artifact]
    /\ session \in [Devices -> Ids \cup {None}]
    /\ opening \in [Tasks -> Ids \cup {None}]
    /\ task \in [Tasks -> Task]
    /\ remote \in Ids \cup {None}
    /\ wire \subseteq Request
    /\ committed \subseteq DOMAIN snapshots
    /\ withdrawn \subseteq DOMAIN snapshots

\* While a request can still change the remote object for the first time, its
\* snapshot is the local one of the device that sent it, marked as pending:
\* no rollback, resolution or stale clearing of another operation forgets an
\* upload whose outcome is open.
OpenUploadIsRemembered ==
    \A w \in wire :
        w.kind = "put" /\ w.st = "sent" /\ w.cand \notin committed
        /\ remote = w.match
        => \E d \in Devices : local[d] = w.cand /\ cred[d].cand = w.cand

\* A pending upload can always be tried again: its marker describes the local
\* snapshot and what that snapshot is signed to replace, and the vault is still
\* synchronized.  Otherwise neither a retry nor a change is ever possible.
PendingUploadCanBeRetried ==
    \A d \in Devices :
        HasMarker(cred[d]) => Admits("upload", local[d], cred[d])

\* Two snapshots that were ever remote or are local now have different version
\* vectors, so that "equal" can mean "the same": a vector that was used again
\* after a rollback belongs to one of them only.
SameVersionSameSnapshot ==
    LET live == committed \cup {local[d] : d \in Devices}
    IN  \A s, r \in live : Relation(s, r) = "equal" => s = r

\* The session has content that the store does not have.
AheadOfStore(d) ==
    /\ session[d] # None
    /\ Relation(Content(session[d]), Content(local[d]))
           \notin {"equal", "remote_ahead"}

\* No store, rollback, undone removal or late commit leaves a session ahead of
\* the store.  Only an unlock can open one there, that was overtaken: what it
\* read was rolled back before it finished; and no operation goes on in such a
\* session.
OnlyOvertakenUnlocksAreAhead ==
    [][\A d \in Devices : AheadOfStore(d)' =>
           /\ \/ AheadOfStore(d) /\ session'[d] = session[d]
              \/ /\ session'[d] \in withdrawn
                 /\ \E t \in Tasks : Owner[t] = d /\ opening[t] = session'[d]
           /\ \A t \in Tasks : Owner[t] = d => ~task'[t].live]_vars

\* The remote object only moves forward: no write, however late or repeated,
\* replaces a snapshot by an older one or by one made without knowing it.
RemoteMovesForward ==
    [][remote # None /\ remote' # None /\ remote' # remote
       => CompareVersionVectors(snapshots[remote].vv, snapshots'[remote'].vv)
          = "remote_ahead"]_vars

Register == INSTANCE SnapshotRegister WITH
    register <- remote,
    offers <- [s \in DOMAIN snapshots |-> snapshots[s].exp],
    fate <- [s \in DOMAIN snapshots |->
               IF s \in committed THEN "accepted"
               ELSE IF s \in withdrawn THEN "withdrawn" ELSE "open"]

\* Every run is a run of the register: a snapshot that was rolled back is never
\* found in the remote object, one that was accepted is never rolled back, and
\* the object changes only from what the snapshot expected.
ImplementsRegister == Register!Spec
=============================================================================
