---------------------------- MODULE VaultSession ----------------------------
(***************************************************************************)
(* The unlocked session of the extension: how it is activated, kept, read, *)
(* committed, rolled back and removed, by several extension contexts that  *)
(* share browser storage.                                                  *)
(*                                                                         *)
(* Shared: the session material (chrome.storage.session) and the encrypted *)
(* payload beside it (IndexedDB), the session epoch, the lock task and its *)
(* alarms, the local vault snapshots.  Per context: the cached material,   *)
(* the invalidation state and the local activation generation.             *)
(*                                                                         *)
(* Every session operation runs under one origin-wide Web Lock.  The       *)
(* variable op is the operation that holds it (None when it is free); each *)
(* storage call of the operation is an action of its own, so a call can    *)
(* fail and the context can die between any two of them.                   *)
(***************************************************************************)
EXTENDS Integers, FiniteSets

CONSTANTS
    Pages,          \* contexts the user works in: popup, options page, tabs
    Background,     \* the service worker, which runs the alarms
    Vaults,
    Synced,         \* the vaults with a sync target: only those can roll back
    Arriving,       \* the vaults that may come to this device while it runs
    None, Unread,   \* no value; a cache that was not read yet
    FaultySteps,    \* the kinds of storage calls that may fail
    Mortal,         \* the contexts that may die
    MaxFaults,      \* bound: failing calls
    MaxDeaths,      \* bound: deaths of a context and browser restarts
    MaxEpoch,       \* bound: no user action starts at this epoch
    MaxId,          \* bound: activations
    MaxVersion      \* bound: persisted snapshots

Contexts == Pages \cup {Background}
Ids      == 1 .. MaxId
Versions == 1 .. MaxVersion
Steps    == {"epoch", "task", "alarm", "payload", "material", "read",
             "records", "clipboard"}

(***************************************************************************)
(* What identifies a session: its id, its vault and the local snapshot its *)
(* content was taken from (a version stands for the vector and the digest).*)
(***************************************************************************)
Material == [sid : Ids, vault : Vaults, ver : Versions]
LockTask == [id : Ids, vault : Vaults]

ASSUME ConstantsAssumption ==
    /\ Background \notin Pages
    /\ Synced \subseteq Vaults /\ Arriving \subseteq Vaults
    /\ FaultySteps \subseteq Steps
    /\ Mortal \subseteq Contexts
    /\ {MaxFaults, MaxDeaths, MaxEpoch} \subseteq Nat
    /\ {MaxId, MaxVersion} \subseteq Nat \ {0}

\* None and Unread are outside every set they are added to.
ASSUME MarkersAssumption ==
    /\ None # Unread
    /\ {None, Unread} \cap (Material \cup LockTask \cup Ids \cup Versions \cup Vaults
                           \cup Steps) = {}

VARIABLES
    stored,     \* the session material in chrome.storage.session
    payload,    \* the encrypted payload record
    epoch,      \* the shared session epoch
    task,       \* the lock task record
    alarms,     \* lock actions that have an alarm armed
    snapshot,   \* snapshot[v]: the version of the local vault, None without one
    cache,      \* cache[c]: the adapter's cachedMaterial
    inval,      \* inval[c]: the invalidationState of the service
    captured,   \* contexts that hold a localGeneration that is still current
    client,     \* client[c]: the unlock, arrival or mutation under way
    handler,    \* handler[i]: the run of the alarm handler for lock action i
    op,         \* the session operation that holds the Web Lock
    nextId,     \* ids given out so far
    nextVersion,\* snapshots persisted so far
    faults, deaths,
    outdated,   \* auxiliary: contexts whose authority predates a transition
    opened      \* auxiliary: the newest session ever stored

shared == <<stored, payload, epoch, task, alarms, snapshot>>
local  == <<cache, inval, captured>>
vars   == <<stored, payload, epoch, task, alarms, snapshot, cache, inval,
            captured, client, handler, op, nextId, nextVersion, faults, deaths,
            outdated, opened>>

-----------------------------------------------------------------------------
Valid        == [kind |-> "none"]
Known(s)     == [kind |-> "known", sid |-> s]
Unknown(rem) == [kind |-> "unknown", removed |-> rem]

Invalidations == {Valid} \cup {Known(s) : s \in Ids} \cup {Unknown(b) : b \in BOOLEAN}

Idle == [pc |-> "idle"]
Clients ==
    {Idle}
    \cup [pc : {"authorized", "prepared"}, vault : Vaults, epoch : Nat]
    \cup [pc : {"ready"}, vault : Vaults, epoch : Nat, ver : Versions]
    \cup [pc : {"mutating", "enrolled"}, session : Material]
    \cup [pc : {"persisted"}, session : Material, ver : Versions]

Handlers == [pc : {"idle", "check", "arm", "lock", "locking", "cleaned", "failed"},
             armed : BOOLEAN]

(***************************************************************************)
(* An operation: what it installs, persists or restores (target), the      *)
(* session it found (known), the lock action it has to retire (action),    *)
(* and what went wrong so far.                                             *)
(***************************************************************************)
Cleanups == {"lock", "delete", "alarm"}
Kinds    == Cleanups \cup {"activate", "commit", "revoke", "persist", "rollback",
                         "discard"}
Pcs      == {"advance epoch", "save task", "arm alarm", "save payload",
             "save material", "save snapshot", "restore snapshot", "read tasks",
             "remove material", "remove payload", "remove vault",
             "remove task", "cancel alarm", "save vault", "discard vault"}

Operations ==
    [kind : Kinds, ctx : Contexts, pc : Pcs,
     target : Material \cup {None}, base : Versions \cup {None},
     known : Material \cup {None}, action : Ids \cup {None}, vault : Vaults \cup {None},
     had : BOOLEAN, removed : BOOLEAN, failed : BOOLEAN, taskFailed : BOOLEAN]

ASSUME OperationsAssumption == None \notin Operations

Operation(kind, c, pc) ==
    [kind |-> kind, ctx |-> c, pc |-> pc, target |-> None, base |-> None,
     known |-> None, action |-> None, vault |-> None,
     had |-> FALSE, removed |-> FALSE, failed |-> FALSE, taskFailed |-> FALSE]

TypeOK ==
    /\ stored \in Material \cup {None}
    /\ payload \in Material \cup {None}
    /\ epoch \in Nat
    /\ task \in LockTask \cup {None}
    /\ alarms \subseteq Ids
    /\ snapshot \in [Vaults -> Versions \cup {None}]
    /\ cache \in [Contexts -> Material \cup {None, Unread}]
    /\ inval \in [Contexts -> Invalidations]
    /\ captured \subseteq Contexts
    /\ client \in [Contexts -> Clients]
    /\ handler \in [Ids -> Handlers]
    /\ op \in Operations \cup {None}
    /\ nextId \in 0 .. MaxId
    /\ nextVersion \in Versions
    /\ faults \in Nat /\ deaths \in Nat
    /\ outdated \subseteq Contexts
    /\ opened \in 0 .. MaxId

Resting == [pc |-> "idle", armed |-> FALSE]

Init ==
    /\ stored = None /\ payload = None /\ epoch = 0
    /\ task = None /\ alarms = {}
    /\ snapshot \in [Vaults -> {1, None}]
    /\ \A v \in Vaults : snapshot[v] = None => v \in Arriving
    /\ cache = [c \in Contexts |-> Unread]
    /\ inval = [c \in Contexts |-> Valid]
    /\ captured = {}
    /\ client = [c \in Contexts |-> Idle]
    /\ handler = [i \in Ids |-> Resting]
    /\ op = None
    /\ nextId = 0 /\ nextVersion = 1
    /\ faults = 0 /\ deaths = 0
    /\ outdated = {} /\ opened = 0

\* The storage calls, among those a step makes, of which one fails now.
Failing(steps) ==
    {None} \cup (IF faults < MaxFaults THEN steps \cap FaultySteps ELSE {})
Count(failing) == faults' = IF failing = None THEN faults ELSE faults + 1

-----------------------------------------------------------------------------
(***************************************************************************)
(* reconcileActiveMaterial: what a context takes the session to be, given  *)
(* the identity that is stored, and what that does to its own state.       *)
(***************************************************************************)
Blocked(c) ==
    /\ inval[c] # Valid
    /\ \/ stored = None
       \/ inval[c].kind = "known" /\ stored.sid = inval[c].sid
       \/ inval[c].kind = "unknown" /\ ~inval[c].removed

\* evictCachedUnlockedVaultSessionMaterial(sid), sid = None for any session.
EvictMaterialOnly(held, sid) ==
    IF held \notin {None, Unread} /\ held.sid = sid THEN Unread ELSE held

Evict(held, sid) ==
    IF held = None \/ (held # Unread /\ held.sid = sid) THEN Unread ELSE held

Held(c) == IF inval[c] = Valid THEN cache[c]
           ELSE Evict(cache[c], IF inval[c].kind = "known" THEN inval[c].sid ELSE None)

ReadThrough(held) == IF held = Unread THEN stored ELSE held

Reconcile(c) ==
    LET material == ReadThrough(Held(c))
    IN  IF Blocked(c) THEN
            [material |-> None, cache |-> cache[c], inval |-> inval[c], moved |-> FALSE]
        ELSE IF material = None THEN
            [material |-> None, cache |-> Held(c), inval |-> Valid, moved |-> FALSE]
        ELSE IF material = stored THEN
            [material |-> material, cache |-> material, inval |-> Valid, moved |-> FALSE]
        ELSE
            [material |-> None, cache |-> Unread, inval |-> Valid, moved |-> TRUE]

\* moved: the context held another session than the one stored, and let it go.
\* activeSessionAdvanced: that other session was an older commit of this one.
Advanced(c) == /\ Reconcile(c).moved
               /\ stored # None
               /\ ReadThrough(Held(c)).sid = stored.sid
               /\ ReadThrough(Held(c)).vault = stored.vault

Reconciled(c) ==
    /\ cache' = [cache EXCEPT ![c] = Reconcile(c).cache]
    /\ inval' = [inval EXCEPT ![c] = Reconcile(c).inval]

Dropped(c) == IF Reconcile(c).moved THEN captured \ {c} ELSE captured

-----------------------------------------------------------------------------
(***************************************************************************)
(* Unlocking: requireVaultCanBeActivated, the reads and the derivation of  *)
(* the keys outside the lock, then the activation.                         *)
(***************************************************************************)
Authorize(c, v) ==
    /\ op = None /\ client[c] = Idle /\ epoch < MaxEpoch
    /\ Reconciled(c)
    /\ IF stored # None /\ stored.vault # v
       THEN captured' = Dropped(c) /\ UNCHANGED <<client, outdated>>
       ELSE /\ captured' = captured \cup {c}
            /\ client' = [client EXCEPT ![c] =
                             [pc |-> "authorized", vault |-> v, epoch |-> epoch]]
            /\ outdated' = outdated \ {c}
    /\ UNCHANGED <<shared, handler, op, nextId, nextVersion, faults, deaths, opened>>

\* Outside the lock: the snapshot that is local now is the one unlocked.
Loaded(c) == IF snapshot[client[c].vault] = None THEN Idle
             ELSE [pc |-> "ready", vault |-> client[c].vault,
                   epoch |-> client[c].epoch, ver |-> snapshot[client[c].vault]]

LoadVault(c) ==
    /\ client[c].pc = "authorized"
    /\ client' = [client EXCEPT ![c] = Loaded(c)]
    /\ UNCHANGED <<shared, local, handler, op, nextId, nextVersion, faults,
                   deaths, outdated, opened>>

\* activateWithinSessionOperation compares the local generation, then the epoch.
AuthorityByGeneration(c) == c \in captured

AuthorityIsCurrent(c) == c \in captured /\ client[c].epoch = epoch

\* Nothing the context holds contradicts what is stored.
ActivationIsAllowed(c) ==
    /\ ~Reconcile(c).moved
    /\ stored # None => stored.vault = client[c].vault
    /\ Reconcile(c).material = stored

\* What an activation installs: a session with a fresh id over the snapshot
\* that was unlocked, under a lock action of the same number.
Activation(c) ==
    [Operation("activate", c, "advance epoch") EXCEPT
        !.target = [sid |-> nextId + 1, vault |-> client[c].vault, ver |-> client[c].ver],
        !.known = Reconcile(c).material,
        !.action = nextId + 1]

BeginActivation(c) ==
    /\ op = None /\ client[c].pc = "ready" /\ nextId < MaxId
    /\ AuthorityIsCurrent(c) /\ ActivationIsAllowed(c)
    /\ Reconciled(c)
    /\ nextId' = nextId + 1
    /\ op' = Activation(c)
    /\ client' = [client EXCEPT ![c] = Idle]
    /\ captured' = captured \ {c}
    /\ UNCHANGED <<shared, handler, nextVersion, faults, deaths,
                   outdated, opened>>

\* The authority expired: before the reconciliation, or because of it.
RejectActivation(c) ==
    /\ op = None /\ client[c].pc \in {"ready", "prepared"}
    /\ ~AuthorityIsCurrent(c) \/ ~ActivationIsAllowed(c)
    /\ IF AuthorityIsCurrent(c) THEN Reconciled(c) ELSE UNCHANGED <<cache, inval>>
    /\ client' = [client EXCEPT ![c] = Idle]
    /\ captured' = captured \ {c} /\ outdated' = outdated \ {c}
    /\ UNCHANGED <<shared, handler, op, nextId, nextVersion, faults, deaths, opened>>

\* The password was wrong, the page was left, a validation failed; or the upload
\* of an enrollment is complete, or its outcome is not known.
Abandon(c) ==
    /\ client[c].pc \in {"authorized", "ready", "mutating", "prepared", "enrolled"}
    /\ client' = [client EXCEPT ![c] = Idle]
    /\ captured' = captured \ {c} /\ outdated' = outdated \ {c}
    /\ UNCHANGED <<shared, cache, inval, handler, op, nextId, nextVersion, faults,
                   deaths, opened>>

-----------------------------------------------------------------------------
(***************************************************************************)
(* A vault comes to this device: it is initialized, or this device enrolls *)
(* in it.  Its records are stored by the activation of its first session,  *)
(* and removed again if that activation fails.  An enrollment is uploaded  *)
(* afterwards: when the upload definitely failed, its session and its      *)
(* records are discarded, if they are still what the enrollment stored.    *)
(***************************************************************************)
\* That the vault is not here was checked before the authority was captured.
\* (A deleted vault may be enrolled again; one that is initialized has a new
\* id, which the model does not tell from the one it had.)
Prepare(c) ==
    /\ client[c].pc = "authorized" /\ client[c].vault \in Arriving
    /\ client' = [client EXCEPT ![c].pc = "prepared"]
    /\ UNCHANGED <<shared, local, handler, op, nextId, nextVersion, faults,
                   deaths, outdated, opened>>

\* An activation with a vault is one that stores it.
Arrival(c) ==
    [Operation("activate", c, "advance epoch") EXCEPT
        !.target = [sid |-> nextId + 1, vault |-> client[c].vault,
                    ver |-> nextVersion + 1],
        !.known = Reconcile(c).material,
        !.action = nextId + 1,
        !.vault = client[c].vault]

BeginArrival(c) ==
    /\ op = None /\ client[c].pc = "prepared"
    /\ nextId < MaxId /\ nextVersion < MaxVersion
    /\ AuthorityIsCurrent(c) /\ ActivationIsAllowed(c)
    /\ Reconciled(c)
    /\ nextId' = nextId + 1 /\ nextVersion' = nextVersion + 1
    /\ op' = Arrival(c)
    /\ client' = [client EXCEPT ![c] = Idle]
    /\ captured' = captured \ {c}
    /\ UNCHANGED <<shared, handler, faults, deaths, outdated, opened>>

\* discardIfSessionIsActive: the session is still the one that was activated,
\* at the same snapshot, and this context did nothing to it since.
StillEnrolled(c, session) ==
    /\ stored = session
    /\ c \in Dropped(c)
    /\ Reconcile(c).material = session

Discarding(c) ==
    [Operation("discard", c, "read tasks") EXCEPT
        !.target = client[c].session,
        !.known = Reconcile(c).material,
        !.vault = client[c].session.vault]

BeginDiscard(c) ==
    /\ op = None /\ client[c].pc = "enrolled"
    /\ \E failing \in Failing({"read"}) :
         /\ Count(failing)
         /\ IF failing = "read"
            THEN UNCHANGED <<op, cache, inval>>
            ELSE /\ Reconciled(c)
                 /\ op' = IF StillEnrolled(c, client[c].session)
                          THEN Discarding(c) ELSE None
    /\ client' = [client EXCEPT ![c] = Idle]
    /\ captured' = captured \ {c}
    /\ UNCHANGED <<shared, handler, nextId, nextVersion, deaths, outdated, opened>>

-----------------------------------------------------------------------------
(***************************************************************************)
(* Reading the session: get, getActiveVaultId and the mutations' first     *)
(* step, which remembers the session that it read.                         *)
(***************************************************************************)
\* restoreSession accepts a payload of this session that is not older.
Restorable(material) ==
    /\ payload # None
    /\ payload.sid = material.sid /\ payload.vault = material.vault
    /\ payload.ver >= material.ver

Revocation(c, known) ==
    [Operation("revoke", c, "advance epoch") EXCEPT !.known = known]

\* A mutation goes on only over the local snapshot the session stands for:
\* its vector is the payload's, its digest the material's.
OpenSession(c) ==
    /\ op = None /\ client[c] = Idle
    /\ \E failing \in Failing({"read"}) :
         /\ Count(failing)
         /\ IF failing = "read"
            THEN op' = Revocation(c, None) /\ UNCHANGED <<client, local>>
            ELSE LET material == Reconcile(c).material
                     opens == material # None /\ Restorable(material)
                 IN /\ Reconciled(c) /\ captured' = Dropped(c)
                    /\ op' = IF material # None /\ ~opens
                             THEN Revocation(c, material) ELSE None
                    /\ \/ UNCHANGED client
                       \/ /\ c \in Pages /\ opens
                          /\ epoch < MaxEpoch
                          /\ payload.ver = material.ver
                          /\ snapshot[material.vault] = material.ver
                          /\ client' = [client EXCEPT ![c] =
                                 [pc |-> "mutating", session |-> material]]
    /\ UNCHANGED <<shared, handler, nextId, nextVersion, deaths, outdated, opened>>

\* getActiveVaultId: a session the context read as absent is read again next.
GetStatus(c) ==
    /\ op = None
    /\ LET r == Reconcile(c)
           evicts == r.material = None /\ stored # None /\ r.inval = Valid /\ ~r.moved
       IN /\ cache' = [cache EXCEPT ![c] = IF evicts THEN Evict(r.cache, None) ELSE r.cache]
          /\ inval' = [inval EXCEPT ![c] = r.inval]
          /\ captured' = Dropped(c)
    /\ UNCHANGED <<shared, client, handler, op, nextId, nextVersion, faults,
                   deaths, outdated, opened>>

-----------------------------------------------------------------------------
(***************************************************************************)
(* Mutations: persistForActiveSession, then, once the upload of a synced   *)
(* vault is settled, the commit to the session or the rollback.            *)
(***************************************************************************)
IsActiveVault(c, m) ==
    /\ Reconcile(c).material # None
    /\ Reconcile(c).material.vault = m.vault

IsActiveSession(c, m) ==
    /\ Reconcile(c).material # None
    /\ Reconcile(c).material.sid = m.sid
    /\ Reconcile(c).material.vault = m.vault

\* persistProtectedSession saves the payload first.
FirstSave == "save payload"

Persistence(c) ==
    [Operation("persist", c, "advance epoch") EXCEPT !.target = client[c].session]

BeginPersist(c) ==
    /\ op = None /\ client[c].pc = "mutating" /\ nextVersion < MaxVersion
    /\ Reconciled(c) /\ captured' = Dropped(c)
    /\ op' = IF IsActiveSession(c, client[c].session)
             THEN Persistence(c) ELSE None
    /\ client' = [client EXCEPT ![c] = Idle]
    /\ UNCHANGED <<shared, handler, nextId, nextVersion, faults, deaths,
                   outdated, opened>>

\* The session that stands for the snapshot its context persisted.
AtVersion(session, version) == [session EXCEPT !.ver = version]

CommitmentOfMaterialOnly(c) ==
    [Operation("commit", c, "save material") EXCEPT
        !.target = AtVersion(client[c].session, client[c].ver),
        !.known = Reconcile(c).material]

Commitment(c) ==
    [Operation("commit", c, FirstSave) EXCEPT
        !.target = AtVersion(client[c].session, client[c].ver),
        !.known = Reconcile(c).material]

BeginCommit(c) ==
    /\ op = None /\ client[c].pc = "persisted"
    /\ Reconciled(c) /\ captured' = Dropped(c)
    /\ op' = IF IsActiveSession(c, client[c].session)
             THEN Commitment(c) ELSE None
    /\ client' = [client EXCEPT ![c] = Idle]
    /\ UNCHANGED <<shared, handler, nextId, nextVersion, faults, deaths,
                   outdated, opened>>

\* restorePersistedState, after an upload that definitely failed.
Restoration(c) ==
    [Operation("rollback", c, IF Reconcile(c).material = None THEN "advance epoch"
                              ELSE "restore snapshot") EXCEPT
        !.target = AtVersion(client[c].session, client[c].ver),
        !.base = client[c].session.ver,
        !.known = Reconcile(c).material]

BeginRollback(c) ==
    /\ op = None /\ client[c].pc = "persisted"
    /\ client[c].session.vault \in Synced
    /\ Reconciled(c) /\ captured' = Dropped(c)
    /\ LET session == client[c].session
           material == Reconcile(c).material
           sessionAdvanced == \/ Reconcile(c).moved
                              \/ stored # None /\ stored # session
                              \/ stored # None /\ material = None
       IN op' = IF sessionAdvanced THEN None
                ELSE Restoration(c)
    /\ client' = [client EXCEPT ![c] = Idle]
    /\ UNCHANGED <<shared, handler, nextId, nextVersion, faults, deaths,
                   outdated, opened>>

-----------------------------------------------------------------------------
(***************************************************************************)
(* Cleanups: the user locks, the user deletes the vault, an alarm locks.   *)
(***************************************************************************)
\* An identity that cannot be read leaves the cleanup to what the cache holds.
CleanupOf(kind, c, pc, failing) ==
    [Operation(kind, c, pc) EXCEPT
        !.known = IF failing # "read" THEN Reconcile(c).material
                  ELSE IF inval[c] = Valid THEN ReadThrough(cache[c]) ELSE None,
        !.had = (failing = "read" \/ stored # None),
        !.failed = (failing = "read")]

ReconciledUnless(failing, c) ==
    IF failing = "read" THEN UNCHANGED local
    ELSE Reconciled(c) /\ captured' = Dropped(c)

BeginLock(c) ==
    /\ op = None /\ epoch < MaxEpoch
    /\ \E failing \in Failing({"read"}) :
         /\ Count(failing)
         /\ op' = CleanupOf("lock", c, "advance epoch", failing)
         /\ ReconciledUnless(failing, c)
    /\ UNCHANGED <<shared, client, handler, nextId, nextVersion, deaths, outdated, opened>>

\* Deletion requires the session of that vault, seen by this context.
DeletionOf(c, v) == [CleanupOf("delete", c, "advance epoch", None) EXCEPT !.vault = v]

BeginDelete(c, v) ==
    /\ op = None /\ epoch < MaxEpoch /\ client[c] = Idle
    /\ Reconciled(c) /\ captured' = Dropped(c)
    /\ op' = IF /\ stored # None /\ stored.vault = v
                /\ Reconcile(c).moved => Advanced(c)
                /\ Reconcile(c).material = None => Advanced(c)
             THEN DeletionOf(c, v) ELSE None
    /\ UNCHANGED <<shared, client, handler, nextId, nextVersion, faults, deaths,
                   outdated, opened>>

\* A lock action is current as long as the task record names it.
OwnsAnyLock(i) == task # None
OwnsLock(i) == task # None /\ task.id = i

AlarmCleanup(i, failing) ==
    [CleanupOf("alarm", Background, "read tasks", failing) EXCEPT
        !.action = i, !.vault = task.vault, !.taskFailed = (failing = "task")]

HandlerTo(i, pc) == handler' = [handler EXCEPT ![i].pc = pc]

\* runIfActionIsActive checks the action against the task record again.
BeginAlarmCleanup(i) ==
    /\ op = None /\ handler[i].pc = "lock"
    /\ \E failing \in Failing({"task", "read"}) :
         /\ Count(failing)
         /\ IF ~OwnsLock(i)
            THEN /\ HandlerTo(i, "cleaned")
                 /\ UNCHANGED <<op, local>>
            ELSE /\ HandlerTo(i, "locking")
                 /\ op' = AlarmCleanup(i, failing)
                 /\ ReconciledUnless(failing, Background)
    /\ UNCHANGED <<shared, client, nextId, nextVersion, deaths, outdated, opened>>

-----------------------------------------------------------------------------
(***************************************************************************)
(* The storage calls of an operation.  Goto and Proceed lead to its next   *)
(* call, Proceed with what failed so far; Finish is its end, where the run *)
(* of the alarm handler learns how its cleanup ended.                      *)
(***************************************************************************)
Goto(pc) == op' = [op EXCEPT !.pc = pc] /\ UNCHANGED handler

Proceed(pc, failed) ==
    op' = [op EXCEPT !.pc = pc, !.failed = failed] /\ UNCHANGED handler

Finish(failed) ==
    /\ op' = None
    /\ IF op.kind # "alarm" THEN UNCHANGED handler
       ELSE HandlerTo(op.action, IF failed THEN "failed" ELSE "cleaned")

At(pc) == op # None /\ op.pc = pc

\* The contexts that hold an activation authority they could still use.
Holders == {c \in Contexts : client[c].pc \in {"authorized", "ready", "prepared"}}

\* advanceUnlockedVaultSessionEpoch, with what each operation does next.
AdvanceEpoch ==
    /\ At("advance epoch")
    /\ \E failing \in Failing({"epoch"}) :
         /\ Count(failing)
         /\ epoch' = IF failing = None THEN epoch + 1 ELSE epoch
         /\ captured' = IF failing = None /\ op.kind \in {"persist", "rollback", "commit"}
                        THEN captured \ {op.ctx} ELSE captured
         /\ outdated' = IF failing = None /\ op.kind = "commit"
                        THEN outdated \cup Holders ELSE outdated
         /\ \/ /\ op.kind = "commit" /\ failing = None
               /\ Finish(FALSE)
            \/ /\ op.kind = "commit" /\ failing # None
               /\ op' = Revocation(op.ctx, op.known) /\ UNCHANGED handler
            \/ /\ op.kind \in {"activate", "persist", "rollback"} /\ failing # None
               /\ Finish(TRUE)
            \/ /\ op.kind = "activate" /\ failing = None
               /\ Goto(IF op.vault = None THEN "save task" ELSE "save vault")
            \/ /\ op.kind = "persist" /\ failing = None /\ Goto("save snapshot")
            \/ /\ op.kind = "rollback" /\ failing = None /\ Goto("restore snapshot")
            \/ /\ op.kind \in Cleanups \cup {"revoke", "discard"}
               /\ Proceed(IF op.kind \in {"lock", "delete"}
                          THEN "read tasks" ELSE "remove material",
                          op.failed \/ failing # None)
    /\ UNCHANGED <<stored, payload, task, alarms, snapshot, cache, inval, client,
                   nextId, nextVersion, deaths, opened>>

-----------------------------------------------------------------------------
(* The activation: lock task, alarm, payload, material.                    *)

\* An installation that failed removes the session it was to replace.
AfterFailedInstallKeep == "cancel alarm"
AfterFailedInstall == IF op.known = None THEN "cancel alarm" ELSE "remove material"

\* removeSessionRecords alone: the epoch is advanced already.
Removal(c, known) == [Revocation(c, known) EXCEPT !.pc = "remove material"]

\* saveInitializedLocalVault stores all records of the vault, or none if there
\* are any.  The activation then fails before it has a lock action.
SaveVault ==
    /\ At("save vault")
    /\ \E failing \in Failing({"records"}) :
         /\ Count(failing)
         /\ IF failing = None /\ snapshot[op.vault] = None
            THEN /\ snapshot' = [snapshot EXCEPT ![op.vault] = op.target.ver]
                 /\ Goto("save task")
            ELSE /\ op' = IF op.known = None THEN None
                          ELSE Removal(op.ctx, op.known)
                 /\ UNCHANGED <<snapshot, handler>>
    /\ UNCHANGED <<stored, payload, epoch, task, alarms, local, client, nextId,
                   nextVersion, deaths, outdated, opened>>

SaveTask ==
    /\ At("save task")
    /\ \E failing \in Failing({"task"}) :
         /\ Count(failing)
         /\ task' = IF failing = None
                    THEN [id |-> op.action, vault |-> op.target.vault] ELSE task
         /\ Goto(IF failing = None THEN "arm alarm" ELSE AfterFailedInstall)
    /\ UNCHANGED <<stored, payload, epoch, alarms, snapshot, local, client, nextId,
                   nextVersion, deaths, outdated, opened>>

ArmAlarm ==
    /\ At("arm alarm")
    /\ \E failing \in Failing({"alarm"}) :
         /\ Count(failing)
         /\ alarms' = IF failing = None THEN alarms \cup {op.action} ELSE alarms
         /\ Goto(IF failing = None THEN FirstSave ELSE AfterFailedInstall)
    /\ UNCHANGED <<stored, payload, epoch, task, snapshot, local, client, nextId,
                   nextVersion, deaths, outdated, opened>>

\* persistProtectedSession: a commit that fails revokes, an activation that
\* fails removes what is there and rolls its lock task back.
AfterFailedSave ==
    IF op.kind = "commit"
    THEN op' = Revocation(op.ctx, op.known) /\ UNCHANGED handler
    ELSE Goto("remove material")

SavePayload ==
    /\ At("save payload")
    /\ \E failing \in Failing({"payload"}) :
         /\ Count(failing)
         /\ payload' = IF failing = None THEN op.target ELSE payload
         /\ IF failing = None THEN Goto("save material") ELSE AfterFailedSave
    /\ UNCHANGED <<stored, epoch, task, alarms, snapshot, local, client, nextId,
                   nextVersion, deaths, outdated, opened>>

\* An enrollment keeps the generation of its activation, and uploads.
Enrolling == op.vault # None /\ op.vault \in Synced

Activated ==
    IF Enrolling
    THEN /\ captured' = captured \cup {op.ctx}
         /\ client' = [client EXCEPT ![op.ctx] =
                          [pc |-> "enrolled", session |-> op.target]]
    ELSE captured' = captured \ {op.ctx} /\ UNCHANGED client

SaveMaterial ==
    /\ At("save material")
    /\ \E failing \in Failing({"material"}) :
         /\ Count(failing)
         /\ IF failing = None
            THEN /\ stored' = op.target
                 /\ cache' = [cache EXCEPT ![op.ctx] = op.target]
                 /\ opened' = IF op.kind = "activate" THEN op.target.sid ELSE opened
                 /\ IF op.kind = "commit"
                    THEN /\ Goto("advance epoch")
                         /\ UNCHANGED <<inval, captured, client, outdated>>
                    ELSE /\ Finish(FALSE)
                         /\ outdated' = outdated \cup Holders
                         /\ inval' = [inval EXCEPT ![op.ctx] = Valid]
                         /\ Activated
            ELSE AfterFailedSave
                 /\ UNCHANGED <<stored, local, client, outdated, opened>>
    /\ UNCHANGED <<payload, epoch, task, alarms, snapshot, nextId, nextVersion,
                   deaths>>

-----------------------------------------------------------------------------
(* The local snapshot: compare-and-set against the one the session has.    *)

SaveSnapshot ==
    /\ At("save snapshot")
    /\ \E failing \in Failing({"records"}) :
         /\ Count(failing)
         /\ IF failing = None /\ snapshot[op.target.vault] = op.target.ver
            THEN /\ nextVersion' = nextVersion + 1
                 /\ snapshot' = [snapshot EXCEPT ![op.target.vault] = nextVersion + 1]
                 /\ client' = [client EXCEPT ![op.ctx] =
                       [pc |-> "persisted", session |-> op.target, ver |-> nextVersion + 1]]
                 /\ outdated' = outdated \cup Holders
            ELSE UNCHANGED <<snapshot, nextVersion, client, outdated>>
    /\ Finish(FALSE)
    /\ UNCHANGED <<stored, payload, epoch, task, alarms, local, nextId, deaths, opened>>

RestoreSnapshot ==
    /\ At("restore snapshot")
    /\ \E failing \in Failing({"records"}) :
         /\ Count(failing)
         /\ IF failing = None /\ snapshot[op.target.vault] = op.target.ver
            THEN /\ snapshot' = [snapshot EXCEPT ![op.target.vault] = op.base]
                 /\ Finish(FALSE)
            ELSE /\ op' = IF op.known = None THEN None
                          ELSE Revocation(op.ctx, op.known)
                 /\ UNCHANGED <<snapshot, handler>>
    /\ UNCHANGED <<stored, payload, epoch, task, alarms, local, client, nextId,
                   nextVersion, deaths, outdated, opened>>

-----------------------------------------------------------------------------
(***************************************************************************)
(* removeSessionRecords, and what a cleanup does around it.                *)
(***************************************************************************)
\* cleanupTasks: an alarm whose vault is not the session's is stale; the
\* others look up the lock action to retire, which a discard does at once.  A
\* clipboard that cannot be cleared is remembered and reported at the end.
AfterTasks == IF op.kind = "alarm" THEN "advance epoch"
              ELSE IF op.kind = "discard" THEN "remove task"
              ELSE "remove material"

Looked(failing) ==
    op' = [op EXCEPT
             !.pc = AfterTasks,
             !.action = IF op.kind = "alarm" THEN @
                        ELSE IF failing = "task" \/ task = None THEN None
                        ELSE task.id,
             !.taskFailed = @ \/ failing # None]

\* The session the cleanup is about: the stored one, or the one the cache had
\* when the stored identity could not be read.
Active == IF op.failed THEN op.known ELSE stored

AlarmIsStale == op.kind = "alarm" /\ Active # None /\ Active.vault # op.vault

ReadTasks ==
    /\ At("read tasks")
    /\ \E failing \in Failing({"task", "clipboard"}) :
         /\ Count(failing)
         /\ IF AlarmIsStale THEN Finish(op.failed)
            ELSE Looked(failing) /\ UNCHANGED handler
    /\ UNCHANGED <<shared, local, client, nextId, nextVersion, deaths, outdated, opened>>

\* The session this context knew, or else the one its cache or the store has.
Removing == IF op.known # None THEN op.known ELSE ReadThrough(cache[op.ctx])

MaterialRemoved(failing) ==
    op' = [op EXCEPT !.pc = "remove payload", !.removed = (failing = None),
             !.failed = @ \/ failing # None]

RemoveMaterial ==
    /\ At("remove material")
    /\ \E failing \in Failing({"material"}) :
         /\ Count(failing)
         /\ stored' = IF failing = None THEN None ELSE stored
         /\ cache' = [cache EXCEPT ![op.ctx] = None]
         /\ inval' = [inval EXCEPT ![op.ctx] =
               IF Removing # None THEN Known(Removing.sid) ELSE Unknown(failing = None)]
         /\ captured' = captured \ {op.ctx}
         /\ outdated' = IF op.failed THEN outdated ELSE outdated \cup Holders
         /\ MaterialRemoved(failing)
    /\ UNCHANGED <<payload, epoch, task, alarms, snapshot, client, handler, nextId,
                   nextVersion, deaths, opened>>

\* A cleanup goes on to the vault records, and to retire the lock action,
\* when the session is gone; or when there was none and nothing failed.  A
\* discard goes on to the vault records when nothing failed.
RemovePayload ==
    /\ At("remove payload")
    /\ \E failing \in Failing({"payload"}) :
         LET failed == op.failed \/ failing # None
             sessionRemoved == op.removed /\ failing = None /\ op.had
         IN /\ Count(failing)
            /\ payload' = IF failing = None THEN None ELSE payload
            /\ \/ op.kind = "activate" /\ Goto("cancel alarm")
               \/ op.kind = "revoke" /\ Finish(failed)
               \/ /\ op.kind = "discard"
                  /\ IF failed \/ op.taskFailed THEN Finish(TRUE)
                     ELSE Goto("discard vault")
               \/ /\ op.kind \in Cleanups
                  /\ IF sessionRemoved \/ ~failed
                     THEN Proceed(IF /\ op.kind = "delete" /\ sessionRemoved
                                     /\ ~op.taskFailed
                                  THEN "remove vault" ELSE "remove task", failed)
                     ELSE Finish(TRUE)
    /\ UNCHANGED <<stored, epoch, task, alarms, snapshot, local, client, nextId,
                   nextVersion, deaths, outdated, opened>>

RemoveVault ==
    /\ At("remove vault")
    /\ \E failing \in Failing({"records"}) :
         /\ Count(failing)
         /\ snapshot' = IF failing = None THEN [snapshot EXCEPT ![op.vault] = None]
                        ELSE snapshot
         /\ Proceed("remove task", op.failed \/ failing # None)
    /\ UNCHANGED <<stored, payload, epoch, task, alarms, local, client,
                   nextId, nextVersion, deaths, outdated, opened>>

\* finalizeLockTask: first the record, if it is still this action's, then the
\* alarm.  The rollback of an activation does it in the other order, and one
\* that fails does not keep it from the other.
RetiresAlarmTask == op.kind = "alarm"
RetiresTask == op.action # None

\* The rollback of an activation ends with the vault it had stored.
RollsNothingBack == FALSE                                \* seeded fault
RollsVaultBack == op.vault # None

\* A discard goes on with the session whatever failed, and remembers it.
GoesOn(pc, failing) ==
    /\ op' = [op EXCEPT !.pc = pc, !.taskFailed = @ \/ failing # None]
    /\ UNCHANGED handler

RemoveTask ==
    /\ At("remove task")
    /\ \E failing \in Failing(IF RetiresTask THEN {"task"} ELSE {}) :
         /\ Count(failing)
         /\ task' = IF RetiresTask /\ failing = None /\ task # None /\ task.id = op.action
                    THEN None ELSE task
         /\ \/ /\ op.kind = "activate"
               /\ IF RollsVaultBack THEN Goto("discard vault") ELSE Finish(TRUE)
            \/ /\ op.kind = "discard"
               /\ GoesOn(IF RetiresTask /\ failing = None THEN "cancel alarm"
                         ELSE "advance epoch", failing)
            \/ /\ op.kind \in Cleanups
               /\ IF ~RetiresTask \/ failing # None
                  THEN Finish(op.failed \/ op.taskFailed \/ failing # None)
                  ELSE Goto("cancel alarm")
    /\ UNCHANGED <<stored, payload, epoch, alarms, snapshot, local, client, nextId,
                   nextVersion, deaths, outdated, opened>>

CancelAlarm ==
    /\ At("cancel alarm")
    /\ \E failing \in Failing({"alarm"}) :
         /\ Count(failing)
         /\ alarms' = IF failing = None THEN alarms \ {op.action} ELSE alarms
         /\ \/ op.kind = "activate" /\ Goto("remove task")
            \/ op.kind = "discard" /\ GoesOn("advance epoch", failing)
            \/ /\ op.kind \in Cleanups
               /\ Finish(op.failed \/ op.taskFailed \/ failing # None)
    /\ UNCHANGED <<stored, payload, epoch, task, snapshot, local, client, nextId,
                   nextVersion, deaths, outdated, opened>>

\* removePersistedLocalVaultIfArtifactsMatch: the records of the vault go if
\* they are what was stored.  While an enrollment is uploaded the snapshot may
\* change, and so may the records beside it that are not modelled here.
Discards == snapshot[op.vault] = op.target.ver

DiscardVault ==
    /\ At("discard vault")
    /\ \E failing \in Failing({"records"}) :
         /\ Count(failing)
         /\ \/ /\ failing = None /\ Discards
               /\ snapshot' = [snapshot EXCEPT ![op.vault] = None]
            \/ /\ failing # None \/ ~Discards \/ op.kind = "discard"
               /\ UNCHANGED snapshot
         /\ Finish(TRUE)
    /\ UNCHANGED <<stored, payload, epoch, task, alarms, local, client, nextId,
                   nextVersion, deaths, outdated, opened>>

-----------------------------------------------------------------------------
(***************************************************************************)
(* The alarm handler of the service worker: claim, arm a retry, lock,      *)
(* cancel the retry; and the locking by the cleanup above.                 *)
(***************************************************************************)
FireAlarm(i) ==
    /\ i \in alarms /\ handler[i].pc = "idle"
    /\ alarms' = alarms \ {i}
    /\ HandlerTo(i, "check")
    /\ UNCHANGED <<stored, payload, epoch, task, snapshot, local, client, op, nextId,
                   nextVersion, faults, deaths, outdated, opened>>

\* A task record that cannot be read leaves the alarm armed for a retry.
CheckOwnership(i) ==
    /\ handler[i].pc = "check"
    /\ \E failing \in Failing({"task"}) :
         /\ Count(failing)
         /\ alarms' = IF failing # None THEN alarms \cup {i} ELSE alarms
         /\ IF failing # None \/ ~OwnsLock(i)
            THEN handler' = [handler EXCEPT ![i] = Resting]
            ELSE HandlerTo(i, "arm")
    /\ UNCHANGED <<stored, payload, epoch, task, snapshot, local, client, op, nextId,
                   nextVersion, deaths, outdated, opened>>

ArmRetry(i) ==
    /\ handler[i].pc = "arm"
    /\ \E failing \in Failing({"alarm"}) :
         /\ Count(failing)
         /\ alarms' = IF failing = None THEN alarms \cup {i} ELSE alarms
         /\ handler' = [handler EXCEPT ![i] = [pc |-> "lock", armed |-> failing = None]]
    /\ UNCHANGED <<stored, payload, epoch, task, snapshot, local, client, op, nextId,
                   nextVersion, deaths, outdated, opened>>

\* A cleanup that failed keeps the retry, or arms it now; one that ended well
\* or found its action stale cancels it.
KeepsNoRetry(i) == FALSE
KeepsRetry(i) == handler[i].pc = "failed"

SettleRetry(i) ==
    /\ handler[i].pc \in {"cleaned", "failed"}
    /\ IF KeepsRetry(i) = handler[i].armed THEN UNCHANGED <<alarms, faults>>
       ELSE \E failing \in Failing({"alarm"}) :
              /\ Count(failing)
              /\ alarms' = IF failing # None THEN alarms
                           ELSE IF KeepsRetry(i) THEN alarms \cup {i} ELSE alarms \ {i}
    /\ handler' = [handler EXCEPT ![i] = Resting]
    /\ UNCHANGED <<stored, payload, epoch, task, snapshot, local, client, op, nextId,
                   nextVersion, deaths, outdated, opened>>

-----------------------------------------------------------------------------
(***************************************************************************)
(* A context dies: a page is closed, the service worker is stopped.  Its   *)
(* memory is gone and the browser releases its Web Lock; the shared state  *)
(* stays as the last storage call left it.  A browser restart also clears  *)
(* chrome.storage.session and may drop alarms.                             *)
(***************************************************************************)
Forget(dying) ==
    /\ cache' = [c \in Contexts |-> IF c \in dying THEN Unread ELSE cache[c]]
    /\ inval' = [c \in Contexts |-> IF c \in dying THEN Valid ELSE inval[c]]
    /\ captured' = captured \ dying
    /\ client' = [c \in Contexts |-> IF c \in dying THEN Idle ELSE client[c]]
    /\ op' = IF op # None /\ op.ctx \in dying THEN None ELSE op
    /\ handler' = IF Background \in dying THEN [i \in Ids |-> Resting] ELSE handler
    /\ outdated' = outdated \ dying
    /\ deaths' = deaths + 1

Die(c) ==
    /\ c \in Mortal /\ deaths < MaxDeaths
    /\ Forget({c})
    /\ UNCHANGED <<shared, nextId, nextVersion, faults, opened>>

BrowserRestart ==
    /\ Mortal = Contexts /\ deaths < MaxDeaths
    /\ Forget(Contexts)
    /\ stored' = None /\ epoch' = 0 /\ task' = None
    /\ alarms' \in SUBSET alarms
    /\ UNCHANGED <<payload, snapshot, nextId, nextVersion, faults, opened>>

-----------------------------------------------------------------------------
Call == \/ AdvanceEpoch \/ SaveTask \/ ArmAlarm \/ SavePayload \/ SaveMaterial
        \/ SaveSnapshot \/ RestoreSnapshot \/ ReadTasks \/ RemoveMaterial
        \/ RemovePayload \/ RemoveVault \/ RemoveTask \/ CancelAlarm
        \/ SaveVault \/ DiscardVault

Alarm(i) == \/ FireAlarm(i) \/ CheckOwnership(i) \/ ArmRetry(i)
            \/ BeginAlarmCleanup(i) \/ SettleRetry(i)

Unlock(c) == \/ \E v \in Vaults : Authorize(c, v)
             \/ LoadVault(c) \/ BeginActivation(c) \/ RejectActivation(c)
             \/ Abandon(c)

Arrive(c) == Prepare(c) \/ BeginArrival(c) \/ BeginDiscard(c)

Mutate(c) == BeginPersist(c) \/ BeginCommit(c) \/ BeginRollback(c)

Close(c) == BeginLock(c) \/ \E v \in Vaults : BeginDelete(c, v)

Next == \/ Call
        \/ \E i \in Ids : Alarm(i)
        \/ \E c \in Pages : Unlock(c) \/ Arrive(c) \/ Mutate(c) \/ Close(c)
        \/ \E c \in Contexts : OpenSession(c) \/ GetStatus(c) \/ Die(c)
        \/ BrowserRestart

Spec == Init /\ [][Next]_vars

-----------------------------------------------------------------------------
(***************************************************************************)
(* Properties                                                              *)
(***************************************************************************)

\* An activation never goes ahead on authority that was captured before a
\* lock, a deletion, another activation, a persisted snapshot or a commit that
\* was carried through (one whose epoch write failed or that died is not).
ActivationAuthorityFresh ==
    op # None /\ op.kind = "activate" => op.ctx \notin outdated

\* A session is only ever given the snapshot that is local when it is stored.
SessionInstallsLocalSnapshot ==
    At("save material") => op.target.ver = snapshot[op.target.vault]

\* The payload of the stored session is never older than its material, so a
\* context that reads the session sees nothing that a commit replaced.
PayloadNotOlder ==
    stored # None /\ payload # None /\ payload.sid = stored.sid =>
        payload.vault = stored.vault /\ payload.ver >= stored.ver

\* No vault stays unlocked after its local records are deleted, by a deletion
\* that could write the epoch.
NoSessionOverDeletedVault == stored # None => snapshot[stored.vault] # None

\* Between operations an unlocked vault has its lock task, and the alarm of
\* that task is armed or being handled.
LockPending(v) ==
    /\ task # None
    /\ task.vault = v
    /\ task.id \in alarms \/ handler[task.id].pc # "idle"

UnlockedHasAutoLock == op = None /\ stored # None => LockPending(stored.vault)

\* An alarm never removes a session that is newer than the action it is for.
StaleAlarmSparesNewerSession ==
    [][ (op # None /\ op.kind = "alarm" /\ stored # None /\ stored' = None)
            => stored.sid <= op.action ]_vars

\* A lock or a deletion that reports success leaves no session, no payload, no
\* lock task, and no context that could still read the session.
LockReportsTheTruth ==
    [][ (/\ op # None /\ op.kind \in {"lock", "delete"} /\ op' = None
         /\ ~op.failed /\ ~op.taskFailed /\ faults' = faults /\ deaths' = deaths)
        => /\ stored' = None /\ payload' = None /\ task' = None
           /\ \A c \in Contexts : Reconcile(c)'.material = None ]_vars

\* An arrival whose activation fails, or that is discarded, leaves no part of
\* itself: the records of the vault, the session, its payload and the lock task
\* all go, if no call but the first fails.  (A discard may find the vault
\* changed and leave it.  An alarm may be armed again by a handler that had
\* claimed it; without its task it does nothing.)
LeavesNothing(o) ==
    /\ stored' # o.target /\ payload' # o.target
    /\ snapshot'[o.vault] # o.target.ver
    /\ o.action # None => task' # [id |-> o.action, vault |-> o.vault]

FailedArrivalLeavesNothing ==
    [][ (/\ op # None /\ op' = None /\ op.vault # None
         /\ deaths' = deaths /\ faults' <= 1
         /\ \/ op.kind = "activate" /\ stored' # op.target
            \/ op.kind = "discard" /\ snapshot'[op.vault] # snapshot[op.vault])
        => LeavesNothing(op) ]_vars

\* Every context comes to see the stored session: at once, or on the next
\* look, unless a call failed.
EveryContextFindsTheSession ==
    faults = 0 /\ op = None /\ stored # None =>
        \A c \in Contexts : Reconcile(c).material = stored \/ Reconcile(c).moved

\* The whole protocol implements the lifecycle of SessionLifecycle: ids are
\* fresh, vaults do not mix, and what a lock, a failure or a death ended stays
\* ended, whatever any context still has in its memory.
Lifecycle == INSTANCE SessionLifecycle WITH
    current <- IF stored = None THEN None
               ELSE [sid |-> stored.sid, vault |-> stored.vault],
    last <- opened

ImplementsLifecycle == Lifecycle!Spec

(***************************************************************************)
(* Liveness.  Chrome delivers an armed alarm, the service worker runs its  *)
(* handler, storage calls return, and the Web Lock is granted in the order *)
(* of the requests, so a cleanup that keeps asking gets its turn.          *)
(***************************************************************************)
Fairness == /\ WF_vars(Call)
            /\ \A i \in Ids :
                 /\ WF_vars(FireAlarm(i)) /\ WF_vars(CheckOwnership(i))
                 /\ WF_vars(ArmRetry(i)) /\ WF_vars(SettleRetry(i))
                 /\ SF_vars(BeginAlarmCleanup(i))

FairSpec == Spec /\ Fairness

\* Every session ends, by a lock, a replacement or its alarm, although calls
\* of the cleanup fail and are retried.
AutoLock ==
    \A s \in Ids :
        (stored # None /\ stored.sid = s) ~> ~(stored # None /\ stored.sid = s)
=============================================================================
