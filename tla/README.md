# Verification of LFSPM

LFSPM is a local-first password manager: a Chrome extension (Manifest V3) over a
platform-independent core. This directory holds TLA+ models of its stateful core,
the TLC configurations that check them and TLAPS proofs about them. Paths below are
relative to `src/packages/core/src` unless they start with `ext/`, which stands for
`src/apps/extension/src`, or with `docs/`, which stands for `src/docs`.

## 1. Inventory

| Component | State it keeps | Operations | What must hold |
|---|---|---|---|
| Version vectors (`domain/versioning`) | none; a vector on every snapshot, entry, folder and tag | increment, merge, isAheadOf, compare | the relation is the causal order of the edits, on every device |
| Unlocked session (`services/session/unlocked-vault-session.service.ts`, `ext/adapters/storage/*unlocked-vault-session*`) | material in `chrome.storage.session`, payload in IndexedDB, shared epoch; per context: cached material, invalidation state, activation generation | require authority, activate, get, get status, persist, commit, roll back, clean up, discard | fresh authority, no stale session, session over the local snapshot, every context agrees |
| Automatic lock (`vault-session-activation`, `vault-lifecycle-cleanup`, `ext/extension/background/clipboard-alarm-runtime.ts`) | lock task record, alarms | install, roll back, fire, retry, finalize, discard | an unlocked vault always has its lock; a stale alarm is harmless; every session ends; a failed arrival leaves nothing |
| Device access (`use-cases/vault-lifecycle`, `use-cases/device-trust/recover-device-access.ts`) | access material, recovery backup | unlock, change password, replace recovery words, recover, enroll again | the two records change together and open with what the user knows |
| Local repository and snapshot service | snapshot, checkpoint, credential state, descriptor, access records | compare-and-set of a snapshot, restore, delete | nothing persisted is overwritten unseen |
| Mutations (`services/vault`, `use-cases/vault-entries`, `-folders`, `-tags`) | entries, folders, tags, tombstones | add, update, move, remove; prepare, persist, upload, commit or roll back | all or nothing; references and names stay valid; nothing unseen is overwritten |
| Sync guard and use cases (`services/sync`, `use-cases/sync`) | pending upload marker, credentials | upload, retry, review, resolve, set up, disable | an edit is lost only by a reviewed decision; equal vectors mean equal bytes |
| S3 provider (`ext/adapters/sync`) | remote object | conditional GET/PUT/DELETE | the outcome is known or reported unknown |
| Sync resolution (`domain/sync`) | none | review and merge of entries, folders, tags, profiles | a device that is behind can review; any mixture of choices gives a valid vault or none |
| Clipboard clearing (`services/clipboard`, offscreen document) | clear task, alarm, the clipboard | copy, clear, expire | a copied secret is owned and leaves; a lock leaves none |
| Device trust (`services/trust`, `use-cases/device-trust`) | trust chain, profiles, credential rotation, pending revocation | enroll, approve, revoke, consume, complete | the chain only grows; a revoked device stays out; followers can follow |
| Browser login capture (`use-cases/browser-login`, `ext/extension/composition/login-detection.ts`) | captured logins, detection and retention settings | capture, review, dismiss, switch, clean up | nothing stays that is not wanted; nothing wanted is taken |
| Crypto, codecs, generators, UI | none that matters here | | not modelled (section 8) |

**Interaction.** Several extension contexts (popup, options page, service worker,
offscreen document) each hold their own instance of every service and share only
browser storage. One origin-wide Web Lock
(`web-locks-clipboard-operation-coordinator.adapter.ts`) serialises session and
clipboard operations. It is held across many asynchronous storage calls, each of
which can fail, and the browser may end a context between any two of them. Key
derivation and network calls run outside the lock, so what was read before must be
checked again after. Devices share one object in a remote storage and meet only
there, by conditional writes.

**Hard parts**, listed line by line under `hazards` in `PROJECT.json`: authority
captured before slow work; two stores written one after the other; caches of one
context overtaken by another; alarms that fire late, twice or never; uploads and
clipboard writes whose answer is lost; rollbacks that race with other pages; devices
that missed any mixture of changes; choices that are valid one by one only.

## 2. Modules

| Module | Models | Uses |
|---|---|---|
| `VersionVectors` | `version-vector.utils.ts` as operators on partial functions | |
| `CausalHistory` | devices that edit, publish, adopt and resolve copies of one record, each copy with the set of edits behind it | `VersionVectors` |
| `SessionLifecycle` | abstract: a session is opened under a fresh id or closed | |
| `VaultSession` | the unlocked session, its activation, automatic lock, deletion and rollback, and the vaults that arrive with it | implements `SessionLifecycle` |
| `SnapshotRegister` | abstract: one register, and snapshots that are offered, accepted or taken back | |
| `SnapshotSync` | one vault between devices through one remote object: uploads, retries, rollback, resolution, setup, disabling, credentials | `VersionVectors`, implements `SnapshotRegister` |
| `DeviceTrust` | enrollment, revocation, rotation and the devices that follow them | `VersionVectors` |
| `VaultContents` | entries, folders and tags: changes, forms, review and resolution | `VersionVectors` |
| `ClipboardClearing` | a copied secret, its task, its alarm and late writes | |
| `DeviceAccess` | the pair of access records, changes, recovery and unlock | |
| `CapturedLogins` | logins captured from websites, under a lock of their own | |
| `LocalDevice` | one device: clipboard, access records and captured logins under one Web Lock and session | `ClipboardClearing`, `DeviceAccess`, `CapturedLogins` through INSTANCE |
| `MC_*` | symmetry and bounds for TLC | |
| `*_proofs` | TLAPS proofs | |

### VersionVectors and CausalHistory

A vector is a function on some of the devices; a missing component counts as zero
(`?? 0` in the code). `CompareVersionVectors` keeps the order of the tests of the
code. `CausalHistory` adds what the program does not store: the set of edits a copy
was made from. Then "the relation is right" has a meaning that does not mention
vectors (`OrderReflectsHistory`). `Edit` is a mutation, `Adopt` takes a remote copy
verbatim, `Resolve` is any resolution: it stamps the increment of the merge.

### VaultSession

| Variable | Code |
|---|---|
| `stored`, `payload`, `epoch` | session material and epoch in `chrome.storage.session`, encrypted payload in IndexedDB |
| `task`, `alarms` | lock task record, `chrome.alarms` |
| `snapshot` | version of the local snapshot of each vault |
| `cache`, `inval` | `cachedMaterial` of the adapter (`Unread` is `undefined`, `None` is `null`), `invalidationState` |
| `captured` | contexts that hold an authority whose `localGeneration` still equals `activationGeneration`. The counter is only ever compared with one's own captured value |
| `client` | the unlock, the arrival or the mutation a page has under way outside the lock |
| `handler` | a run of the alarm handler for each lock action |
| `op` | the operation that holds the Web Lock: its next call, what it found, what failed |
| `outdated`, `opened` | history variables: authority that predates a transition; the newest id stored |

One action of `Call` per storage call: `AdvanceEpoch`, `SaveTask`, `ArmAlarm`,
`SavePayload`, `SaveMaterial`, `SaveSnapshot`, `RestoreSnapshot`, `ReadTasks`,
`RemoveMaterial`, `RemovePayload`, `RemoveVault`, `RemoveTask`, `CancelAlarm`,
`SaveVault`, `DiscardVault`. They are shared by the operations that make them, and `op.kind` says which one runs. The
first action of an operation (`BeginActivation`, `BeginPersist`, `BeginCommit`,
`BeginRollback`, `BeginLock`, `BeginDelete`, `BeginAlarmCleanup`, `OpenSession`,
`BeginArrival`, `BeginDiscard`, `GetStatus`, `Authorize`) takes the lock, reads the stored identity and runs
`Reconcile`, which is `reconcileActiveMaterial` with its recursion unfolded. Reads
inside the lock change nothing another context could see, so they are not steps of
their own. A failing call takes the code's `catch` path. `Die` and `BrowserRestart`
drop what lives in memory and leave the shared state as the last call left it.

A vault in `Arriving` may come to the device while it runs: it is initialized, or, when
it is synced, this device enrolls in it. `Prepare` stands for `initialize-vault.ts` and
`perform-device-enrollment.ts` up to the activation, which then stores the records of
the vault (`SaveVault`, the callback `prepareActivation`) before its lock task, and
removes them last when it fails (`DiscardVault`, the callback
`rollbackPreparedActivation`). An enrollment is uploaded under its new session; when
the upload definitely failed, `BeginDiscard` (`discardIfSessionIsActive`) retires lock
task and alarm, removes the session and then the records, provided that session and
records are still its own. An arrival is an `activate` operation with a `vault`.

Abstractions:
- the records of a vault beside its snapshot come and go with it; that a discard may
  find one of them changed is a choice of `DiscardVault`;
- a version number stands for a snapshot's vector and digest; a number that was
  rolled back is not given out again. Where the code compares vectors only, it also
  requires equal session ids;
- a session id and the lock action of the same activation share a number; the code
  never compares the two kinds;
- `LoadVault` gathers the reads of an unlock outside the lock into one moment;
- clearing the clipboard inside a cleanup is one call that may fail (`ClipboardClearing` has its steps);
- a retry alarm that is due while its handler still runs is delivered afterwards;
- the lock task's own storage lock is only ever taken inside the session lock when
  it matters, so it is not modelled separately.

### SessionLifecycle

`current` is the session that exists, `last` the newest id given out. `Open` uses a
larger id than any before and never replaces a session of another vault; `Close`
ends the session. `VaultSession` implements it with `current` read off `stored` and
`last` being `opened` (property `ImplementsLifecycle`). So a commit, a failure, a
death or a late alarm never brings an ended session back.

### SnapshotSync and SnapshotRegister

| Variable | Code |
|---|---|
| `snapshots` | every snapshot ever signed: vector, the identity it expects in the remote object, removal mark. Its index stands for its digest |
| `local`, `cred` | the stored snapshot of a device and its encrypted credential record with `pendingSnapshotUpload`; the checkpoint is one to one with the snapshot |
| `session` | the snapshot the session of a device is at |
| `opening` | the snapshot an unlock of a page has read, as long as the epoch it took is still the present one |
| `task` | the operation a page runs: mutation, upload, resolution, setup, disabling, new credentials |
| `remote`, `wire` | the remote object and the requests under way |
| `committed`, `withdrawn` | history: what the object ever held, what was rolled back |

A step is a section under the Web Lock, one transaction of the local store or one
request. `Perform` is the storage carrying out a request if its condition holds,
`Answer` the device learning the outcome, or learning that it cannot know.
`SendAgain` is the second try of the SDK: a refusal is definite only for the first
try, except for DELETE, which the code treats as definite always. An operation may
`Stop` anywhere (its page died, or it threw), and its request arrives later or never.
The reads of an operation before its first request are one step, since the
compare-and-set of its first write checks them again; the GET before a PUT is merged
with it. Not distinguished: why a definite failure failed. `Lock` and
`FinishUnlock` mark the running operations of a device instead of carrying session ids.

An unlock is outside the Web Lock until its last section: `BeginUnlock` takes the epoch
and reads the snapshot, then the key is derived, and `FinishUnlock` opens a session at
what was read, or replaces the open one of the same vault; `AbandonUnlock` is a wrong
password or a closed page. An unlock whose epoch moved cannot finish. `AdvancesEpoch` is
part of every store, commit, lock, finished unlock and deletion, and of a rollback that finds no
session; a rollback under an open session advances nothing (`restorePersistedState`, line
236), nor does marking an upload. So a session may be opened at a snapshot that was
taken back (finding 1).

`SnapshotRegister` is the promise: a snapshot that was taken back is never in the register later, an accepted
one is never taken back, and the register changes only from what was expected.
`PendingUploadCanBeRetried` is the possibility of a retry and not its liveness: the
program retries nothing by itself.

### DeviceTrust

A snapshot is a record of its vector, chain of certificates, vault key, envelopes,
device profiles, the marker of an open revocation and one vector for the content. An
operation is two steps: its checks with the write to the local store, and the upload,
which is completed, refused (snapshot and credentials go back together), or lost, and
then settled by `Reconcile` or by a retry. `CanReview`, `CanConsumeEnrollments` and
`CanConsumeRevocations` are the three flows by which a device follows the remote
snapshot, with all the checks of the suffix it missed. `DeleteCredential` is the user
revoking the credential at the provider, which the program cannot do; the user then
enters the credential of the last rotation. Devices whose vectors cross are refused
everywhere (relation `broken`); the documentation calls this unsupported, and the
model leaves them behind. The history before the first certificate is the certificate
`by` nobody.

### VaultContents

| Definition | Code |
|---|---|
| `vault[d]`, `remote` | the vault of a device and of the remote object |
| an item outside the domain, with data, with data `None` | never there, in `entries`/`folders`/`tags`, a tombstone in the `deleted...` list |
| `form` | an edit form with the item it showed; other pages change the vault meanwhile |
| `Adds`, `Expects` | `prepareLocalMutation` (the vault is at the remote version) and the expected version of the item |
| `Saves` | persist and upload; the upload lands, or is lost and repeated by `Upload`; a refused one is rolled back and changes nothing |
| `ItemRelation`, `Reviewable` | `getEntryRelation` and its two siblings |
| `Resolved`, `ValidOrganization` | `applyVaultSyncResolution` and the validation of the mixture |
| `AcceptRemote`, `Resolve` | the two ends of `apply-sync-resolution.ts` |

Ids are given out once (`generateId`), so the code that adds an item over its own
tombstone is never reached by a use case and left out. Of an item its references,
its normalized name and its vector are kept. `Acyclic` states without recursion what
`requireAcyclicFolder` walks: a set of folders that is closed under parents is empty.
Tag groups are constant in the program. The uncategorized folder is `None`. Profiles
are in `DeviceTrust`. The vector of the vault stands for that of the snapshot, which
moves with it.

### ClipboardClearing, DeviceAccess, CapturedLogins and LocalDevice

One operation at a time holds the Web Lock (`lockHeld`). In `ClipboardClearing` `op`
is that operation, a copy, lock, deletion or alarm, and goes through read, compare,
erase, forget, cancel, save, arm and write, a failing call taking its `catch` path: a
copy or an alarm ends, a cleanup remembers the error and still removes the session.
`handler[a]` is the alarm handler outside the lock. A write whose sender died may
still reach the offscreen document before its deadline (`late`); what it leaves, and a
secret whose task a browser restart erased, is `stray`: the standards exempt it
(`docs/standards/clipboard-and-extension-runtime.md`, CLIPBOARD-003), and so do the
properties. The user may copy other text at any time, and an alarm may fire early
(the clock was set back). A failing rearm belongs to the same outage as the failure
before it.

In `DeviceAccess` the two records carry revision, generation, keys and the password
or words that open them. `Replace` is the compare-and-set of both. A change runs under
the lock, a change of the password advancing the epoch first; a recovery runs outside
the lock; an unlock takes the epoch, reads, and activates if the epoch is the same
(`VaultSession` has its details). `known` is what the user may rely on: after a death
between the save and its answer, two passwords are possible, and new words may be
shown to nobody (`wordsLost`).

In `CapturedLogins` `job` is what the holder of the capture lock does: a capture with
its five lookups (`Continue`, `EnterSession`), which takes the Web Lock inside to
store; a cleanup of the worker; or a change of a setting by a page. `asked` and `due`
are the captures and cleanups that wait for that lock. The popup (`popup`) reviews and
dismisses under the Web Lock only. Session ids are relative: a capture is `ours` as
long as the session that stored it lives, and `SessionChanges` ends that, which is
exact because ids are never reused. A deadline may pass at any lookup, and a login the
vault already has may end a capture at the last. What an event told a worker that
then died is lost; at its next start it runs the three general cleanups (`due`).
`uncleared` remembers cleanups that failed, which the code leaves to a later start.
A tab that moves to another website ends a capture at its lookup and lets a review
remove it; both may happen anyway, so it needs no state.

`LocalDevice` interleaves the three over the shared lock, session and budget of
operations and failures. A deletion removes the records only if the cleanup threw
nothing, and may fail there. Whatever ends or replaces the session is at once an event
for the captured logins.

## 3. Runs

| Run | Instance | Shows |
|---|---|---|
| `causal` | 3 devices, 2 edits each, 3 published copies | comparing vectors is comparing histories; no edit is dropped |
| `pages` | 2 pages and the worker, 2 unsynced vaults, one death or browser restart | snapshot, agreement of the caches, payload order, no session over a deleted vault, refinement |
| `faults` | the same contexts, 1 synced vault that is here or arrives, one failing call of any kind | authority, payload order, honest lock, failed arrivals |
| `autolock` | one page, one synced vault, one failing call, fairness | automatic lock, stale alarms, every session ends |
| `sync_pages` | one device, 2 pages, 3 snapshots, all operations but resolution | open uploads are remembered, pending ones can be retried, a session gets ahead of the store only by an overtaken unlock (finding 1) and nothing goes on in it |
| `sync_devices` | 2 devices, 3 snapshots, mutation, upload, resolution, disabling | one vector one snapshot, the remote object moves forward, refinement |
| `device_trust` | 3 members and a fourth device, depth 6, one edit, one mishap | trust only continues, revoked devices hold no key, completion is true, everyone can follow but for finding 3 |
| `local_device` | 2 copies, 2 tabs, room for one capture, 3 operations, one failure, death or restart; fairness | secrets are owned and leave; known secrets open, replaced passwords do not; captures are wanted and go for a reason |
| `vault_contents` | 2 devices, 1 entry, 2 folders, 1 tag, 2 names, 3 changes, one lost upload | vaults stay organized; who is behind can review; forms overwrite nothing unseen |
| `rollback` | 2 pages, one synced vault | violation: finding 1 |
| `death_gap` | 2 pages, one death | violation: finding 2 |
| `missed_stamp` | 3 members, no mishap | violation: finding 3 |

**Bounds.** `VaultSession`: `MaxId = 2` gives a session and its replacement, which is
what every race here needs; `MaxVersion = 2` one persisted mutation with its commit or
rollback, `MaxVersion = 3` in `faults` also the snapshot of an arrival; `MaxEpoch` bounds where user actions may *start*, never an operation under
way. Two pages suffice for a race and are interchangeable, and so are the two unsynced
vaults of `pages` (symmetry); the worker is the third context. One failure or one
death: with two failures `UnlockedHasAutoLock` does not hold (arming the alarm fails,
then removing the session fails), and with a failure and a death an unfinished lock
can leave authority behind, which is the limit of what these protocols can do.
`autolock` has no arriving vault: the discard of an enrollment retires the lock task
before it removes the session, so that one failing removal leaves the session without
an automatic lock. `docs/security/security-specification.md:614-616` describes that
order, `UnlockedHasAutoLock` fails with it, and `hazards` lists it.
`SnapshotSync`: `MaxSnapshots = 3` gives a first snapshot, a change and a second change
or resolution over it, with every request of them lost, late or doubled; the number of
faults is not bounded. `DeviceTrust`: `MaxDepth = 6` bounds the snapshots one after
the other, enough for an enrollment with its consumption and a revocation that a third
device missed both of. A mishap (overlap or unknown outcome) counts as two, and as one
more when the content was edited. `LocalDevice`: a copy, a
second copy and a lock or change is the longest race; two failures were tried once for
the safety properties alone. Opening a review and closing a tab count as operations
too; two captures with a review, or one with a lock and an unlock, are the longest
races of the captured logins. `Limit = 1` reaches the code's 20. Captures are not
mixed with copies and changes of secrets in one behaviour (`Apart`): they share nothing
but the lock and the session, and with detection off there is nothing to clean up. `VaultContents`: three changes are two of one device
behind the other's back and a resolution; a cycle and a missing parent need exactly
that. A kept entry in a removed folder needs four and is refused by the same check,
which the seeded `ResolveUnchecked` keeps to show that the others matter.

Deadlock is checked where the system never ends (`VaultSession`, `CausalHistory`,
`SnapshotSync`). It is off where a budget of operations or of depth ends the
behaviours (`DeviceTrust`, `LocalDevice`, `VaultContents`).

**Fairness.** `autolock`: storage calls return (weak fairness of `Call`); an armed
alarm is delivered and its handler is run (weak fairness of its steps); the Web Lock is
granted in the order of requests, so a cleanup that asks gets its turn although pages
keep taking the lock (strong fairness of `BeginAlarmCleanup`). `local_device`: an
operation, a handler and a change go on once begun, time passes and alarms fire (weak
fairness); the budget of operations makes the grant of the lock a matter of weak
fairness. No fairness of user actions, failures, deaths or restarts. `SnapshotSync` and
`DeviceTrust` have no liveness: nothing in the program retries by itself, and the user
revokes credentials elsewhere.

## 4. Findings

1. `rollback`: `restorePersistedState` advances the epoch only when no session is
   active (line 236). Authority captured between a persisted mutation and its
   rollback stays valid. The activation then installs a session over the snapshot
   that was rolled back; mutations of that session fail, because the local snapshot is
   not its own. `docs/security/security-specification.md:476-478` says that the epoch
   invalidates authority captured before a rollback. `sync_pages` shows the extent of it
   (`OnlyOvertakenUnlocksAreAhead`, proved for every instance): this is the only way a
   session gets ahead of the store, and no operation goes on in such a session.
2. `death_gap`: re-activating an unlocked vault replaces the lock task (lines 71-75)
   and then arms its alarm (76-82). If the page dies in between, the old session
   remains, the old alarm is stale, and nothing locks the vault until the next
   activation, lock or browser restart. `docs/standards/sessions-lifecycle-and-scheduled-actions.md:44`
   demands a lock task with every activation.
3. `missed_stamp`: a resolution stamps every profile it reviewed
   (`stampDeviceProfileState`), and a revocation makes the tombstone of the removed
   device from the profile as it is then. `buildTrustTransitionBaseline`
   (`device-revocation-consumption.service.ts:554`) makes it from the profile the
   follower last saw. A survivor that missed both finds a tombstone it does not
   expect, and no flow lets it in, although the standard demands that an offline
   survivor can consume every transition it missed. `OnlyMissedStampsStop` checks that
   this is the only case.

## 5. Proofs

Assumed everywhere: the named assumptions on the constants (`ConstantsAssumption`,
`MarkersAssumption` and `OperationsAssumption` of `VaultSession`: `None` and `Unread` are no
session, id, step or operation; `EditsAssumption`; and those of `VaultContents`: `None` is not an
item, the three kinds of identities are disjoint, templates are typed; those of
`LocalDevice`, `SnapshotSync` and `DeviceTrust` are named below). TLC evaluates
them in each run. Nothing else is assumed; the bounds are parameters. The type
invariants of `CausalHistory`, `VaultSession` and `VaultContents` are proved and no run repeats them.

- `VersionVectors_proofs`: `CompareIsPointwise`, `MergeIsLeastUpperBound`,
  `ResolutionIsAheadOfBoth`, from lemmas on the components of an increment and a merge.
- `CausalHistory_proofs`: `TypeCorrect`; `CountersAreUniqueNames`, whose invariant is
  inductive with the type invariant: a copy's history is exactly what its vector
  counts, and nobody counts more edits of a device than that device does;
  `ComparisonIsCausal` follows from it and `CompareIsPointwise`; `NoEditIsLost` from
  it and the adopted copy being ahead.
- `VaultSession_proofs`:
  - `TypeCorrect`. `TypeInv` strengthens `TypeOK` by `WellFormed`: an operation is at
    one of its own calls and has the fields that call uses (a target to install, an
    action to retire); and a persist in progress still has a version to give out.
  - `AuthorityIsFresh`. `ActivationAuthorityFresh` alone is not inductive, since it
    does not say why outdated authority is refused. `AuthorityInv` does: a context
    holds authority from no later than the current epoch, and from strictly before it
    when it is outdated; and an operation that has made its epoch write has every
    authority that is held strictly behind it, so whatever it marks later is behind
    too. An activation compares the epochs and therefore never starts outdated.
  - `AlarmsSpareNewerSessions` and `SessionRefinement`, both from `SessionsInv`: the
    stored session is not newer than the lock task, an activation's id is larger than
    all opened, a commit past its check still has its session stored, and an alarm's
    cleanup is never for an older action than the stored session. The refinement
    proof then maps every step to `Open`, `Close` or a stutter.
  - `PayloadIsNotOlder`, from `VersionsInv`. The payload and the material are written one
    after the other by a commit, while a rollback gives the next mutation an older
    snapshot to start from. What orders them is that version numbers are given out once:
    a mutation that may still commit or roll back holds a snapshot later than its
    session's, and the snapshot of a committed session is *retired*: no mutation that is
    still under way started from it.
  - `DeletedVaultsHaveNoSession`, from `RecordsInv`: records go only when no session is
    left and every context that holds authority is behind the epoch, and an activation
    compares the epoch. The hypothesis `DeletionsAdvance` says that a deletion's epoch
    write succeeds. It is needed: without it TLC finds a session over a deleted vault (see
    the hazard at `unlocked-vault-session.service.ts:654`). `NoSessionIsOverDeletedVault`
    replaces it by a fact about the constants, that `"epoch"` is not in `FaultySteps`, as
    in the run.
  - `ContextsFindTheSession`, from `FindsInv`: what a context remembers against a
    session names one that has ended, ids are given out once, and only a failed removal
    makes a context distrust a session that is still stored. The property itself says
    `faults = 0`; deaths and restarts are unrestricted.
  - `LocksReportTheTruth` and `FailedArrivalsLeaveNothing`, from `EndsInv`: each call goes
    on only from what the calls before it left behind, or remembers a failure. A
    rollback runs because a call has failed; as the property allows one failure, none of
    the rollback's own calls fails.
  - `SessionsInstallTheLocalSnapshot`, from `LocalInv`: an unlock with current authority, a
    persisted mutation of the active session and an activation past its epoch write all
    hold the snapshot that is local. Hypotheses: deletions write their epoch, and
    no rollback restores a snapshot, which is what finding 1 breaks.
    `UnsyncedSessionsInstallTheLocalSnapshot` has them as facts about the constants (no
    synced vault, no failing epoch write), which the run satisfies.
  - `UnlockedVaultsHaveAutoLock`, from `LockInv`: whichever one call fails, a handler that
    is past its claim has its alarm armed again, or the one call has failed and it will
    arm it now, or the task names another action; an activation saves task and alarm
    before the session and undoes them after it; a cleanup retires the task when the
    session is gone, and an alarm that finds the session of another vault has failed to
    read it. Within a state the theorem needs at most one failure and no death, the limits
    named in section 3, and of the constants that no vault that arrives is synced (the
    discard of an enrollment). `AutoLockSurvivesOneFault` is the same with
    `MaxFaults <= 1` and `MaxDeaths = 0`.

- `VaultContents_proofs`: `TypeCorrect` and `VaultsAlwaysOrganized`, one inductive
  invariant together. Each kind of change is shown to keep the organization of the one
  vault it starts from (a lemma per change, a lemma per effect on the tree: a new
  folder is nobody's parent, a moved one leaves the walk from its new parent); a vault
  is then saved, uploaded, taken over or lost, but never altered. A resolution is
  organized because the code validates the mixture; that it is well formed needs that
  an item is only kept where the device has one, and that no item is an entry and a
  folder at once.

  `BehindIsAlwaysReviewable` and `FormsSubmitOverWhatTheyShow` compare vaults of several
  devices, which the invariant above says nothing about. `VersionInv` does (TLC checked it
  on the run's instance first): a vault whose vector is behind another's has only items
  that the other has too, equal or behind; equal vectors, of vaults or of items, belong to
  equal vaults and items; an open form shows a version of its item that the form's device
  still has or has passed. It is inductive because of `OwnCountsAreHighest`: nobody counts
  more changes of a device, in a vault or in an item, than that device does, so what a
  device stamps is a vector nobody has, even when its upload is lost. Every change and
  every resolution is shown to be one kind of step (`Advances`): each item of the remote
  vault is kept or stamped, and an item it does not have is nowhere yet.

- `LocalDevice_proofs`: the seven safety properties of `LocalDevice`, from one inductive
  invariant `IInv` (TLC checked it on `MC_LocalDevice` first). None of them is inductive
  alone, and its parts need each other:
  - `Shared` and `WebLock`: types, and exactly one holder of the Web Lock at a time: the
    clipboard's operation, a change of the access records, or the writer of the captured
    logins. A step of one part therefore leaves the operation of the other parts alone.
  - `ClipboardInv`: each position of an operation says what it has done already and what
    the task, the alarm and the clipboard hold then; task ids are given out once, so a
    late write or an old alarm never meets a task of its own id that is not its own.
    `SecretsAreOwned`, `LocksLeaveNoSecret` follow.
  - `AccessInv`: the two records always have the same revision and keys; what a reader
    took before the epoch moved is either what is stored or is refused by the
    compare-and-set; a password that was replaced is no longer in any record, nor in a
    change that may still write. `RecordsStayOpenable`, `RetiredPasswordsOpenNothing`.
  - `LoginsInv`: the number of captures, and the work that waiting or running
    cleanups still owe: each capture nobody wants has a cleanup due that removes it.
    `StoredCapturesAreWanted`, `CapturesGoForReasons`.

  `LocalDevice` runs captures and the other two parts apart (`Apart`) to keep TLC's
  instance small. No proof uses `Apart`, so the theorems hold of a device that does
  everything at once, with any number of operations, failures, deaths and restarts.
  Assumptions: `NoneIsNothing`, `TabsAssumption`, `BoundsAssumption` (`None` is no tab, the
  bounds are numbers).

- `SnapshotSync_proofs`: all safety of `SnapshotSync`, with its refinement. None of the
  properties is inductive: what protects an upload is spread over the counters of the
  vectors, the markers in the encrypted records, what the other pages of the device hold
  to put back, and the network. `IInv` is inductive together with `OpeningInv`. Their parts:
  - `TasksInv`, `WireInv`, `LiveInv`: how far each operation has come and what it knows; a
    request belongs to the page that waits for it, or to nobody; a snapshot that was just
    stored in a running session is mentioned by nothing else yet.
  - `CountsInv`: nobody has seen more changes of a device than the device itself, and
    those of a snapshot that was never remote nobody else has seen at all. So the storage
    can hold only what one device made, and a counter that is used again after a rollback
    cannot meet its first use. `VersionsTellSnapshotsApart` and
    `RemoteObjectMovesForward` rest on it.
  - `ClaimsInv`: an open upload is remembered by its device, and stays so along every
    chain of rollbacks the other pages may still run. `Shielded` says it without
    recursion: there is a set of records that contains the present one, is closed under
    "a failing upload puts back the record it found", and has the marker in all its
    members. `TokensInv`, that fresh records are fresh, makes such sets exist.
    `OpenUploadsAreRemembered`.
  - `MarkersInv` and `SnapshotsInv`: markers describe the local snapshot, and each
    snapshot is later than what it expects to replace. `PendingUploadsCanBeRetried`.
  - `SessionInv`: sessions in which an operation goes on, and what running operations will
    bring sessions to, are not ahead of the local snapshot nor of what a rollback may
    bring back; a removal mark counts as the snapshot below it.
  - `OpeningInv`: what an unlock has read is the local snapshot still, or it was rolled
    back. With `SessionInv` it gives `SessionsFollowUnlessOvertaken`. `PageEffect` sorts the
    steps of a page by what they do to sessions and unlocks.
  - `WithdrawnInv`: what was rolled back is neither remote nor under way. With it
    `RemoteObjectIsRegister` maps a stored snapshot to `Offer`, a performed write to
    `Accept`, a deletion to `Remove`, a rollback to `Withdraw`, and all else to a stutter.

  One lemma per action (`...Keeps`) shows that it preserves `IInv`. Steps of a kind share
  one: `QuietStep` (no device changes), `RecordStep` (a record is replaced), `StoreStep` (a
  snapshot is stored), `PerformedWire` and `Lands...` (the storage acts). Assumptions:
  `TasksAssumption` (finitely many pages, none called "nobody"), `OwnerAssumption`,
  `OperationsAssumption`, `EnrolledAssumption`, `MaxSnapshotsAssumption`. The bound on
  snapshots is any number.

- `TrustChain_proofs` and `DeviceTrust_proofs`: all safety of `DeviceTrust`. No step looks at
  a whole chain, at what another device holds or at the credentials of others, so each
  property needs what the history adds up to. Three invariants are inductive, the others
  given the first (TLC checked all on the instance of the follow run before the proof):
  - `Lineage`, a fact about chains alone: generations never fall, a removal is always a
    rotation and a rotation a removal, and who was removed never comes back. Hence
    `RotationsMissed`: a device that missed a revocation missed exactly one rotation if and
    only if exactly one device was removed in the part it missed. The code clears a marker
    when `revokedDeviceIds` and generation of the device's own record are those of the
    marker; the lemma says that such a device skipped no rotation.
  - `IInv`. `HeldInv`, `FamilyInv`: every snapshot in the remote object, in a local store,
    with a new device or behind an upload has a lineage, and two with the same key agree on
    who was revoked. `HoldInv`: a device is trusted by every vault it has, or may go back
    to, and its record belongs to it. `UploadInv`, `SettledInv`: an upload continues what
    it is to replace by one certificate of its own device at most, keeping the key or
    rotating; everything settled is on the line of certificates to the remote snapshot.
    `TypeCorrect`, `RevokedNeverHoldTheKey`, `ReplacedCredentialIsOfThisRotation` and
    `TrustAlwaysContinues` follow.
  - `LineInv`, about the vaults and replaced credentials on that line: one key for each
    generation, all keys withdrawn but that of the remote snapshot and, under a marker, the
    one before it; a credential that was replaced by one missed rotation is that of the key
    before; and who is uploading that a rotation is complete has seen that credential
    rejected, so that everything older is withdrawn. `CompletionMeansRevoked` follows.
  - `FollowInv`, about what a device missed: its vault `Leads` to the remote snapshot, or
    its own upload is pending. `Leads(l, s)` sums up any number of snapshots made by any
    devices: vectors and profiles only grew, who arrived was enrolled on the way, an
    unchanged generation means an unchanged key, and each device revoked on the way has at
    least the tombstone that `l` expects. Each upload is a `Child` of the snapshot it is to
    replace: the same chain, or one certificate that joins a device or buries one. `LeadsOn`
    composes the two; `CanFollowUnlessStamped` compares what the follower computes with
    what a snapshot that leads there keeps. `OnlyStampsStop` follows: the violation of
    `FollowersCanFollow` that the stamps run finds is, for any number of missed
    certificates, the only kind there is.

  Every step is of one of five kinds (`StepKinds`): a device stores a prepared snapshot
  (`Makes`), takes the remote one (`Takes`), an upload or approval settles (`Settles`), a
  device forgets a credential, or goes back. One lemma per action says that what it
  stores is `Prepared`; one lemma per kind preserves each invariant. A remote write that
  keeps the key (`KeepingWriteKeepsLine`) and one that rotates (`RotatingWriteKeepsLine`)
  are the two cases that move the line. Assumptions: `MembersAssumption`,
  `BoundsAssumption`, `NoneAssumption` (`None` is none of the values).

Each induction of `VaultSession_proofs` has one lemma for the storage calls, one for the steps of a page, one
for the handler and one for deaths and status reads.

**Only model-checked:** `AutoLock` and `SecretLeaves`: liveness under fairness is outside
the prover. Every safety property of a passing run is a theorem.

## 6. Plan

Modelling, what is left of value: connecting a restored vault to an existing remote
object (`existing-sync-connection.ts`), which meets a newer remote snapshot of its own
trust only after an older browser profile was restored.

## 7. Running

    tlc -workers 2 -config MC_VaultSession_pages.cfg MC_VaultSession.tla
    tlapm VaultSession_proofs.tla

`PROJECT.json` lists the runs, the source lines of every definition, the mutated
definition that breaks each property, the hazards and the theorems. Definitions marked
*seeded fault* in the modules are those mutated definitions; no action uses them.

## 8. Not modelled

- Cryptography and codecs: pure functions over bytes; a record is opened by whoever
  may open it, a digest or signature that verifies is equality.
- Password and user name generators and word lists: stateless, mostly data.
- The user interface with its gallery and generated component API, which is most of
  the extension's lines: it calls the use cases and keeps no state the properties are
  about. The edit form is in `VaultContents` as far as it holds a version.
- Request signing and addressing of the S3 provider, preferences, site icons, build
  and verification scripts under `docs`: no protocol of their own.
- Recognizing, filling and registering on websites, the request that opens the popup
  on a detected login, the Firefox clipboard adapter, the re-authentication before
  recovery words are copied, `existing-sync-connection.ts`.
- Of the session: cryptographic failures and unreadable records, which take the paths
  of a failing read.
- Two devices that change a vault at once so that both writes succeed cannot occur over
  a conditional object; two local changes that cross are refused by every flow, and
  the documentation leaves them to the user.
