---------------------------- MODULE DeviceAccess ----------------------------
(* The two records that let a device open its vault: the access material,   *)
(* opened by the master password, and its recovery backup, opened by the    *)
(* recovery words.  A change of the password and new words are made under   *)
(* the Web Lock; an unlock and a recovery read and derive outside it.       *)
EXTENDS Integers

CONSTANTS None,       \* no record, no operation
          MaxFaults,  \* bound: failures, deaths and restarts
          MaxOps      \* bound: operations a user starts

VARIABLES
    lockHeld,    \* the origin-wide Web Lock
    session,     \* the vault is unlocked
    ops,         \* operations started so far
    faults,      \* failures so far
    epoch,       \* the shared epoch of session authority
    vault,       \* the device keys in the stored snapshot, 0 without a vault
    material,    \* device access material
    backup,      \* device access recovery backup
    fresh,       \* identifiers given out: generations, keys, passwords, words
    change,      \* a change under the Web Lock
    recovery,    \* a recovery
    unlocking,   \* an unlock
    known,       \* history: the password and words the user may rely on
    wordsLost,   \* history: words replaced by words nobody was shown
    retired      \* history: passwords replaced by a change

sharedVars == <<lockHeld, session, ops, faults>>
ownVars == <<epoch, vault, material, backup, fresh, change, recovery, unlocking,
             known, wordsLost, retired>>

\* One operation takes one identifier for all it creates.
Ids == 1..(MaxOps + 1)
Materials == [revision : Ids, generation : Ids, password : Ids, keys : Ids]
Backups == [revision : Ids, generation : Ids, words : Ids, keys : Ids]
Readers == [pc : {"read", "check", "save"}, kind : {"password", "words", "recovery"},
            material : Materials \union {None}, backup : Backups \union {None}]
Unlocks == [pc : {"read", "activate"}, epoch : Nat, password : Ids]

TypeOK ==
    /\ epoch \in Nat
    /\ vault \in Ids \union {0}
    /\ material \in Materials \union {None}
    /\ backup \in Backups \union {None}
    /\ fresh \in Ids
    /\ change \in Readers \union {None}
    /\ recovery \in Readers \union {None}
    /\ unlocking \in Unlocks \union {None}
    /\ known \in [passwords : SUBSET Ids, words : SUBSET Ids]
    /\ wordsLost \in BOOLEAN
    /\ retired \subseteq Ids
    /\ change # None => lockHeld

InitialRecords(id) ==
    /\ vault' = id
    /\ material' = [revision |-> 1, generation |-> id, password |-> id, keys |-> id]
    /\ backup' = [revision |-> 1, generation |-> id, words |-> id, keys |-> id]
    /\ known' = [passwords |-> {id}, words |-> {id}]
    /\ wordsLost' = FALSE

\* A device whose vault exists; its material may be missing, the case a
\* recovery handles.
Init ==
    /\ epoch = 0
    /\ vault = 1
    /\ material \in {None, [revision |-> 1, generation |-> 1, password |-> 1, keys |-> 1]}
    /\ backup = [revision |-> 1, generation |-> 1, words |-> 1, keys |-> 1]
    /\ fresh = 1
    /\ change = None
    /\ recovery = None
    /\ unlocking = None
    /\ known = [passwords |-> {1}, words |-> {1}]
    /\ wordsLost = FALSE
    /\ retired = {}

Fails == faults < MaxFaults /\ faults' = faults + 1

Starts == ops < MaxOps /\ ops' = ops + 1

Consistent(m, b) == m.keys = b.keys /\ m.generation = b.generation

MatchesIdentity(read) ==                                 \* seeded fault
    /\ backup # None
    /\ backup.keys = read.backup.keys
    /\ (material = None) = (read.material = None)

\* The compare-and-set of the pair: a replacement has the device of the pair it
\* read and follows it.
Matches(read) ==
    /\ backup # None
    /\ backup.keys = read.backup.keys
    /\ backup.revision = read.backup.revision
    /\ backup.generation = read.backup.generation
    /\ (material = None) = (read.material = None)
    /\ material # None => /\ material.revision = read.material.revision
                          /\ material.generation = read.material.generation
                          /\ Consistent(material, backup)

Replace(read, password, words) ==
    /\ material' =
           [revision |-> IF read.material = None THEN 1 ELSE read.material.revision + 1,
            generation |-> fresh + 1, password |-> password, keys |-> read.backup.keys]
    /\ backup' = [revision |-> read.backup.revision + 1, generation |-> fresh + 1,
                  words |-> words, keys |-> read.backup.keys]

SavePair(read) ==
    IF read.kind = "recovery" THEN Replace(read, fresh + 1, fresh + 1)
    ELSE IF read.kind = "password" THEN Replace(read, fresh + 1, read.backup.words)
    ELSE Replace(read, read.material.password, fresh + 1)

-----------------------------------------------------------------------------
(* Changing the password and the words                                      *)

BeginChangeQuietly(kind) ==                              \* seeded fault
    /\ ~lockHeld
    /\ session
    /\ change = None
    /\ Starts
    /\ lockHeld' = TRUE
    /\ change' = [pc |-> "read", kind |-> kind, material |-> None, backup |-> None]
    /\ UNCHANGED <<session, faults, epoch, vault, material, backup, fresh,
                   recovery, unlocking, known, wordsLost, retired>>

BeginChangeUnlocked(kind) ==                             \* seeded fault
    /\ session
    /\ change = None
    /\ Starts
    /\ epoch' = IF kind = "password" THEN epoch + 1 ELSE epoch
    /\ change' = [pc |-> "read", kind |-> kind, material |-> None, backup |-> None]
    /\ UNCHANGED <<lockHeld, session, faults, vault, material, backup, fresh,
                   recovery, unlocking, known, wordsLost, retired>>

\* A change of the password advances the epoch before anything else.
BeginChange(kind) ==
    /\ ~lockHeld
    /\ session
    /\ change = None
    /\ Starts
    /\ lockHeld' = TRUE
    /\ epoch' = IF kind = "password" THEN epoch + 1 ELSE epoch
    /\ change' = [pc |-> "read", kind |-> kind, material |-> None, backup |-> None]
    /\ UNCHANGED <<session, faults, vault, material, backup, fresh, recovery,
                   unlocking, known, wordsLost, retired>>

ChangeReads ==
    /\ change # None
    /\ change.pc = "read"
    /\ IF material # None /\ backup # None /\ Consistent(material, backup)
       THEN /\ change' = [change EXCEPT !.pc = "save", !.material = material,
                                        !.backup = backup]
            /\ UNCHANGED lockHeld
       ELSE /\ change' = None
            /\ lockHeld' = FALSE
    /\ UNCHANGED <<session, ops, faults, epoch, vault, material, backup, fresh,
                   recovery, unlocking, known, wordsLost, retired>>

Retire == IF change.kind = "password"
          THEN retired \union {material.password} ELSE retired

Learn(kind, id) ==
    /\ known' = [passwords |-> IF kind = "words" THEN known.passwords ELSE {id},
                 words |-> IF kind = "password" THEN known.words ELSE {id}]
    /\ wordsLost' = IF kind = "password" THEN wordsLost ELSE FALSE

ChangeSaves ==
    /\ change # None
    /\ change.pc = "save"
    /\ fresh' = fresh + 1
    /\ IF Matches(change)
       THEN /\ SavePair(change)
            /\ Learn(change.kind, fresh + 1)
            /\ retired' = Retire
       ELSE UNCHANGED <<material, backup, known, wordsLost, retired>>
    /\ change' = None
    /\ lockHeld' = FALSE
    /\ UNCHANGED <<session, ops, faults, epoch, vault, recovery, unlocking>>

\* What a death leaves: the user may have either password, never saw the words.
Doubt(kind, id) ==
    /\ known' = [known EXCEPT !.passwords = IF kind = "words" THEN @ ELSE @ \union {id}]
    /\ wordsLost' = IF kind = "password" THEN wordsLost ELSE TRUE

ChangeDies ==
    /\ change # None
    /\ change.pc = "save"
    /\ Fails
    /\ fresh' = fresh + 1
    /\ Doubt(change.kind, fresh + 1)
    /\ \/ Matches(change) /\ SavePair(change) /\ retired' = Retire
       \/ UNCHANGED <<material, backup, retired>>
    /\ change' = None
    /\ lockHeld' = FALSE
    /\ UNCHANGED <<session, ops, epoch, vault, recovery, unlocking>>

-----------------------------------------------------------------------------
(* Recovery: no Web Lock after its first check, and no new epoch            *)

BeginRecovery ==
    /\ ~lockHeld
    /\ recovery = None
    /\ Starts
    /\ recovery' = [pc |-> "read", kind |-> "recovery", material |-> None,
                    backup |-> None]
    /\ UNCHANGED <<lockHeld, session, faults, epoch, vault, material, backup,
                   fresh, change, unlocking, known, wordsLost, retired>>

RecoveryReads ==
    /\ recovery # None
    /\ recovery.pc = "read"
    /\ recovery' =
           IF backup # None /\ (material # None => Consistent(material, backup))
           THEN [recovery EXCEPT !.pc = "check", !.material = material,
                                 !.backup = backup]
           ELSE None
    /\ UNCHANGED <<lockHeld, session, ops, faults, epoch, vault, material, backup,
                   fresh, change, unlocking, known, wordsLost, retired>>

\* The words open the backup that was read, and its device has a slot in the
\* snapshot.
RecoveryChecks ==
    /\ recovery # None
    /\ recovery.pc = "check"
    /\ recovery' = IF vault = recovery.backup.keys
                      /\ recovery.backup.words \in known.words
                   THEN [recovery EXCEPT !.pc = "save"]
                   ELSE None
    /\ UNCHANGED <<lockHeld, session, ops, faults, epoch, vault, material, backup,
                   fresh, change, unlocking, known, wordsLost, retired>>

RecoverySaves ==
    /\ recovery # None
    /\ recovery.pc = "save"
    /\ fresh' = fresh + 1
    /\ IF Matches(recovery)
       THEN SavePair(recovery) /\ Learn("recovery", fresh + 1)
       ELSE UNCHANGED <<material, backup, known, wordsLost>>
    /\ recovery' = None
    /\ UNCHANGED <<lockHeld, session, ops, faults, epoch, vault, change,
                   unlocking, retired>>

RecoveryDies ==
    /\ recovery # None
    /\ recovery.pc = "save"
    /\ Fails
    /\ fresh' = fresh + 1
    /\ Doubt("recovery", fresh + 1)
    /\ \/ Matches(recovery) /\ SavePair(recovery)
       \/ UNCHANGED <<material, backup>>
    /\ recovery' = None
    /\ UNCHANGED <<lockHeld, session, ops, epoch, vault, change, unlocking,
                   retired>>

-----------------------------------------------------------------------------
(* Unlocking: authority captured first, keys derived, the session last      *)

BeginUnlock(password) ==
    /\ ~lockHeld
    /\ unlocking = None
    /\ Starts
    /\ unlocking' = [pc |-> "read", epoch |-> epoch, password |-> password]
    /\ UNCHANGED <<lockHeld, session, faults, epoch, vault, material, backup,
                   fresh, change, recovery, known, wordsLost, retired>>

Opens(password) ==
    /\ material # None
    /\ backup # None
    /\ Consistent(material, backup)
    /\ material.keys = vault
    /\ material.password = password

UnlockReads ==
    /\ unlocking # None
    /\ unlocking.pc = "read"
    /\ unlocking' = IF Opens(unlocking.password)
                    THEN [unlocking EXCEPT !.pc = "activate"] ELSE None
    /\ UNCHANGED <<lockHeld, session, ops, faults, epoch, vault, material, backup,
                   fresh, change, recovery, known, wordsLost, retired>>

\* Authority older than the epoch installs nothing.
Activate ==
    /\ unlocking # None
    /\ unlocking.pc = "activate"
    /\ ~lockHeld
    /\ unlocking' = None
    /\ IF unlocking.epoch = epoch
       THEN session' = TRUE /\ epoch' = epoch + 1
       ELSE UNCHANGED <<session, epoch>>
    /\ UNCHANGED <<lockHeld, ops, faults, vault, material, backup, fresh, change,
                   recovery, known, wordsLost, retired>>

-----------------------------------------------------------------------------
(* Removing the vault from this device, and joining it again                *)

\* A device that deleted its copy is enrolled again: new keys, first revision.
EnrollAgain ==
    /\ ~lockHeld
    /\ vault = 0
    /\ Starts
    /\ InitialRecords(fresh + 1)
    /\ fresh' = fresh + 1
    /\ session' = TRUE
    /\ epoch' = epoch + 1
    /\ UNCHANGED <<lockHeld, faults, change, recovery, unlocking, retired>>

\* The end of a lock, or of a deletion whose cleanup reported no error.
EndSession(removesVault) ==
    /\ epoch' = epoch + 1
    /\ IF removesVault
       THEN vault' = 0 /\ material' = None /\ backup' = None
       ELSE UNCHANGED <<vault, material, backup>>
    /\ UNCHANGED <<fresh, change, recovery, unlocking, known, wordsLost, retired>>

\* A restart of the browser ends every operation and empties the epoch.
Restart ==
    /\ epoch' = 0
    /\ change' = None
    /\ recovery' = None
    /\ unlocking' = None
    /\ UNCHANGED <<vault, material, backup, fresh, known, wordsLost, retired>>

Steps ==
    \/ ChangeReads \/ ChangeSaves
    \/ RecoveryReads \/ RecoveryChecks \/ RecoverySaves
    \/ UnlockReads \/ Activate

Next ==
    \/ \E kind \in {"password", "words"} : BeginChange(kind)
    \/ \E password \in known.passwords : BeginUnlock(password)
    \/ BeginRecovery \/ EnrollAgain
    \/ Steps
    \/ ChangeDies \/ RecoveryDies

-----------------------------------------------------------------------------
(* Properties                                                               *)

\* Both records hold the keys of the stored vault, and open with the password
\* and the words of the last operation that succeeded.  A death between the
\* save and its answer leaves the user with two passwords to try, and with
\* words nobody was shown.
KnownSecretsOpenRecords ==
    /\ material # None => /\ backup # None
                          /\ Consistent(material, backup)
                          /\ material.password \in known.passwords
    /\ backup # None => /\ backup.keys = vault
                        /\ wordsLost \/ backup.words \in known.words

\* No unlock that read the records before a change of the password installs a
\* session after it.
RetiredPasswordOpensNothing ==
    [][Activate /\ epoch' # epoch => unlocking.password \notin retired]_<<sharedVars, ownVars>>
=============================================================================
