---------------------------- MODULE LocalDevice ----------------------------
(* One device: the clipboard, the access records and the captured logins    *)
(* share the Web Lock, the session and its end.  A lock or deletion clears  *)
(* the clipboard first and removes the vault's records last; every change   *)
(* of the session is an event for the captured logins.                      *)
EXTENDS Integers, FiniteSets

CONSTANTS None, Text, Secrets, Tabs, Limit, MaxCopies, MaxFaults, MaxOps

VARIABLES lockHeld, session, ops, faults,
          clipboard, stray, late, task, copies, expired, alarms, handler, op,
          spent, lockedClean,
          epoch, vault, material, backup, fresh, change, recovery, unlocking,
          known, wordsLost, retired,
          watch, enabled, permitted, retain, enabling, open, stored, ids, asked,
          due, job, popup, uncleared

Clipboard == INSTANCE ClipboardClearing
Access == INSTANCE DeviceAccess
Logins == INSTANCE CapturedLogins

\* None, Text and the secrets are different values, and None is no record.
ASSUME NoneIsNothing ==
    /\ None \notin Secrets \union {Text}
    /\ Text \notin Secrets
    /\ None \notin Clipboard!Tasks \union Clipboard!Operations \union Clipboard!Handlers
    /\ None \notin Access!Materials \union Access!Backups \union Access!Readers
    /\ None \notin Access!Unlocks
    /\ None \notin Logins!Captures \union Logins!Jobs \union Logins!Popups

ASSUME TabsAssumption ==
    /\ IsFiniteSet(Tabs)
    /\ {"session", "detection", "tabs"} \intersect Tabs = {}

ASSUME BoundsAssumption ==
    /\ MaxCopies \in Nat
    /\ MaxFaults \in Nat
    /\ MaxOps \in Nat

clipboardVars == <<clipboard, stray, late, task, copies, expired, alarms,
                   handler, op, spent, lockedClean>>
accessVars == <<epoch, vault, material, backup, fresh, change, recovery,
                unlocking, known, wordsLost, retired>>
loginVars == <<watch, enabled, permitted, retain, enabling, open, stored, ids,
               asked, due, job, popup, uncleared>>
vars == <<lockHeld, session, ops, faults, clipboardVars, accessVars, loginVars>>

TypeOK ==
    /\ lockHeld \in BOOLEAN
    /\ session \in BOOLEAN
    /\ ops \in 0..MaxOps
    /\ faults \in 0..MaxFaults
    /\ lockHeld = (op # None \/ change # None \/ Logins!HoldsWebLock)
    /\ Clipboard!TypeOK
    /\ Access!TypeOK
    /\ Logins!TypeOK

\* Bound: a device that captures logins locks and unlocks, and does nothing
\* else; the components meet in the lock and the session.
Apart ==
    watch => /\ copies = 0
             /\ clipboard = None
             /\ op # None => op.kind = "lock"
             /\ change = None
             /\ recovery = None
             /\ material # None

Init ==
    /\ lockHeld = FALSE
    /\ ops = 0
    /\ faults = 0
    /\ Clipboard!Init
    /\ Access!Init
    /\ Logins!Init
    /\ session \in {FALSE, material # None}
    /\ Apart

ClipboardStep == Clipboard!Next /\ UNCHANGED <<accessVars, loginVars>>
LoginStep == Logins!Next /\ UNCHANGED <<clipboardVars, accessVars>>

NewSession == session' /\ (~session \/ (Access!Activate /\ epoch' # epoch))

AccessStep ==
    /\ Access!Next
    /\ IF NewSession THEN Logins!SessionChanges ELSE UNCHANGED loginVars
    /\ UNCHANGED clipboardVars

\* afterSessionRemoval runs only when the cleanup of the tasks threw nothing,
\* and may fail itself.
EndCleanup ==
    /\ Clipboard!RemoveSession
    /\ Logins!SessionChanges
    /\ \/ Access!EndSession(op.kind = "delete" /\ ~op.failed) /\ UNCHANGED faults
       \/ /\ op.kind = "delete"
          /\ ~op.failed
          /\ faults < MaxFaults
          /\ faults' = faults + 1
          /\ Access!EndSession(FALSE)

BrowserRestarts ==
    /\ faults < MaxFaults
    /\ faults' = faults + 1
    /\ Clipboard!Restart
    /\ Access!Restart
    /\ Logins!Restart

Next ==
    /\ ClipboardStep \/ AccessStep \/ LoginStep \/ EndCleanup \/ BrowserRestarts
    /\ Apart'

\* What an operation has begun goes on; alarms fire and time passes; the
\* browser grants the lock when it is free.  Nobody has to start anything.
Fairness ==
    /\ WF_vars(Clipboard!OperationSteps /\ UNCHANGED <<accessVars, loginVars>>)
    /\ WF_vars(EndCleanup)
    /\ WF_vars(Access!Steps /\ AccessStep)
    /\ \A a \in 1..MaxCopies :
           /\ WF_vars(Clipboard!Expire(a) /\ UNCHANGED <<accessVars, loginVars>>)
           /\ WF_vars(Clipboard!Fire(a) /\ UNCHANGED <<accessVars, loginVars>>)
           /\ WF_vars(Clipboard!HandlerSteps(a) /\ UNCHANGED <<accessVars, loginVars>>)

Spec == Init /\ [][Next]_vars /\ Fairness

-----------------------------------------------------------------------------
(* The properties of the two components, over the device                    *)

\* A secret on the clipboard has a task that can clear it.
SecretIsOwned == Clipboard!SecretIsOwned

\* A lock or deletion whose cleanup worked leaves no copied secret behind.
LockLeavesNoSecret == Clipboard!LockLeavesNoSecret

\* A copied secret leaves the clipboard unless a failure used up its alarm.
SecretLeaves == Clipboard!SecretLeaves

\* The password and the words the user relies on open the records.
KnownSecretsOpenRecords == Access!KnownSecretsOpenRecords

\* No unlock begun before a change of the password is completed after it.
RetiredPasswordOpensNothing == Access!RetiredPasswordOpensNothing

\* A capture in storage is wanted, or a cleanup that removes it is on its way.
CapturesAreWanted == Logins!CapturesAreWanted

\* No cleanup of an older session and no late dismissal takes a capture of the
\* present session.
CapturesGoForAReason == Logins!CapturesGoForAReason
=============================================================================
