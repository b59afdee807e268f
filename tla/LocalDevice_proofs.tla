------------------------- MODULE LocalDevice_proofs -------------------------
(* The safety of one device, for any number of secrets, tabs, copies and     *)
(* operations and any failures and deaths.  IInv is inductive: one part says *)
(* who holds the Web Lock, and one part for each component says how far its  *)
(* operations under way have come.  The bound Apart is used nowhere, so the  *)
(* theorems hold of a device that does everything at once.                   *)
EXTENDS LocalDevice, FiniteSetTheorems, TLAPS

-----------------------------------------------------------------------------
(* The inductive invariant                                                   *)

Shared ==
    /\ lockHeld \in BOOLEAN
    /\ session \in BOOLEAN
    /\ ops \in 0..MaxOps
    /\ faults \in 0..MaxFaults

\* The Web Lock has one holder: a clipboard operation, a change of the access
\* records, a capture that is being stored or the popup's removal.
WebLock ==
    /\ lockHeld = (op # None \/ change # None \/ Logins!HoldsWebLock)
    /\ op # None => change = None /\ ~Logins!HoldsWebLock
    /\ change # None => ~Logins!HoldsWebLock
    /\ ~(Logins!Capturing({"save", "store"}) /\ Logins!Popup("remove"))

\* What a clipboard operation has established by each of its steps.
OperationInv ==
    /\ op.pc \in {"arm", "write"} =>
           /\ op.kind = "copy"
           /\ op.action \in Clipboard!Actions
           /\ task = [action |-> op.action, value |-> op.value]
    /\ op.pc \in {"compare", "erase", "forget"} => op.owned # None /\ task = op.owned
    /\ op.pc = "cancel" => op.owned # None
    /\ op.pc \in {"cancel", "save"} => task = None
    /\ op.pc \in {"forget", "cancel", "save", "arm", "write"} => ~Clipboard!SecretOut
    /\ op.pc = "save" => op.kind = "copy"
    /\ op.pc = "end" => /\ op.kind \in {"lock", "delete"}
                        /\ ~op.failed => ~Clipboard!SecretOut
    /\ op.kind = "copy" => /\ session
                           /\ op.value \in Secrets
                           /\ op.pc \notin {"arm", "write"} => copies < MaxCopies
    /\ op.kind = "alarm" => /\ op.action \in Clipboard!Actions
                            /\ Clipboard!At(op.action, {"ask", "insist"})
                            /\ op.pc \in {"read", "compare", "erase", "forget"}

ClipboardInv ==
    /\ Clipboard!TypeOK
    /\ Clipboard!SecretIsOwned
    /\ Clipboard!LockLeavesNoSecret
    /\ op # None => OperationInv

\* Identifiers are given out once: what exists has one of the first, and the
\* operations under way have one still to come.
Given(id) == id \in 1..fresh
Outstanding == (IF change # None THEN 1 ELSE 0) + (IF recovery # None THEN 1 ELSE 0)

IdentifiersAreFresh ==
    /\ fresh + Outstanding <= ops + 1
    /\ material # None => /\ Given(material.revision)
                          /\ Given(material.generation)
                          /\ Given(material.password)
    /\ backup # None => Given(backup.revision) /\ Given(backup.generation)
    /\ \A id \in retired : Given(id)

\* A pair that was read is the stored pair for as long as its generation is.
Reader(read) ==
    /\ read.pc # "read" => read.backup # None
    /\ read.backup # None =>
           /\ Given(read.backup.revision)
           /\ Given(read.backup.generation)
           /\ backup # None /\ backup.generation = read.backup.generation =>
                  backup = read.backup
    /\ read.material # None =>
           /\ Given(read.material.revision)
           /\ Given(read.material.generation)
           /\ material # None /\ material.generation = read.material.generation =>
                  material = read.material

ReadersFollow ==
    /\ change # None => /\ Reader(change)
                        /\ change.kind \in {"password", "words"}
                        /\ change.pc # "check"
                        /\ change.pc # "read" => change.material # None
    /\ recovery # None => Reader(recovery) /\ recovery.kind = "recovery"

\* A password that a change has retired, or is about to, opens nothing: neither
\* a record nor, in the present epoch, an unlock that has read the records.
RetiredIsPast ==
    /\ material # None => material.password \notin retired
    /\ unlocking # None =>
           /\ unlocking.epoch <= epoch
           /\ change # None /\ change.kind = "password" => unlocking.epoch < epoch
           /\ unlocking.pc = "activate" /\ unlocking.epoch = epoch =>
                  unlocking.password \notin retired

AccessInv ==
    /\ Access!TypeOK
    /\ IdentifiersAreFresh
    /\ ReadersFollow
    /\ Access!KnownSecretsOpenRecords
    /\ RetiredIsPast

\* Every capture takes an operation, and its ID with it; a dismissal removes the
\* capture that was shown.
CapturingNow == job # None /\ job.kind = "capture"

CapturesAreCounted ==
    /\ ids + Cardinality(asked) + (IF CapturingNow THEN 1 ELSE 0) <= ops
    /\ \A t \in Tabs : Logins!Holds(t) => stored[t].id <= ids
    /\ popup # None => popup.id <= ids /\ (popup.pc = "inspect" => popup.id = 0)
    /\ Logins!Popup("remove") /\ Logins!Holds(popup.tab) =>
           stored[popup.tab].id = popup.id

OnlyWatched ==
    /\ asked # {} \/ CapturingNow => watch
    /\ \A t \in Tabs : Logins!Holds(t) => watch

\* A capture that has passed a check still passes it, or the cleanup that the
\* change asked for waits until the capture is stored.
CaptureInv ==
    /\ job.pc # "check" => Logins!DetectionOn \/ "detection" \in due
    /\ job.pc \notin {"check", "tab"} => job.tab \in open \union due
    /\ job.keeps => retain

\* What a cleanup at work will leave has a cleanup of its own, and a cleanup of
\* sessions or tabs marks nothing that is wanted.
WorkInv ==
    /\ job.kind # "cleanup" => job.cleanup = "detection" /\ job.pc = "work"
    /\ job.pc = "look" \/ job.cleanup # "detection" => job.todo = {"clear"}
    /\ job.cleanup \in Tabs => job.cleanup \notin open
    /\ job.pc = "work" /\ job.cleanup \in Tabs => job.drop = {job.cleanup}
    /\ job.pc = "work" /\ job.cleanup = "session" =>
           \A t \in Tabs : Logins!Holds(t) =>
               IF stored[t].ours THEN t \notin job.drop
                                 ELSE t \in job.drop \/ "session" \in due
    /\ job.pc = "work" /\ job.cleanup = "tabs" =>
           /\ job.drop \intersect open = {}
           /\ \A t \in Tabs : Logins!Holds(t) => t \in open \union job.drop \union due
    /\ job.pc = "work" /\ job.cleanup = "detection" =>
           /\ job.drop = Tabs
           /\ job.todo \subseteq IF job.kind = "forget" THEN {"clear", "retain"}
                                                       ELSE {"clear", "prefer"}
           /\ \/ "clear" \in job.todo
              \/ \A t \in Tabs : ~Logins!Holds(t)
              \/ job.kind # "forget" /\ "detection" \in uncleared

\* CapturesAreWanted, where forgetting alone is no reason to expect a cleanup:
\* when it fails, nothing says so.
ClearsDetection ==
    \/ "detection" \in due \union uncleared
    \/ /\ job # None
       /\ job.kind \in {"cleanup", "disable"}
       /\ job.cleanup = "detection"
       /\ job.pc = "look" \/ "clear" \in job.todo

Wanted(t) ==
    Logins!Holds(t) =>
        /\ stored[t].ours \/ Logins!Pending("session", t)
        /\ t \in open \/ Logins!Pending(t, t) \/ Logins!Pending("tabs", t)
        /\ Logins!DetectionOn \/ ClearsDetection
        /\ stored[t].keeps => retain

LoginsInv ==
    /\ Logins!TypeOK
    /\ CapturesAreCounted
    /\ OnlyWatched
    /\ CapturingNow => CaptureInv
    /\ job # None /\ ~CapturingNow => WorkInv
    /\ due \intersect open = {}
    /\ \A t \in Tabs : Wanted(t)

IInv == Shared /\ WebLock /\ ClipboardInv /\ AccessInv /\ LoginsInv

-----------------------------------------------------------------------------
(* The clipboard                                                             *)

\* None is no operation, no task and no handler.
LEMMA ClipboardNone ==
    /\ None \notin Clipboard!Operations
    /\ None \notin Clipboard!Tasks
    /\ None \notin Clipboard!Handlers
    /\ None \notin Secrets
    /\ Text \notin Secrets
BY NoneIsNothing

\* How a step of one holder moves the Web Lock: not at all, into its hands or
\* out of them.
Moves(before, after) ==
    \/ lockHeld' = lockHeld /\ (after <=> before)
    \/ ~lockHeld /\ lockHeld' = TRUE /\ after
    \/ before /\ lockHeld' = FALSE /\ ~after

\* The parts of TypeOK that the steps of an operation disturb.
OperationTypes ==
    /\ op \in Clipboard!Operations \union {None}
    /\ handler \in [Clipboard!Actions -> Clipboard!Handlers \union {None}]

Results == {"early", "error", "abandoned", "stale", "done"}

\* An operation that goes on is the same operation further on.
LEMMA GotoStep ==
    ASSUME op \in Clipboard!Operations, NEW pc, Clipboard!Goto(pc),
           pc \in {"read", "compare", "erase", "forget", "cancel", "save", "arm",
                   "write", "end"}
    PROVE  /\ op' \in Clipboard!Operations
           /\ op' # None
           /\ op'.pc = pc
           /\ op'.kind = op.kind /\ op'.action = op.action /\ op'.value = op.value
           /\ op'.owned = op.owned /\ op'.failed = op.failed
           /\ lockHeld' = lockHeld
           /\ handler' = handler
<1>1. op' = [op EXCEPT !.pc = pc] /\ lockHeld' = lockHeld /\ handler' = handler
  BY DEF Clipboard!Goto
<1>2. op' \in Clipboard!Operations
  BY <1>1 DEF Clipboard!Operations
<1> QED
  BY <1>1, <1>2, ClipboardNone DEF Clipboard!Operations

\* An operation that leaves gives the lock back; only the handler of its alarm
\* hears of it.
LEMMA LeaveStep ==
    ASSUME op \in Clipboard!Operations, OperationTypes, OperationInv,
           NEW result \in Results, Clipboard!Leave(result)
    PROVE  /\ op' = None
           /\ lockHeld' = FALSE
           /\ handler' \in [Clipboard!Actions -> Clipboard!Handlers \union {None}]
<1>1. op' = None /\ lockHeld' = FALSE
  BY DEF Clipboard!Leave
<1>2. CASE op.kind = "alarm"
  <2>1. /\ op.action \in Clipboard!Actions
        /\ handler[op.action] # None
    BY <1>2 DEF OperationInv, Clipboard!At
  <2>2. handler[op.action] \in Clipboard!Handlers
    BY <2>1 DEF OperationTypes
  <2>3. [handler[op.action] EXCEPT !.pc = result] \in Clipboard!Handlers
    BY <2>2 DEF Clipboard!Handlers, Results
  <2>4. handler' = [handler EXCEPT ![op.action] = [handler[op.action] EXCEPT !.pc = result]]
    BY <1>2 DEF Clipboard!Leave
  <2> QED
    BY <1>1, <2>1, <2>3, <2>4 DEF OperationTypes
<1>3. CASE op.kind # "alarm"
  BY <1>1, <1>3 DEF Clipboard!Leave, OperationTypes
<1> QED
  BY <1>2, <1>3

\* A step that throws ends the operation, or sends a cleanup to its end with
\* the error.
LEMMA ThrowStep ==
    ASSUME op \in Clipboard!Operations, OperationTypes, OperationInv,
           Clipboard!Throw
    PROVE  /\ handler' \in [Clipboard!Actions -> Clipboard!Handlers \union {None}]
           /\ \/ op' = None /\ lockHeld' = FALSE
              \/ /\ op.kind \in {"lock", "delete"}
                 /\ op' \in Clipboard!Operations
                 /\ op' # None
                 /\ op'.kind = op.kind /\ op'.pc = "end" /\ op'.failed
                 /\ lockHeld' = lockHeld
                 /\ handler' = handler
<1>1. CASE op.kind \in {"lock", "delete"}
  <2>1. /\ op' = [op EXCEPT !.pc = "end", !.failed = TRUE]
        /\ lockHeld' = lockHeld /\ handler' = handler
    BY <1>1 DEF Clipboard!Throw
  <2>2. op' \in Clipboard!Operations
    BY <2>1 DEF Clipboard!Operations
  <2>3. op'.kind = op.kind /\ op'.pc = "end" /\ op'.failed
    BY <2>1 DEF Clipboard!Operations
  <2> QED
    BY <1>1, <2>1, <2>2, <2>3, ClipboardNone DEF OperationTypes
<1>2. CASE op.kind \notin {"lock", "delete"}
  <2>1. \E result \in Results : Clipboard!Leave(result)
    BY <1>2 DEF Clipboard!Throw, Results
  <2> QED
    BY <2>1, LeaveStep
<1> QED
  BY <1>1, <1>2

\* What every step of the clipboard and the captured logins leaves alone or
\* keeps in its bounds.
Steady ==
    /\ session' = session
    /\ ops' \in ops..MaxOps
    /\ faults' \in 0..MaxFaults

\* What a step of the clipboard keeps.
ClipboardKept == ClipboardInv' /\ Moves(op # None, op' # None) /\ Steady

USE DEF Clipboard!Works, Clipboard!Fails, Clipboard!SecretOut

\* TypeOK without what belongs to an operation.
RestTypes ==
    /\ clipboard \in Clipboard!Texts
    /\ stray \in BOOLEAN
    /\ late \subseteq Secrets \union {None}
    /\ task \in Clipboard!Tasks \union {None}
    /\ copies \in 0..MaxCopies
    /\ expired \subseteq Clipboard!Actions
    /\ alarms \subseteq Clipboard!Actions
    /\ spent \subseteq Clipboard!Actions
    /\ lockedClean \in BOOLEAN

\* The clipboard with its owner, whatever the operation does.
RestInv == RestTypes /\ Clipboard!SecretIsOwned /\ Clipboard!LockLeavesNoSecret

\* What is known of an operation under way.
LEMMA OperationFacts ==
    ASSUME ClipboardInv
    PROVE  /\ RestInv
           /\ OperationTypes
           /\ op # None => op \in Clipboard!Operations /\ OperationInv
BY DEF ClipboardInv, RestInv, RestTypes, Clipboard!TypeOK, OperationTypes

\* An operation that ends, or a cleanup that throws, and leaves the clipboard
\* with its owner, keeps the invariant.
LEMMA EndKeeps ==
    ASSUME Shared, WebLock, ClipboardInv, op # None, Steady, RestInv',
           Clipboard!Throw \/ \E result \in Results : Clipboard!Leave(result)
    PROVE  ClipboardKept
<1>1. op \in Clipboard!Operations /\ OperationTypes /\ OperationInv
  BY OperationFacts
<1>2. lockHeld
  BY DEF WebLock
<1>3. /\ handler' \in [Clipboard!Actions -> Clipboard!Handlers \union {None}]
      /\ \/ op' = None /\ lockHeld' = FALSE
         \/ /\ op.kind \in {"lock", "delete"}
            /\ op' \in Clipboard!Operations
            /\ op' # None
            /\ op'.kind = op.kind /\ op'.pc = "end" /\ op'.failed
            /\ lockHeld' = lockHeld
  BY <1>1, LeaveStep, ThrowStep
<1>4. Clipboard!TypeOK'
  BY <1>2, <1>3 DEF RestInv, RestTypes, Clipboard!TypeOK
<1>5. op' # None => OperationInv'
  BY <1>3 DEF OperationInv
<1> QED
  BY <1>2, <1>3, <1>4, <1>5 DEF ClipboardKept, ClipboardInv, Moves, RestInv

\* An operation that goes on keeps the invariant when it has established what
\* its next step needs.
LEMMA GoOnKeeps ==
    ASSUME Shared, WebLock, ClipboardInv, op # None, Steady, RestInv',
           op' \in Clipboard!Operations, OperationInv',
           UNCHANGED <<lockHeld, handler>>
    PROVE  ClipboardKept
<1>1. lockHeld /\ op' # None
  BY ClipboardNone DEF WebLock
<1>2. Clipboard!TypeOK'
  BY <1>1 DEF RestInv, RestTypes, ClipboardInv, Clipboard!TypeOK
<1> QED
  BY <1>1, <1>2 DEF ClipboardKept, ClipboardInv, Moves, RestInv

LEMMA ReadTaskKeeps ==
    ASSUME Shared, WebLock, ClipboardInv, Clipboard!ReadTask
    PROVE  ClipboardKept
<1>1. op # None /\ op.pc = "read"
  BY DEF Clipboard!ReadTask
<1>2. op \in Clipboard!Operations /\ OperationInv /\ RestInv
  BY <1>1, OperationFacts
<1>3. Steady
  BY BoundsAssumption DEF Clipboard!ReadTask, Shared, Steady
<1>4. UNCHANGED <<session, ops, clipboard, stray, late, task, copies, expired, alarms,
                  spent, lockedClean>>
  BY DEF Clipboard!ReadTask
<1>5. RestInv'
  BY <1>2, <1>4 DEF RestInv, RestTypes, Clipboard!SecretIsOwned, Clipboard!LockLeavesNoSecret
<1>6. CASE task = None /\ op.kind # "alarm" /\ Clipboard!Goto(Clipboard!AfterClear)
  <2>1. Clipboard!AfterClear \in {"save", "end"}
        /\ (Clipboard!AfterClear = "save" <=> op.kind = "copy")
    BY DEF Clipboard!AfterClear
  <2>2. /\ op' \in Clipboard!Operations
        /\ op'.pc = Clipboard!AfterClear
        /\ op'.kind = op.kind /\ op'.action = op.action /\ op'.value = op.value
        /\ op'.owned = op.owned /\ op'.failed = op.failed
        /\ lockHeld' = lockHeld
        /\ handler' = handler
    BY <1>2, <1>6, <2>1, GotoStep, Zenon
  <2>3. ~Clipboard!SecretOut
    BY <1>2, <1>6, ClipboardNone DEF RestInv, Clipboard!SecretIsOwned
  <2>4. op.kind \in {"copy", "lock", "delete"}
    BY <1>2, <1>6 DEF Clipboard!Operations
  <2>5. OperationInv'
    BY <1>1, <1>2, <1>4, <1>6, <2>1, <2>2, <2>3, <2>4 DEF OperationInv
  <2> QED
    BY <1>1, <1>3, <1>5, <2>2, <2>5, GoOnKeeps
<1>7. CASE /\ task # None
           /\ op.kind = "alarm" => task.action = op.action
           /\ op' = [op EXCEPT !.pc = "compare", !.owned = task]
           /\ UNCHANGED <<lockHeld, handler>>
  <2>1. task \in Clipboard!Tasks
    BY <1>2, <1>7 DEF RestInv, RestTypes
  <2>2. op' \in Clipboard!Operations
    BY <1>2, <1>7, <2>1 DEF Clipboard!Operations
  <2>3. /\ op'.pc = "compare"
        /\ op'.kind = op.kind /\ op'.action = op.action /\ op'.value = op.value
        /\ op'.owned = task /\ op'.failed = op.failed
    BY <1>2, <1>7 DEF Clipboard!Operations
  <2>4. OperationInv'
    BY <1>1, <1>2, <1>4, <1>7, <2>3 DEF OperationInv, Clipboard!At
  <2> QED
    BY <1>1, <1>3, <1>5, <1>7, <2>2, <2>4, GoOnKeeps
<1>8. CASE Clipboard!Throw \/ \E result \in Results : Clipboard!Leave(result)
  BY <1>1, <1>3, <1>5, <1>8, EndKeeps
<1> QED
  BY <1>1, <1>6, <1>7, <1>8 DEF Clipboard!ReadTask, Results

LEMMA CompareClipboardKeeps ==
    ASSUME Shared, WebLock, ClipboardInv, Clipboard!CompareClipboard
    PROVE  ClipboardKept
<1>1. op # None /\ op.pc = "compare"
  BY DEF Clipboard!CompareClipboard
<1>2. op \in Clipboard!Operations /\ OperationInv /\ RestInv
  BY <1>1, OperationFacts
<1>3. Steady
  BY BoundsAssumption DEF Clipboard!CompareClipboard, Shared, Steady
<1>4. UNCHANGED <<session, ops, clipboard, stray, late, task, copies, expired, alarms,
                  spent, lockedClean>>
  BY DEF Clipboard!CompareClipboard
<1>5. RestInv'
  BY <1>2, <1>4 DEF RestInv, RestTypes, Clipboard!SecretIsOwned, Clipboard!LockLeavesNoSecret
<1>6. CASE Clipboard!Goto(IF clipboard = op.owned.value THEN "erase" ELSE "forget")
  <2> DEFINE pc == IF clipboard = op.owned.value THEN "erase" ELSE "forget"
  <2>1. /\ op' \in Clipboard!Operations
        /\ op'.pc = pc
        /\ op'.kind = op.kind /\ op'.action = op.action /\ op'.value = op.value
        /\ op'.owned = op.owned /\ op'.failed = op.failed
        /\ lockHeld' = lockHeld
        /\ handler' = handler
    BY <1>2, <1>6, GotoStep
  <2>2. op.owned # None /\ task = op.owned
    BY <1>1, <1>2 DEF OperationInv
  <2>3. pc = "forget" => ~Clipboard!SecretOut
    BY <1>2, <2>2 DEF RestInv, Clipboard!SecretIsOwned
  <2>4. OperationInv'
    BY <1>1, <1>2, <1>4, <2>1, <2>2, <2>3 DEF OperationInv, Clipboard!At
  <2> QED
    BY <1>1, <1>3, <1>5, <2>1, <2>4, GoOnKeeps
<1>7. CASE Clipboard!Throw
  BY <1>1, <1>3, <1>5, <1>7, EndKeeps
<1> QED
  BY <1>6, <1>7 DEF Clipboard!CompareClipboard

LEMMA EraseKeeps ==
    ASSUME Shared, WebLock, ClipboardInv, Clipboard!Erase
    PROVE  ClipboardKept
<1>1. op # None /\ op.pc = "erase"
  BY DEF Clipboard!Erase
<1>2. op \in Clipboard!Operations /\ OperationInv /\ RestInv
  BY <1>1, OperationFacts
<1>3. Steady
  BY BoundsAssumption DEF Clipboard!Erase, Shared, Steady
<1>4. /\ UNCHANGED <<session, late, task, copies, expired, alarms, spent, lockedClean>>
      /\ (clipboard' = None /\ stray' = FALSE) \/ UNCHANGED <<clipboard, stray>>
  BY DEF Clipboard!Erase, Clipboard!Lands, Clipboard!NeverLands
<1>5. RestInv'
  BY <1>2, <1>4, ClipboardNone
  DEF RestInv, RestTypes, Clipboard!SecretIsOwned, Clipboard!LockLeavesNoSecret,
      Clipboard!Texts
<1>6. CASE Clipboard!Lands(None) /\ Clipboard!Goto("forget")
  <2>1. /\ op' \in Clipboard!Operations
        /\ op'.pc = "forget"
        /\ op'.kind = op.kind /\ op'.action = op.action /\ op'.value = op.value
        /\ op'.owned = op.owned /\ op'.failed = op.failed
        /\ lockHeld' = lockHeld
        /\ handler' = handler
    BY <1>2, <1>6, GotoStep
  <2>2. ~Clipboard!SecretOut'
    BY <1>6, ClipboardNone DEF Clipboard!Lands
  <2>3. OperationInv'
    BY <1>1, <1>2, <1>4, <2>1, <2>2 DEF OperationInv, Clipboard!At
  <2> QED
    BY <1>1, <1>3, <1>5, <2>1, <2>3, GoOnKeeps
<1>7. CASE Clipboard!Throw
  BY <1>1, <1>3, <1>5, <1>7, EndKeeps
<1> QED
  BY <1>6, <1>7 DEF Clipboard!Erase

LEMMA ForgetKeeps ==
    ASSUME Shared, WebLock, ClipboardInv, Clipboard!Forget
    PROVE  ClipboardKept
<1>1. op # None /\ op.pc = "forget"
  BY DEF Clipboard!Forget
<1>2. op \in Clipboard!Operations /\ OperationInv /\ RestInv
  BY <1>1, OperationFacts
<1>3. Steady
  BY BoundsAssumption DEF Clipboard!Forget, Shared, Steady
<1>4. /\ UNCHANGED <<session, clipboard, stray, late, copies, expired, alarms, spent,
                     lockedClean>>
      /\ task' \in {None, task}
  BY DEF Clipboard!Forget
<1>5. ~Clipboard!SecretOut
  BY <1>1, <1>2 DEF OperationInv
<1>6. RestInv'
  BY <1>2, <1>4, <1>5
  DEF RestInv, RestTypes, Clipboard!SecretIsOwned, Clipboard!LockLeavesNoSecret
<1>7. CASE task' = None /\ op.kind # "alarm" /\ Clipboard!Goto("cancel")
  <2>1. /\ op' \in Clipboard!Operations
        /\ op'.pc = "cancel"
        /\ op'.kind = op.kind /\ op'.action = op.action /\ op'.value = op.value
        /\ op'.owned = op.owned /\ op'.failed = op.failed
        /\ lockHeld' = lockHeld
        /\ handler' = handler
    BY <1>2, <1>7, GotoStep
  <2>2. OperationInv'
    BY <1>1, <1>2, <1>4, <1>5, <1>7, <2>1 DEF OperationInv
  <2> QED
    BY <1>1, <1>3, <1>6, <2>1, <2>2, GoOnKeeps
<1>8. CASE Clipboard!Throw \/ Clipboard!Leave("done")
  BY <1>1, <1>3, <1>6, <1>8, EndKeeps DEF Results
<1> QED
  BY <1>7, <1>8 DEF Clipboard!Forget

LEMMA CancelAlarmKeeps ==
    ASSUME Shared, WebLock, ClipboardInv, Clipboard!CancelAlarm
    PROVE  ClipboardKept
<1>1. op # None /\ op.pc = "cancel"
  BY DEF Clipboard!CancelAlarm
<1>2. op \in Clipboard!Operations /\ OperationInv /\ RestInv
  BY <1>1, OperationFacts
<1>3. Steady
  BY BoundsAssumption DEF Clipboard!CancelAlarm, Shared, Steady
<1>4. /\ UNCHANGED <<session, clipboard, stray, late, task, copies, expired, spent,
                     lockedClean>>
      /\ alarms' \subseteq alarms
  BY DEF Clipboard!CancelAlarm
<1>5. RestInv'
  BY <1>2, <1>4 DEF RestInv, RestTypes, Clipboard!SecretIsOwned, Clipboard!LockLeavesNoSecret
<1>6. CASE Clipboard!Goto(Clipboard!AfterClear)
  <2>1. Clipboard!AfterClear \in {"save", "end"}
        /\ (Clipboard!AfterClear = "save" <=> op.kind = "copy")
    BY DEF Clipboard!AfterClear
  <2>2. /\ op' \in Clipboard!Operations
        /\ op'.pc = Clipboard!AfterClear
        /\ op'.kind = op.kind /\ op'.action = op.action /\ op'.value = op.value
        /\ op'.owned = op.owned /\ op'.failed = op.failed
        /\ lockHeld' = lockHeld
        /\ handler' = handler
    BY <1>2, <1>6, <2>1, GotoStep, Zenon
  <2>3. ~Clipboard!SecretOut /\ task = None
    BY <1>1, <1>2 DEF OperationInv
  <2>4. op.kind \in {"copy", "lock", "delete"}
    BY <1>1, <1>2 DEF Clipboard!Operations, OperationInv
  <2>5. OperationInv'
    BY <1>1, <1>2, <1>4, <2>1, <2>2, <2>3, <2>4 DEF OperationInv
  <2> QED
    BY <1>1, <1>3, <1>5, <2>2, <2>5, GoOnKeeps
<1>7. CASE Clipboard!Throw
  BY <1>1, <1>3, <1>5, <1>7, EndKeeps
<1> QED
  BY <1>6, <1>7 DEF Clipboard!CancelAlarm

LEMMA SaveTaskKeeps ==
    ASSUME Shared, WebLock, ClipboardInv, Clipboard!SaveTask
    PROVE  ClipboardKept
<1>1. op # None /\ op.pc = "save"
  BY DEF Clipboard!SaveTask
<1>2. op \in Clipboard!Operations /\ OperationInv /\ RestInv
  BY <1>1, OperationFacts
<1>3. Steady
  BY BoundsAssumption DEF Clipboard!SaveTask, Shared, Steady
<1>4. UNCHANGED <<session, clipboard, stray, late, expired, alarms, spent, lockedClean>>
  BY DEF Clipboard!SaveTask
<1>5. /\ ~Clipboard!SecretOut
      /\ op.kind = "copy" /\ op.value \in Secrets /\ session
      /\ copies < MaxCopies
  BY <1>1, <1>2 DEF OperationInv
<1>6. CASE /\ copies' = copies + 1
           /\ task' = [action |-> copies + 1, value |-> op.value]
           /\ op' = [op EXCEPT !.pc = "arm", !.action = copies + 1]
           /\ UNCHANGED <<lockHeld, handler>>
  <2>1. copies + 1 \in Clipboard!Actions /\ copies' \in 0..MaxCopies
    BY <1>2, <1>5, <1>6, BoundsAssumption DEF RestInv, RestTypes, Clipboard!Actions
  <2>2. task' \in Clipboard!Tasks
    BY <1>5, <1>6, <2>1 DEF Clipboard!Tasks
  <2>3. RestInv'
    BY <1>2, <1>4, <1>5, <1>6, <2>1, <2>2
    DEF RestInv, RestTypes, Clipboard!SecretIsOwned, Clipboard!LockLeavesNoSecret
  <2>4. op' \in Clipboard!Operations
    BY <1>2, <1>6, <2>1 DEF Clipboard!Operations
  <2>5. /\ op'.pc = "arm" /\ op'.kind = "copy"
        /\ op'.action = copies + 1 /\ op'.value = op.value
    BY <1>2, <1>5, <1>6 DEF Clipboard!Operations
  <2>6. OperationInv'
    BY <1>4, <1>5, <1>6, <2>1, <2>5 DEF OperationInv
  <2> QED
    BY <1>1, <1>3, <1>6, <2>3, <2>4, <2>6, GoOnKeeps
<1>7. CASE Clipboard!Throw /\ UNCHANGED <<copies, task>>
  <2>1. RestInv'
    BY <1>2, <1>4, <1>7
    DEF RestInv, RestTypes, Clipboard!SecretIsOwned, Clipboard!LockLeavesNoSecret
  <2> QED
    BY <1>1, <1>3, <1>7, <2>1, EndKeeps
<1> QED
  BY <1>6, <1>7 DEF Clipboard!SaveTask

LEMMA ArmAlarmKeeps ==
    ASSUME Shared, WebLock, ClipboardInv, Clipboard!ArmAlarm
    PROVE  ClipboardKept
<1>1. op # None /\ op.pc = "arm"
  BY DEF Clipboard!ArmAlarm
<1>2. op \in Clipboard!Operations /\ OperationInv /\ RestInv
  BY <1>1, OperationFacts
<1>3. Steady
  BY BoundsAssumption DEF Clipboard!ArmAlarm, Shared, Steady
<1>4. /\ UNCHANGED <<session, clipboard, stray, late, copies, expired, spent,
                     lockedClean>>
      /\ task' \in {None, task}
      /\ alarms' \in {alarms, alarms \union {op.action}}
  BY DEF Clipboard!ArmAlarm
<1>5. /\ ~Clipboard!SecretOut
      /\ op.action \in Clipboard!Actions
  BY <1>1, <1>2 DEF OperationInv
<1>6. RestInv'
  BY <1>2, <1>4, <1>5
  DEF RestInv, RestTypes, Clipboard!SecretIsOwned, Clipboard!LockLeavesNoSecret
<1>7. CASE Clipboard!Goto("write") /\ UNCHANGED task
  <2>1. /\ op' \in Clipboard!Operations
        /\ op'.pc = "write"
        /\ op'.kind = op.kind /\ op'.action = op.action /\ op'.value = op.value
        /\ op'.owned = op.owned /\ op'.failed = op.failed
        /\ lockHeld' = lockHeld
        /\ handler' = handler
    BY <1>2, <1>7, GotoStep
  <2>2. OperationInv'
    BY <1>1, <1>2, <1>4, <1>5, <1>7, <2>1 DEF OperationInv
  <2> QED
    BY <1>1, <1>3, <1>6, <2>1, <2>2, GoOnKeeps
<1>8. CASE Clipboard!Throw
  BY <1>1, <1>3, <1>6, <1>8, EndKeeps
<1> QED
  BY <1>7, <1>8 DEF Clipboard!ArmAlarm

LEMMA WriteSecretKeeps ==
    ASSUME Shared, WebLock, ClipboardInv, Clipboard!WriteSecret
    PROVE  ClipboardKept
<1>1. op # None /\ op.pc = "write"
  BY DEF Clipboard!WriteSecret
<1>2. op \in Clipboard!Operations /\ OperationInv /\ RestInv
  BY <1>1, OperationFacts
<1>3. Steady
  BY BoundsAssumption DEF Clipboard!WriteSecret, Shared, Steady
<1>4. /\ UNCHANGED <<session, late, task, copies, expired, alarms, spent, lockedClean>>
      /\ (clipboard' = op.value /\ stray' = FALSE) \/ UNCHANGED <<clipboard, stray>>
  BY DEF Clipboard!WriteSecret, Clipboard!Lands, Clipboard!NeverLands
<1>5. /\ op.value \in Secrets /\ session
      /\ task = [action |-> op.action, value |-> op.value]
      /\ op.action \in Clipboard!Actions
  BY <1>1, <1>2 DEF OperationInv
<1>6. task # None /\ task.value = op.value
  BY <1>5, ClipboardNone DEF Clipboard!Tasks
<1>7. RestInv'
  BY <1>2, <1>4, <1>5, <1>6
  DEF RestInv, RestTypes, Clipboard!SecretIsOwned, Clipboard!LockLeavesNoSecret,
      Clipboard!Texts
<1> QED
  BY <1>1, <1>3, <1>7, EndKeeps DEF Clipboard!WriteSecret, Results

LEMMA OperationStepKeeps ==
    ASSUME Shared, WebLock, ClipboardInv, Clipboard!OperationSteps
    PROVE  ClipboardKept
BY ReadTaskKeeps, CompareClipboardKeeps, EraseKeeps, ForgetKeeps, CancelAlarmKeeps,
   SaveTaskKeeps, ArmAlarmKeeps, WriteSecretKeeps
DEF Clipboard!OperationSteps

\* An operation that begins knows nothing yet.
LEMMA EnterKeeps ==
    ASSUME Shared, WebLock, ClipboardInv, Steady,
           NEW kind \in {"copy", "lock", "delete", "alarm"},
           NEW action \in Clipboard!Actions \union {0},
           NEW value \in Secrets \union {None},
           NEW strict \in BOOLEAN,
           Clipboard!Enter(kind, action, value, strict),
           kind = "copy" => session /\ value \in Secrets /\ copies < MaxCopies,
           kind = "alarm" => action \in Clipboard!Actions
                             /\ Clipboard!At(action, {"ask", "insist"}),
           UNCHANGED <<clipboard, stray, late, task, copies, expired, alarms, handler,
                       spent, lockedClean>>
    PROVE  ClipboardKept
<1>1. RestInv /\ OperationTypes
  BY OperationFacts
<1>2. RestInv'
  BY <1>1
  DEF RestInv, RestTypes, Steady, Clipboard!SecretIsOwned, Clipboard!LockLeavesNoSecret
<1>3. /\ ~lockHeld /\ lockHeld'
      /\ op' = [kind |-> kind, pc |-> "read", action |-> action, value |-> value,
                owned |-> None, strict |-> strict, failed |-> FALSE]
  BY DEF Clipboard!Enter
<1>4. op' \in Clipboard!Operations
  BY <1>3 DEF Clipboard!Operations
<1>5. op' # None
  BY <1>4, ClipboardNone
<1>6. OperationInv'
  BY <1>3 DEF OperationInv, Clipboard!At, Steady
<1>7. Clipboard!TypeOK'
  BY <1>1, <1>2, <1>3, <1>4 DEF RestInv, RestTypes, OperationTypes, Clipboard!TypeOK
<1> QED
  BY <1>2, <1>3, <1>5, <1>6, <1>7 DEF ClipboardKept, ClipboardInv, Moves, RestInv

LEMMA BeginsKeep ==
    ASSUME Shared, WebLock, ClipboardInv,
           \/ \E s \in Secrets : Clipboard!BeginCopy(s)
           \/ \E kind \in {"lock", "delete"} : Clipboard!BeginCleanup(kind)
    PROVE  ClipboardKept
<1>1. ASSUME NEW s \in Secrets, Clipboard!BeginCopy(s)
      PROVE  ClipboardKept
  <2>1. Steady
    BY <1>1, BoundsAssumption DEF Clipboard!BeginCopy, Shared, Steady
  <2>2. Clipboard!Enter("copy", 0, s, FALSE)
    BY <1>1 DEF Clipboard!BeginCopy
  <2>3. session /\ copies < MaxCopies
        /\ UNCHANGED <<clipboard, stray, late, task, copies, expired, alarms, handler,
                       spent, lockedClean>>
    BY <1>1 DEF Clipboard!BeginCopy
  <2> QED
    BY <2>1, <2>2, <2>3, EnterKeeps
<1>2. ASSUME NEW kind \in {"lock", "delete"}, Clipboard!BeginCleanup(kind)
      PROVE  ClipboardKept
  <2>1. Steady
    BY <1>2, BoundsAssumption DEF Clipboard!BeginCleanup, Shared, Steady
  <2>2. Clipboard!Enter(kind, 0, None, FALSE)
    BY <1>2 DEF Clipboard!BeginCleanup
  <2>3. UNCHANGED <<clipboard, stray, late, task, copies, expired, alarms, handler,
                    spent, lockedClean>>
    BY <1>2 DEF Clipboard!BeginCleanup
  <2> QED
    BY <2>1, <2>2, <2>3, EnterKeeps
<1> QED
  BY <1>1, <1>2

\* A handler that is not waiting for its clear moves without the operation
\* that holds the lock.
LEMMA HandlerMoveKeeps ==
    ASSUME Shared, WebLock, ClipboardInv, Steady,
           NEW a \in Clipboard!Actions,
           ~Clipboard!At(a, {"ask", "insist"}),
           NEW h \in Clipboard!Handlers \union {None},
           handler' = [handler EXCEPT ![a] = h],
           alarms' \subseteq alarms \union {a},
           spent' \subseteq spent \union {a},
           UNCHANGED <<lockHeld, clipboard, stray, late, task, copies, expired, op,
                       lockedClean>>
    PROVE  ClipboardKept
<1>1. RestInv /\ OperationTypes /\ (op # None => OperationInv)
  BY OperationFacts
<1>2. RestInv'
  BY <1>1
  DEF RestInv, RestTypes, Steady, Clipboard!SecretIsOwned, Clipboard!LockLeavesNoSecret
<1>3. handler' \in [Clipboard!Actions -> Clipboard!Handlers \union {None}]
  BY <1>1 DEF OperationTypes
<1>4. \A b \in Clipboard!Actions : b # a => handler'[b] = handler[b]
  BY <1>1 DEF OperationTypes
<1>5. ASSUME op # None
      PROVE  OperationInv'
  <2>1. OperationInv
    BY <1>1, <1>5
  <2>2. op.kind = "alarm" => /\ op.action \in Clipboard!Actions
                             /\ Clipboard!At(op.action, {"ask", "insist"})'
    BY <1>4, <2>1 DEF OperationInv, Clipboard!At
  <2> QED
    BY <2>1, <2>2 DEF OperationInv, Steady
<1>6. Clipboard!TypeOK'
  BY <1>2, <1>3 DEF RestInv, RestTypes, ClipboardInv, Clipboard!TypeOK
<1> QED
  BY <1>2, <1>5, <1>6 DEF ClipboardKept, ClipboardInv, Moves, RestInv

LEMMA HandlerStepKeeps ==
    ASSUME Shared, WebLock, ClipboardInv,
           NEW a \in Clipboard!Actions, Clipboard!HandlerSteps(a)
    PROVE  ClipboardKept
<1>1. /\ handler \in [Clipboard!Actions -> Clipboard!Handlers \union {None}]
      /\ handler[a] # None
      /\ handler[a] \in Clipboard!Handlers
  BY DEF ClipboardInv, Clipboard!TypeOK, Clipboard!HandlerSteps, Clipboard!HandlerReads,
         Clipboard!HandlerArmsRetry, Clipboard!HandlerClears, Clipboard!HandlerRearms,
         Clipboard!HandlerEnds, Clipboard!KeepsRetry, Clipboard!DropsRetry,
         Clipboard!HasNoRetry, Clipboard!At
<1>2. ASSUME NEW pc \in {"owns", "ask", "insist", "abandoned"}
      PROVE  /\ [handler[a] EXCEPT !.pc = pc] \in Clipboard!Handlers
             /\ [handler EXCEPT ![a].pc = pc]
                    = [handler EXCEPT ![a] = [handler[a] EXCEPT !.pc = pc]]
  BY <1>1 DEF Clipboard!Handlers
<1>3. CASE Clipboard!HandlerReads(a)
  <2>1. Steady
    BY <1>3, BoundsAssumption DEF Clipboard!HandlerReads, Shared, Steady
  <2>2. ~Clipboard!At(a, {"ask", "insist"})
    BY <1>3 DEF Clipboard!HandlerReads, Clipboard!At
  <2>3. \E h \in Clipboard!Handlers \union {None} : handler' = [handler EXCEPT ![a] = h]
    BY <1>2, <1>3 DEF Clipboard!HandlerReads, Clipboard!Stop
  <2>4. /\ alarms' = alarms
        /\ spent' \subseteq spent \union {a}
        /\ UNCHANGED <<lockHeld, clipboard, stray, late, task, copies, expired, op,
                       lockedClean>>
    BY <1>3 DEF Clipboard!HandlerReads, Clipboard!Lose
  <2> QED
    BY <2>1, <2>2, <2>3, <2>4, HandlerMoveKeeps
<1>4. CASE Clipboard!HandlerArmsRetry(a)
  <2>1. Steady
    BY <1>4, BoundsAssumption DEF Clipboard!HandlerArmsRetry, Shared, Steady
  <2>2. ~Clipboard!At(a, {"ask", "insist"})
    BY <1>4 DEF Clipboard!HandlerArmsRetry, Clipboard!At
  <2>3. [pc |-> "ask", armed |-> TRUE] \in Clipboard!Handlers
    BY DEF Clipboard!Handlers
  <2>4. \E h \in Clipboard!Handlers \union {None} : handler' = [handler EXCEPT ![a] = h]
    BY <1>2, <1>4, <2>3 DEF Clipboard!HandlerArmsRetry
  <2>5. /\ alarms' \subseteq alarms \union {a}
        /\ spent' = spent
        /\ UNCHANGED <<lockHeld, clipboard, stray, late, task, copies, expired, op,
                       lockedClean>>
    BY <1>4 DEF Clipboard!HandlerArmsRetry
  <2> QED
    BY <2>1, <2>2, <2>4, <2>5, HandlerMoveKeeps
<1>5. CASE Clipboard!HandlerClears(a)
  <2>1. Steady
    BY <1>5, BoundsAssumption DEF Clipboard!HandlerClears, Shared, Steady
  <2>2. /\ Clipboard!At(a, {"ask", "insist"})
        /\ Clipboard!Enter("alarm", a, None, handler[a].pc = "ask")
        /\ UNCHANGED <<clipboard, stray, late, task, copies, expired, alarms, handler,
                       spent, lockedClean>>
    BY <1>5 DEF Clipboard!HandlerClears
  <2>3. (handler[a].pc = "ask") \in BOOLEAN
    OBVIOUS
  <2> QED
    BY <2>1, <2>2, <2>3, EnterKeeps
<1>6. CASE Clipboard!HandlerRearms(a)
  <2>1. Steady
    BY <1>6, BoundsAssumption DEF Clipboard!HandlerRearms, Shared, Steady
  <2>2. ~Clipboard!At(a, {"ask", "insist"})
    BY <1>6 DEF Clipboard!HandlerRearms, Clipboard!At
  <2> DEFINE pc == IF handler[a].pc = "early" THEN "insist" ELSE "abandoned"
  <2>3. pc \in {"owns", "ask", "insist", "abandoned"}
    OBVIOUS
  <2>4. [handler EXCEPT ![a].pc = IF @ = "early" THEN "insist" ELSE "abandoned"]
            = [handler EXCEPT ![a] = [handler[a] EXCEPT !.pc = pc]]
    BY <1>1
  <2>5. \E h \in Clipboard!Handlers \union {None} : handler' = [handler EXCEPT ![a] = h]
    BY <1>2, <1>6, <2>3, <2>4 DEF Clipboard!HandlerRearms, Clipboard!Stop
  <2>6. /\ alarms' \subseteq alarms \union {a}
        /\ spent' = spent
        /\ UNCHANGED <<lockHeld, clipboard, stray, late, task, copies, expired, op,
                       lockedClean>>
    BY <1>6 DEF Clipboard!HandlerRearms
  <2> QED
    BY <2>1, <2>2, <2>5, <2>6, HandlerMoveKeeps
<1>7. CASE Clipboard!HandlerEnds(a)
  <2>1. Steady
    BY <1>7, BoundsAssumption DEF Clipboard!HandlerEnds, Shared, Steady
  <2>2. ~Clipboard!At(a, {"ask", "insist"})
    BY <1>7 DEF Clipboard!HandlerEnds, Clipboard!KeepsRetry, Clipboard!DropsRetry,
                Clipboard!HasNoRetry, Clipboard!At
  <2>3. handler' = [handler EXCEPT ![a] = None]
    BY <1>7 DEF Clipboard!HandlerEnds, Clipboard!Stop
  <2>4. /\ alarms' \subseteq alarms
        /\ spent' \subseteq spent \union {a}
        /\ UNCHANGED <<lockHeld, clipboard, stray, late, task, copies, expired, op,
                       lockedClean>>
    BY <1>7 DEF Clipboard!HandlerEnds
  <2> QED
    BY <2>1, <2>2, <2>3, <2>4, HandlerMoveKeeps
<1> QED
  BY <1>3, <1>4, <1>5, <1>6, <1>7 DEF Clipboard!HandlerSteps

LEMMA AlarmKeeps ==
    ASSUME Shared, WebLock, ClipboardInv, NEW a \in Clipboard!Actions,
           Clipboard!Expire(a) \/ Clipboard!Fire(a)
    PROVE  ClipboardKept
<1>1. RestInv /\ OperationTypes /\ (op # None => OperationInv)
  BY OperationFacts
<1>2. CASE Clipboard!Expire(a)
  <2>1. Steady
    BY <1>2, BoundsAssumption DEF Clipboard!Expire, Shared, Steady
  <2>2. /\ expired' \subseteq Clipboard!Actions
        /\ UNCHANGED <<lockHeld, session, clipboard, stray, late, task, copies, alarms,
                       handler, op, spent, lockedClean>>
    BY <1>1, <1>2 DEF Clipboard!Expire, RestInv, RestTypes
  <2>3. RestInv'
    BY <1>1, <2>2
    DEF RestInv, RestTypes, Clipboard!SecretIsOwned, Clipboard!LockLeavesNoSecret
  <2>4. op # None => OperationInv'
    BY <1>1, <2>2 DEF OperationInv, Clipboard!At
  <2>5. Clipboard!TypeOK'
    BY <2>2, <2>3 DEF RestInv, RestTypes, ClipboardInv, Clipboard!TypeOK
  <2> QED
    BY <2>1, <2>2, <2>3, <2>4, <2>5 DEF ClipboardKept, ClipboardInv, Moves, RestInv
<1>3. CASE Clipboard!Fire(a)
  <2>1. Steady
    BY <1>3, BoundsAssumption DEF Clipboard!Fire, Shared, Steady
  <2>2. ~Clipboard!At(a, {"ask", "insist"})
    BY <1>3 DEF Clipboard!Fire, Clipboard!At
  <2>3. [pc |-> "fired", armed |-> FALSE] \in Clipboard!Handlers
    BY DEF Clipboard!Handlers
  <2>4. /\ handler' = [handler EXCEPT ![a] = [pc |-> "fired", armed |-> FALSE]]
        /\ alarms' \subseteq alarms
        /\ UNCHANGED <<lockHeld, clipboard, stray, late, task, copies, expired, op,
                       spent, lockedClean>>
    BY <1>3 DEF Clipboard!Fire
  <2> QED
    BY <2>1, <2>2, <2>3, <2>4, HandlerMoveKeeps
<1> QED
  BY <1>2, <1>3

\* A death leaves the task, and at most a late write of the value that it owns.
LEMMA DeathsKeepClipboard ==
    ASSUME Shared, WebLock, ClipboardInv, Clipboard!PageDies \/ Clipboard!WorkerDies
    PROVE  ClipboardKept
<1>1. RestInv /\ OperationTypes
      /\ (op # None => op \in Clipboard!Operations /\ OperationInv)
  BY OperationFacts
<1>2. Steady
  BY BoundsAssumption DEF Clipboard!PageDies, Clipboard!WorkerDies, Shared, Steady
<1>3. /\ UNCHANGED <<session, clipboard, stray, task, copies, expired, alarms, lockedClean>>
      /\ late' \in {late, late \union Clipboard!Unsent}
      /\ handler' \in {handler, [a \in Clipboard!Actions |-> None]}
      /\ spent' \subseteq Clipboard!Actions
      /\ op # None => lockHeld
      /\ \/ op # None /\ ~lockHeld' /\ op' = None
         \/ UNCHANGED <<lockHeld, op, late>> /\ (op # None => op.kind # "alarm")
  BY <1>1 DEF Clipboard!PageDies, Clipboard!WorkerDies, RestInv, RestTypes, WebLock
<1>4. op # None => Clipboard!Unsent \subseteq Secrets \union {None}
  BY <1>1 DEF Clipboard!Unsent, OperationInv
<1>5. RestInv'
  BY <1>1, <1>3, <1>4
  DEF RestInv, RestTypes, Clipboard!SecretIsOwned, Clipboard!LockLeavesNoSecret
<1>6. handler' \in [Clipboard!Actions -> Clipboard!Handlers \union {None}]
  BY <1>1, <1>3 DEF OperationTypes
<1>7. op' # None => OperationInv'
  BY <1>1, <1>3 DEF OperationInv
<1>8. Clipboard!TypeOK'
  BY <1>3, <1>5, <1>6 DEF RestInv, RestTypes, ClipboardInv, Clipboard!TypeOK
<1> QED
  BY <1>2, <1>3, <1>5, <1>7, <1>8 DEF ClipboardKept, ClipboardInv, Moves, RestInv

\* What reaches the clipboard without its sender is not the extension's.
LEMMA StrayWritesKeepClipboard ==
    ASSUME Shared, WebLock, ClipboardInv,
           Clipboard!UserCopies \/ \E text \in late : Clipboard!LateWrite(text)
    PROVE  ClipboardKept
<1>1. RestInv /\ OperationTypes /\ (op # None => OperationInv)
  BY OperationFacts
<1>2. Steady
  BY BoundsAssumption
  DEF Clipboard!UserCopies, Clipboard!LateWrite, Clipboard!Lands, Shared, Steady
<1>3. /\ UNCHANGED <<lockHeld, session, task, copies, expired, alarms, handler, op,
                     spent, lockedClean>>
      /\ late' \subseteq late
      /\ \/ clipboard' \in Clipboard!Texts /\ stray' \in BOOLEAN /\ ~Clipboard!SecretOut'
         \/ UNCHANGED <<clipboard, stray>>
  <2>1. CASE Clipboard!UserCopies
    BY <2>1, ClipboardNone DEF Clipboard!UserCopies, Clipboard!Lands, Clipboard!Texts
  <2>2. CASE \E text \in late : Clipboard!LateWrite(text)
    BY <1>1, <2>2, ClipboardNone
    DEF Clipboard!LateWrite, Clipboard!Texts, RestInv, RestTypes
  <2> QED
    BY <2>1, <2>2
<1>4. RestInv'
  BY <1>1, <1>3
  DEF RestInv, RestTypes, Clipboard!SecretIsOwned, Clipboard!LockLeavesNoSecret
<1>5. op' # None => OperationInv'
  BY <1>1, <1>3 DEF OperationInv, Clipboard!At
<1>6. Clipboard!TypeOK'
  BY <1>3, <1>4 DEF RestInv, RestTypes, ClipboardInv, Clipboard!TypeOK
<1> QED
  BY <1>2, <1>3, <1>4, <1>5, <1>6 DEF ClipboardKept, ClipboardInv, Moves, RestInv

LEMMA ClipboardNextKeeps ==
    ASSUME Shared, WebLock, ClipboardInv, Clipboard!Next
    PROVE  ClipboardKept
BY BeginsKeep, OperationStepKeeps, HandlerStepKeeps, AlarmKeeps, DeathsKeepClipboard,
   StrayWritesKeepClipboard
DEF Clipboard!Next

\* The session ends with its cleanup, clean or not.
LEMMA RemoveSessionKeeps ==
    ASSUME Shared, WebLock, ClipboardInv, Clipboard!RemoveSession
    PROVE  ClipboardInv' /\ op # None /\ op' = None /\ ~lockHeld' /\ ~session'
<1>1. op # None /\ op.pc = "end"
  BY DEF Clipboard!RemoveSession
<1>2. op \in Clipboard!Operations /\ OperationInv /\ OperationTypes /\ RestInv
  BY <1>1, OperationFacts
<1>3. /\ UNCHANGED <<clipboard, stray, late, task, copies, expired, alarms, spent>>
      /\ ~session' /\ lockedClean' = ~op.failed
      /\ Clipboard!Leave("done")
  BY DEF Clipboard!RemoveSession
<1>4. /\ op' = None /\ lockHeld' = FALSE
      /\ handler' \in [Clipboard!Actions -> Clipboard!Handlers \union {None}]
  BY <1>2, <1>3, LeaveStep DEF Results
<1>5. lockedClean' => ~Clipboard!SecretOut'
  BY <1>1, <1>2, <1>3 DEF OperationInv
<1>6. RestInv'
  BY <1>2, <1>3, <1>5
  DEF RestInv, RestTypes, Clipboard!SecretIsOwned, Clipboard!LockLeavesNoSecret
<1>7. Clipboard!TypeOK'
  BY <1>4, <1>6 DEF RestInv, RestTypes, Clipboard!TypeOK
<1> QED
  BY <1>1, <1>3, <1>4, <1>6, <1>7 DEF ClipboardInv, RestInv

\* After a restart of the browser no task is left, and what the clipboard still
\* holds nobody can clear.
LEMMA RestartKeepsClipboard ==
    ASSUME ClipboardInv, Clipboard!Restart
    PROVE  ClipboardInv' /\ op' = None /\ ~lockHeld' /\ ~session'
<1>1. RestInv
  BY OperationFacts
<1>2. /\ op' = None /\ ~lockHeld' /\ ~session' /\ task' = None /\ late' = {}
      /\ alarms' \subseteq alarms
      /\ handler' = [a \in Clipboard!Actions |-> None]
      /\ stray' = (clipboard \in Secrets)
      /\ UNCHANGED <<clipboard, copies, expired, spent, lockedClean>>
  BY DEF Clipboard!Restart
<1>3. ~Clipboard!SecretOut'
  BY <1>2
<1>4. RestInv'
  BY <1>1, <1>2, <1>3
  DEF RestInv, RestTypes, Clipboard!SecretIsOwned, Clipboard!LockLeavesNoSecret
<1>5. Clipboard!TypeOK'
  BY <1>2, <1>4 DEF RestInv, RestTypes, Clipboard!TypeOK
<1> QED
  BY <1>2, <1>4, <1>5 DEF ClipboardInv, RestInv

-----------------------------------------------------------------------------
(* The access records                                                        *)

\* None is no record, no operation and no unlock.
LEMMA AccessNone ==
    /\ None \notin Access!Materials
    /\ None \notin Access!Backups
    /\ None \notin Access!Readers
    /\ None \notin Access!Unlocks
BY NoneIsNothing

\* What every step of the access records keeps in its bounds: none ends a
\* session.
AccessSteady ==
    /\ session' \in BOOLEAN
    /\ session => session'
    /\ ops' \in ops..MaxOps
    /\ faults' \in 0..MaxFaults

AccessKept == AccessInv' /\ Moves(change # None, change' # None) /\ AccessSteady

USE DEF Access!Fails, Access!Starts

\* A reader past its reading holds a pair and takes the identifier after the
\* last one given out.
LEMMA ReaderFacts ==
    ASSUME Shared, AccessInv, NEW read, read \in {change, recovery}, read # None
    PROVE  /\ read \in Access!Readers
           /\ Reader(read)
           /\ fresh \in Access!Ids /\ fresh + 1 \in Access!Ids
           /\ fresh + Outstanding <= ops + 1
           /\ read.pc # "read" => read.backup \in Access!Backups
           /\ read.material # None => read.material \in Access!Materials
<1>1. read \in Access!Readers /\ Reader(read)
  BY DEF AccessInv, ReadersFollow, Access!TypeOK
<1>2. fresh \in Access!Ids /\ fresh + Outstanding <= ops + 1
  BY DEF AccessInv, IdentifiersAreFresh, Access!TypeOK
<1>3. Outstanding \in {1, 2}
  BY DEF Outstanding
<1>4. fresh + 1 \in Access!Ids
  BY <1>2, <1>3, BoundsAssumption DEF Access!Ids, Shared
<1> QED
  BY <1>1, <1>2, <1>4 DEF Reader, Access!Readers

\* The pair that the compare-and-set replaces is the pair that was read.
LEMMA MatchesIsRead ==
    ASSUME NEW read, Reader(read), read.pc # "read", Access!Matches(read)
    PROVE  /\ backup # None /\ backup = read.backup
           /\ material = read.material
<1>1. /\ backup # None
      /\ backup.generation = read.backup.generation
      /\ (material = None) = (read.material = None)
      /\ material # None => material.generation = read.material.generation
  BY DEF Access!Matches
<1> QED
  BY <1>1 DEF Reader

\* The new pair belongs together, opens with the identifier it was made with,
\* and with what it keeps of the old one.
LEMMA SavePairStep ==
    ASSUME Shared, AccessInv, NEW read, read \in {change, recovery}, read # None,
           read.pc # "read", read.kind = "words" => read.material # None,
           Access!Matches(read), Access!SavePair(read)
    PROVE  /\ material' \in Access!Materials
           /\ backup' \in Access!Backups
           /\ material'.generation = fresh + 1 /\ backup'.generation = fresh + 1
           /\ material'.revision \in 1..(fresh + 1) /\ backup'.revision \in 1..(fresh + 1)
           /\ material'.keys = backup.keys /\ backup'.keys = backup.keys
           /\ material'.password = IF read.kind = "words" THEN material.password
                                                          ELSE fresh + 1
           /\ backup'.words = IF read.kind = "password" THEN backup.words ELSE fresh + 1
           /\ read.kind = "words" => material # None
<1> DEFINE password == IF read.kind = "words" THEN read.material.password ELSE fresh + 1
           words == IF read.kind = "password" THEN read.backup.words ELSE fresh + 1
<1>1. /\ read \in Access!Readers
      /\ Reader(read)
      /\ fresh \in Access!Ids /\ fresh + 1 \in Access!Ids
      /\ read.backup \in Access!Backups
      /\ read.material # None => read.material \in Access!Materials
  BY ReaderFacts
<1>2. backup = read.backup /\ material = read.material
  BY <1>1, MatchesIsRead
<1>3. Access!Replace(read, password, words)
  BY <1>1 DEF Access!SavePair, Access!Readers
<1>4. password \in Access!Ids /\ words \in Access!Ids
  BY <1>1 DEF Access!Materials, Access!Backups
<1>5. /\ read.backup.revision \in 1..fresh
      /\ read.material # None => read.material.revision \in 1..fresh
      /\ read.backup.keys \in Access!Ids
  BY <1>1, AccessNone DEF Reader, Given, Access!Backups
<1>6. /\ read.backup.revision + 1 \in 1..(fresh + 1)
      /\ (IF read.material = None THEN 1 ELSE read.material.revision + 1) \in 1..(fresh + 1)
      /\ 1..(fresh + 1) \subseteq Access!Ids
  BY <1>1, <1>5, BoundsAssumption DEF Access!Ids
<1>7. material' \in Access!Materials /\ backup' \in Access!Backups
  BY <1>1, <1>3, <1>4, <1>5, <1>6 DEF Access!Replace, Access!Materials, Access!Backups
<1>8. /\ material'.generation = fresh + 1 /\ backup'.generation = fresh + 1
      /\ material'.revision \in 1..(fresh + 1) /\ backup'.revision \in 1..(fresh + 1)
      /\ material'.keys = read.backup.keys /\ backup'.keys = read.backup.keys
      /\ material'.password = password
      /\ backup'.words = words
  BY <1>3, <1>6 DEF Access!Replace
<1> QED
  BY <1>2, <1>7, <1>8

\* Whoever takes the next identifier leaves what was given out, and who has read
\* the old pair no longer matches a new one.
LEMMA IdentifierTaken ==
    ASSUME Shared, AccessInv,
           NEW read, read \in {change, recovery}, read # None, read.pc # "read",
           read.kind = "words" => read.material # None,
           fresh' = fresh + 1, ops' = ops,
           \/ read = change /\ change' = None /\ UNCHANGED recovery
           \/ read = recovery /\ recovery' = None /\ UNCHANGED change,
           \/ Access!Matches(read) /\ Access!SavePair(read)
           \/ UNCHANGED <<material, backup>>,
           retired' \subseteq retired \union
               (IF material # None THEN {material.password} ELSE {})
    PROVE  /\ fresh' \in Access!Ids
           /\ material' \in Access!Materials \union {None}
           /\ backup' \in Access!Backups \union {None}
           /\ retired' \subseteq Access!Ids
           /\ IdentifiersAreFresh'
           /\ ReadersFollow'
<1>1. /\ fresh \in Access!Ids /\ fresh + 1 \in Access!Ids
      /\ fresh + Outstanding <= ops + 1
  BY ReaderFacts
<1>2. /\ material \in Access!Materials \union {None}
      /\ backup \in Access!Backups \union {None}
      /\ retired \subseteq Access!Ids
  BY DEF AccessInv, Access!TypeOK
<1>3. Outstanding' = Outstanding - 1
  BY AccessNone DEF Outstanding
<1>4. fresh' + Outstanding' <= ops' + 1
  <2>1. Outstanding \in Int /\ fresh \in Int /\ ops \in Int
    BY <1>1 DEF Outstanding, Access!Ids, Shared
  <2> QED
    BY <1>1, <1>3, <2>1
<1>5. \/ /\ material' \in Access!Materials /\ backup' \in Access!Backups
         /\ material'.generation = fresh' /\ backup'.generation = fresh'
         /\ material'.revision \in 1..fresh' /\ backup'.revision \in 1..fresh'
         /\ material'.password \in {fresh'} \union
                (IF material # None THEN {material.password} ELSE {})
      \/ UNCHANGED <<material, backup>>
  BY SavePairStep
<1>6. 1..fresh \subseteq 1..fresh' /\ fresh' \in 1..fresh' /\ fresh' \notin 1..fresh
  BY <1>1 DEF Access!Ids
<1>7. /\ material # None => /\ material.revision \in 1..fresh
                            /\ material.generation \in 1..fresh
                            /\ material.password \in 1..fresh
      /\ backup # None => backup.revision \in 1..fresh /\ backup.generation \in 1..fresh
      /\ \A id \in retired : id \in 1..fresh
  BY DEF AccessInv, IdentifiersAreFresh, Given
<1>8. IdentifiersAreFresh'
  BY <1>4, <1>5, <1>6, <1>7 DEF IdentifiersAreFresh, Given
<1>9. ReadersFollow'
  <2>1. ASSUME change' # None
        PROVE  /\ Reader(change)'
               /\ change'.kind \in {"password", "words"}
               /\ change'.pc # "check"
               /\ change'.pc # "read" => change'.material # None
    <3>1. change # None /\ change' = change
      BY <2>1
    <3>2. /\ Reader(change)
          /\ change.kind \in {"password", "words"}
          /\ change.pc # "check"
          /\ change.pc # "read" => change.material # None
      BY <3>1 DEF AccessInv, ReadersFollow
    <3>3. Reader(change)'
      BY <1>5, <1>6, <3>1, <3>2 DEF Reader, Given
    <3> QED
      BY <3>1, <3>2, <3>3
  <2>2. ASSUME recovery' # None
        PROVE  Reader(recovery)' /\ recovery'.kind = "recovery"
    <3>1. recovery # None /\ recovery' = recovery
      BY <2>2
    <3>2. Reader(recovery) /\ recovery.kind = "recovery"
      BY <3>1 DEF AccessInv, ReadersFollow
    <3>3. Reader(recovery)'
      BY <1>5, <1>6, <3>1, <3>2 DEF Reader, Given
    <3> QED
      BY <3>1, <3>2, <3>3
  <2> QED
    BY <2>1, <2>2 DEF ReadersFollow
<1>10. retired' \subseteq Access!Ids
  BY <1>2 DEF Access!Materials
<1> QED
  BY <1>1, <1>2, <1>5, <1>8, <1>9, <1>10

\* A reader that has read nothing.
LEMMA NewReader ==
    ASSUME NEW kind \in {"password", "words", "recovery"}, NEW read,
           read = [pc |-> "read", kind |-> kind, material |-> None, backup |-> None]
    PROVE  /\ read \in Access!Readers
           /\ read # None
           /\ read.pc = "read" /\ read.kind = kind
           /\ read.material = None /\ read.backup = None
<1>1. read \in Access!Readers
  BY DEF Access!Readers
<1> QED
  BY <1>1, AccessNone

LEMMA BeginChangeKeeps ==
    ASSUME Shared, WebLock, AccessInv,
           NEW kind \in {"password", "words"}, Access!BeginChange(kind)
    PROVE  AccessKept
<1>1. /\ ~lockHeld /\ lockHeld' /\ session /\ change = None
      /\ ops < MaxOps /\ ops' = ops + 1
      /\ epoch' = IF kind = "password" THEN epoch + 1 ELSE epoch
      /\ change' = [pc |-> "read", kind |-> kind, material |-> None, backup |-> None]
      /\ UNCHANGED <<session, faults, vault, material, backup, fresh, recovery,
                     unlocking, known, wordsLost, retired>>
  BY DEF Access!BeginChange
<1>2. AccessSteady
  BY <1>1, BoundsAssumption DEF AccessSteady, Shared
<1>3. /\ change' \in Access!Readers
      /\ change' # None
      /\ change'.pc = "read" /\ change'.kind = kind
      /\ change'.material = None /\ change'.backup = None
  BY <1>1, NewReader
<1>4. epoch \in Nat /\ epoch' \in Nat /\ fresh \in Nat
  BY <1>1 DEF AccessInv, Access!TypeOK, Access!Ids
<1>5. Access!TypeOK'
  BY <1>1, <1>3, <1>4 DEF AccessInv, Access!TypeOK
<1>6. IdentifiersAreFresh'
  <2>1. fresh' + Outstanding' <= ops' + 1
    BY <1>1, <1>3, <1>4 DEF AccessInv, IdentifiersAreFresh, Outstanding, Shared
  <2> QED
    BY <1>1, <2>1 DEF AccessInv, IdentifiersAreFresh, Given
<1>7. ReadersFollow'
  BY <1>1, <1>3 DEF AccessInv, ReadersFollow, Reader, Given
<1>8. Access!KnownSecretsOpenRecords'
  BY <1>1 DEF AccessInv, Access!KnownSecretsOpenRecords, Access!Consistent
<1>9. RetiredIsPast'
  <2>1. unlocking # None => unlocking.epoch \in Nat
    BY DEF AccessInv, Access!TypeOK, Access!Unlocks
  <2> QED
    BY <1>1, <1>3, <1>4, <2>1 DEF AccessInv, RetiredIsPast
<1> QED
  BY <1>1, <1>2, <1>3, <1>5, <1>6, <1>7, <1>8, <1>9 DEF AccessKept, AccessInv, Moves

LEMMA ChangeReadsKeeps ==
    ASSUME Shared, WebLock, AccessInv, Access!ChangeReads
    PROVE  AccessKept
<1>1. /\ change # None /\ change.pc = "read"
      /\ UNCHANGED <<session, ops, faults, epoch, vault, material, backup, fresh,
                     recovery, unlocking, known, wordsLost, retired>>
  BY DEF Access!ChangeReads
<1>2. lockHeld
  BY <1>1 DEF WebLock
<1>3. AccessSteady
  BY <1>1, BoundsAssumption DEF AccessSteady, Shared
<1>4. change \in Access!Readers /\ Reader(change) /\ change.kind \in {"password", "words"}
  BY <1>1 DEF AccessInv, ReadersFollow, Access!TypeOK
<1>5. /\ material \in Access!Materials \union {None}
      /\ backup \in Access!Backups \union {None}
  BY DEF AccessInv, Access!TypeOK
<1>6. \/ /\ material # None /\ backup # None
         /\ change' = [change EXCEPT !.pc = "save", !.material = material,
                                     !.backup = backup]
         /\ lockHeld' = lockHeld
      \/ change' = None /\ lockHeld' = FALSE
  BY <1>1 DEF Access!ChangeReads
<1>7. change' # None =>
          /\ change' \in Access!Readers
          /\ change'.pc = "save" /\ change'.kind = change.kind
          /\ change'.material = material /\ change'.backup = backup
          /\ material # None /\ backup # None
          /\ lockHeld'
  BY <1>2, <1>4, <1>5, <1>6 DEF Access!Readers
<1>8. /\ Moves(change # None, change' # None)
      /\ change' \in Access!Readers \union {None}
      /\ change' # None => lockHeld'
  <2>1. CASE change' = None /\ lockHeld' = FALSE
    BY <1>1, <2>1 DEF Moves
  <2>2. CASE /\ change' = [change EXCEPT !.pc = "save", !.material = material,
                                         !.backup = backup]
             /\ lockHeld' = lockHeld
             /\ material # None /\ backup # None
    <3>1. change' \in Access!Readers
      BY <1>4, <1>5, <2>2 DEF Access!Readers
    <3> QED
      BY <1>1, <1>2, <2>2, <3>1, AccessNone DEF Moves
  <2> QED
    BY <1>6, <2>1, <2>2
<1>9. Access!TypeOK'
  BY <1>1, <1>8 DEF AccessInv, Access!TypeOK
<1>10. IdentifiersAreFresh'
  <2>1. fresh \in Nat /\ ops \in Nat
    BY DEF AccessInv, Access!TypeOK, Access!Ids, Shared
  <2>2. fresh' + Outstanding' <= ops' + 1
    BY <1>1, <2>1 DEF AccessInv, IdentifiersAreFresh, Outstanding
  <2> QED
    BY <1>1, <2>2 DEF AccessInv, IdentifiersAreFresh, Given
<1>11. ReadersFollow'
  BY <1>1, <1>4, <1>7 DEF AccessInv, ReadersFollow, Reader, Given, IdentifiersAreFresh
<1>12. Access!KnownSecretsOpenRecords'
  BY <1>1 DEF AccessInv, Access!KnownSecretsOpenRecords, Access!Consistent
<1>13. RetiredIsPast'
  BY <1>1, <1>7 DEF AccessInv, RetiredIsPast
<1> QED
  BY <1>3, <1>8, <1>9, <1>10, <1>11, <1>12, <1>13 DEF AccessKept, AccessInv

\* The user knows what a replaced pair opens with, or has a reason to try it;
\* an operation that replaced nothing takes no secret away.
LEMMA SecretsStayKnown ==
    ASSUME Shared, AccessInv,
           NEW read, read \in {change, recovery}, read # None, read.pc # "read",
           read.kind = "words" => read.material # None,
           vault' = vault,
           \/ /\ Access!Matches(read) /\ Access!SavePair(read)
              /\ \/ Access!Learn(read.kind, fresh + 1)
                 \/ Access!Doubt(read.kind, fresh + 1)
           \/ /\ UNCHANGED <<material, backup>>
              /\ \/ UNCHANGED <<known, wordsLost>>
                 \/ Access!Doubt(read.kind, fresh + 1)
    PROVE  /\ known' \in [passwords : SUBSET Access!Ids, words : SUBSET Access!Ids]
           /\ wordsLost' \in BOOLEAN
           /\ Access!KnownSecretsOpenRecords'
<1>1. /\ known \in [passwords : SUBSET Access!Ids, words : SUBSET Access!Ids]
      /\ wordsLost \in BOOLEAN
      /\ Access!KnownSecretsOpenRecords
  BY DEF AccessInv, Access!TypeOK
<1>2. fresh + 1 \in Access!Ids /\ read.kind \in {"password", "words", "recovery"}
  BY ReaderFacts DEF Access!Readers
<1>3. ASSUME Access!Learn(read.kind, fresh + 1)
      PROVE  /\ known' \in [passwords : SUBSET Access!Ids, words : SUBSET Access!Ids]
             /\ wordsLost' \in BOOLEAN
             /\ known'.passwords = IF read.kind = "words" THEN known.passwords
                                                          ELSE {fresh + 1}
             /\ known'.words = IF read.kind = "password" THEN known.words ELSE {fresh + 1}
             /\ read.kind = "password" => wordsLost' = wordsLost
  BY <1>1, <1>2, <1>3 DEF Access!Learn
<1>4. ASSUME Access!Doubt(read.kind, fresh + 1)
      PROVE  /\ known' \in [passwords : SUBSET Access!Ids, words : SUBSET Access!Ids]
             /\ wordsLost' \in BOOLEAN
             /\ known.passwords \subseteq known'.passwords
             /\ read.kind # "words" => fresh + 1 \in known'.passwords
             /\ known'.words = known.words
             /\ IF read.kind = "password" THEN wordsLost' = wordsLost ELSE wordsLost'
  BY <1>1, <1>2, <1>4 DEF Access!Doubt
<1>5. CASE /\ UNCHANGED <<material, backup>>
           /\ UNCHANGED <<known, wordsLost>> \/ Access!Doubt(read.kind, fresh + 1)
  BY <1>1, <1>4, <1>5 DEF Access!KnownSecretsOpenRecords, Access!Consistent
<1>6. CASE /\ Access!Matches(read) /\ Access!SavePair(read)
           /\ \/ Access!Learn(read.kind, fresh + 1)
              \/ Access!Doubt(read.kind, fresh + 1)
  <2>1. /\ material'.generation = fresh + 1 /\ backup'.generation = fresh + 1
        /\ material'.keys = backup.keys /\ backup'.keys = backup.keys
        /\ material'.password = IF read.kind = "words" THEN material.password
                                                       ELSE fresh + 1
        /\ backup'.words = IF read.kind = "password" THEN backup.words ELSE fresh + 1
        /\ read.kind = "words" => material # None
        /\ backup' # None
    BY <1>6, SavePairStep, AccessNone
  <2>2. backup # None
    BY <1>6 DEF Access!Matches
  <2>3. CASE Access!Learn(read.kind, fresh + 1)
    BY <1>1, <1>2, <1>3, <2>1, <2>2, <2>3
    DEF Access!KnownSecretsOpenRecords, Access!Consistent
  <2>4. CASE Access!Doubt(read.kind, fresh + 1)
    BY <1>1, <1>2, <1>4, <2>1, <2>2, <2>4
    DEF Access!KnownSecretsOpenRecords, Access!Consistent
  <2> QED
    BY <1>6, <2>3, <2>4
<1> QED
  BY <1>5, <1>6

LEMMA ChangeEndsKeeps ==
    ASSUME Shared, WebLock, AccessInv, Access!ChangeSaves \/ Access!ChangeDies
    PROVE  AccessKept
<1>1. /\ change # None /\ change.pc = "save"
      /\ change' = None /\ lockHeld' = FALSE
      /\ fresh' = fresh + 1 /\ ops' = ops
      /\ UNCHANGED <<session, epoch, vault, recovery, unlocking>>
      /\ \/ Access!Matches(change) /\ Access!SavePair(change) /\ retired' = Access!Retire
         \/ UNCHANGED <<material, backup, retired>>
  BY DEF Access!ChangeSaves, Access!ChangeDies
<1>2. AccessSteady
  BY <1>1, BoundsAssumption DEF AccessSteady, Shared, Access!ChangeSaves, Access!ChangeDies
<1>3. /\ change.kind \in {"password", "words"}
      /\ change.pc # "read"
      /\ change.material # None
      /\ Reader(change)
  BY <1>1 DEF AccessInv, ReadersFollow
<1>4. Access!Matches(change) => material # None /\ material = change.material
  BY <1>3, MatchesIsRead
<1>5. retired' \subseteq retired \union (IF material # None THEN {material.password} ELSE {})
  BY <1>1, <1>4 DEF Access!Retire
<1>6. /\ fresh' \in Access!Ids
      /\ material' \in Access!Materials \union {None}
      /\ backup' \in Access!Backups \union {None}
      /\ retired' \subseteq Access!Ids
      /\ IdentifiersAreFresh'
      /\ ReadersFollow'
  BY <1>1, <1>3, <1>5, IdentifierTaken
<1>7. /\ known' \in [passwords : SUBSET Access!Ids, words : SUBSET Access!Ids]
      /\ wordsLost' \in BOOLEAN
      /\ Access!KnownSecretsOpenRecords'
  <2>1. \/ /\ Access!Matches(change) /\ Access!SavePair(change)
           /\ \/ Access!Learn(change.kind, fresh + 1)
              \/ Access!Doubt(change.kind, fresh + 1)
        \/ /\ UNCHANGED <<material, backup>>
           /\ \/ UNCHANGED <<known, wordsLost>>
              \/ Access!Doubt(change.kind, fresh + 1)
    BY DEF Access!ChangeSaves, Access!ChangeDies
  <2> QED
    BY <1>1, <1>3, <2>1, SecretsStayKnown
<1>8. Access!TypeOK'
  BY <1>1, <1>6, <1>7 DEF AccessInv, Access!TypeOK
<1>9. RetiredIsPast'
  <2>1. material # None => material.password \in 1..fresh /\ material.password \notin retired
    BY DEF AccessInv, IdentifiersAreFresh, Given, RetiredIsPast
  <2>2. \A id \in retired : id \in 1..fresh
    BY DEF AccessInv, IdentifiersAreFresh, Given
  <2>3. fresh + 1 \notin 1..fresh /\ fresh \in Nat
    BY DEF AccessInv, Access!TypeOK, Access!Ids
  <2>4. material' # None => material'.password \notin retired'
    <3>1. CASE Access!Matches(change) /\ Access!SavePair(change) /\ retired' = Access!Retire
      <4>1. material'.password = IF change.kind = "words" THEN material.password
                                                          ELSE fresh + 1
        BY <1>1, <1>3, <3>1, SavePairStep
      <4> QED
        BY <1>3, <1>4, <2>1, <2>2, <2>3, <3>1, <4>1 DEF Access!Retire
    <3>2. CASE UNCHANGED <<material, backup, retired>>
      BY <2>1, <3>2
    <3> QED
      BY <1>1, <3>1, <3>2
  <2>5. unlocking # None =>
            /\ unlocking.epoch <= epoch
            /\ change.kind = "password" => unlocking.epoch < epoch
            /\ unlocking.pc = "activate" /\ unlocking.epoch = epoch =>
                   unlocking.password \notin retired
            /\ unlocking.epoch \in Nat /\ epoch \in Nat
    BY <1>1 DEF AccessInv, RetiredIsPast, Access!TypeOK, Access!Unlocks
  <2>6. change.kind # "password" => retired' = retired
    BY <1>1 DEF Access!Retire
  <2>7. ASSUME unlocking' # None
        PROVE  /\ unlocking'.epoch <= epoch'
               /\ unlocking'.pc = "activate" /\ unlocking'.epoch = epoch' =>
                      unlocking'.password \notin retired'
    BY <1>1, <2>5, <2>6, <2>7
  <2> QED
    BY <1>1, <2>4, <2>7 DEF RetiredIsPast
<1> QED
  BY <1>1, <1>2, <1>6, <1>7, <1>8, <1>9 DEF AccessKept, AccessInv, Moves

\* A step of the recovery before its save moves nothing but the recovery.
LEMMA RecoveryMoves ==
    ASSUME Shared, WebLock, AccessInv,
           \/ Access!BeginRecovery
           \/ Access!RecoveryReads
           \/ Access!RecoveryChecks
    PROVE  AccessKept
<1>1. /\ UNCHANGED <<lockHeld, session, faults, epoch, vault, material, backup, fresh,
                     change, unlocking, known, wordsLost, retired>>
      /\ \/ ops' = ops /\ recovery # None
         \/ ops < MaxOps /\ ops' = ops + 1
  BY DEF Access!BeginRecovery, Access!RecoveryReads, Access!RecoveryChecks
<1>2. AccessSteady
  BY <1>1, BoundsAssumption DEF AccessSteady, Shared
<1>3. /\ material \in Access!Materials \union {None}
      /\ backup \in Access!Backups \union {None}
      /\ recovery # None => /\ recovery \in Access!Readers
                            /\ Reader(recovery)
                            /\ recovery.kind = "recovery"
  BY DEF AccessInv, Access!TypeOK, ReadersFollow
<1>4. /\ material # None => Given(material.revision) /\ Given(material.generation)
      /\ backup # None => Given(backup.revision) /\ Given(backup.generation)
  BY DEF AccessInv, IdentifiersAreFresh
<1>5. recovery' # None => /\ recovery' \in Access!Readers
                          /\ Reader(recovery)'
                          /\ recovery'.kind = "recovery"
  <2>1. CASE Access!BeginRecovery
    <3>1. recovery' = [pc |-> "read", kind |-> "recovery", material |-> None,
                       backup |-> None]
      BY <2>1 DEF Access!BeginRecovery
    <3> QED
      BY <3>1, NewReader DEF Reader
  <2>2. CASE Access!RecoveryReads
    <3> SUFFICES ASSUME recovery' # None
                 PROVE  /\ recovery' \in Access!Readers
                        /\ Reader(recovery)'
                        /\ recovery'.kind = "recovery"
      OBVIOUS
    <3>1. /\ recovery # None /\ backup # None
          /\ recovery' = [recovery EXCEPT !.pc = "check", !.material = material,
                                          !.backup = backup]
      BY <2>2 DEF Access!RecoveryReads
    <3>2. /\ recovery' \in Access!Readers
          /\ recovery'.kind = "recovery" /\ recovery'.pc = "check"
          /\ recovery'.material = material /\ recovery'.backup = backup
      BY <1>3, <3>1 DEF Access!Readers
    <3> QED
      BY <1>1, <1>4, <3>1, <3>2 DEF Reader, Given
  <2>3. CASE Access!RecoveryChecks
    <3> SUFFICES ASSUME recovery' # None
                 PROVE  /\ recovery' \in Access!Readers
                        /\ Reader(recovery)'
                        /\ recovery'.kind = "recovery"
      OBVIOUS
    <3>1. /\ recovery # None /\ recovery.pc = "check"
          /\ recovery' = [recovery EXCEPT !.pc = "save"]
      BY <2>3 DEF Access!RecoveryChecks
    <3>2. /\ recovery' \in Access!Readers
          /\ recovery'.kind = "recovery" /\ recovery'.pc = "save"
          /\ recovery'.material = recovery.material /\ recovery'.backup = recovery.backup
      BY <1>3, <3>1 DEF Access!Readers
    <3> QED
      BY <1>1, <1>3, <3>1, <3>2 DEF Reader, Given
  <2> QED
    BY <2>1, <2>2, <2>3
<1>6. Access!TypeOK'
  BY <1>1, <1>5 DEF AccessInv, Access!TypeOK
<1>7. IdentifiersAreFresh'
  <2>1. fresh \in Nat /\ ops \in Nat
    BY DEF AccessInv, Access!TypeOK, Access!Ids, Shared
  <2>2. fresh' + Outstanding' <= ops' + 1
    BY <1>1, <2>1 DEF AccessInv, IdentifiersAreFresh, Outstanding
  <2> QED
    BY <1>1, <2>2 DEF AccessInv, IdentifiersAreFresh, Given
<1>8. ReadersFollow'
  BY <1>1, <1>5 DEF AccessInv, ReadersFollow, Reader, Given
<1>9. Access!KnownSecretsOpenRecords' /\ RetiredIsPast'
  BY <1>1 DEF AccessInv, Access!KnownSecretsOpenRecords, Access!Consistent, RetiredIsPast
<1> QED
  BY <1>1, <1>2, <1>6, <1>7, <1>8, <1>9 DEF AccessKept, AccessInv, Moves

LEMMA RecoveryEndsKeeps ==
    ASSUME Shared, WebLock, AccessInv, Access!RecoverySaves \/ Access!RecoveryDies
    PROVE  AccessKept
<1>1. /\ recovery # None /\ recovery.pc = "save"
      /\ recovery' = None
      /\ fresh' = fresh + 1 /\ ops' = ops
      /\ UNCHANGED <<lockHeld, session, epoch, vault, change, unlocking, retired>>
      /\ \/ Access!Matches(recovery) /\ Access!SavePair(recovery)
         \/ UNCHANGED <<material, backup>>
  BY DEF Access!RecoverySaves, Access!RecoveryDies
<1>2. AccessSteady
  BY <1>1, BoundsAssumption
  DEF AccessSteady, Shared, Access!RecoverySaves, Access!RecoveryDies
<1>3. recovery.kind = "recovery" /\ recovery.pc # "read" /\ Reader(recovery)
  BY <1>1 DEF AccessInv, ReadersFollow
<1>4. /\ fresh' \in Access!Ids
      /\ material' \in Access!Materials \union {None}
      /\ backup' \in Access!Backups \union {None}
      /\ retired' \subseteq Access!Ids
      /\ IdentifiersAreFresh'
      /\ ReadersFollow'
  BY <1>1, <1>3, IdentifierTaken
<1>5. /\ known' \in [passwords : SUBSET Access!Ids, words : SUBSET Access!Ids]
      /\ wordsLost' \in BOOLEAN
      /\ Access!KnownSecretsOpenRecords'
  <2>1. \/ /\ Access!Matches(recovery) /\ Access!SavePair(recovery)
           /\ \/ Access!Learn(recovery.kind, fresh + 1)
              \/ Access!Doubt(recovery.kind, fresh + 1)
        \/ /\ UNCHANGED <<material, backup>>
           /\ \/ UNCHANGED <<known, wordsLost>>
              \/ Access!Doubt(recovery.kind, fresh + 1)
    BY <1>3 DEF Access!RecoverySaves, Access!RecoveryDies
  <2> QED
    BY <1>1, <1>3, <2>1, SecretsStayKnown
<1>6. Access!TypeOK'
  BY <1>1, <1>4, <1>5 DEF AccessInv, Access!TypeOK
<1>7. RetiredIsPast'
  <2>1. fresh + 1 \notin retired
    BY DEF AccessInv, IdentifiersAreFresh, Given, Access!TypeOK, Access!Ids
  <2>2. material' = material \/ material'.password = fresh + 1
    BY <1>1, <1>3, SavePairStep
  <2> QED
    BY <1>1, <2>1, <2>2 DEF AccessInv, RetiredIsPast
<1> QED
  BY <1>1, <1>2, <1>4, <1>5, <1>6, <1>7 DEF AccessKept, AccessInv, Moves

\* Only the unlock moves, and with it the session and its epoch.
LEMMA UnlockKeeps ==
    ASSUME Shared, WebLock, AccessInv,
           \/ \E password \in known.passwords : Access!BeginUnlock(password)
           \/ Access!UnlockReads
           \/ Access!Activate
    PROVE  AccessKept
<1>1. /\ UNCHANGED <<lockHeld, faults, vault, material, backup, fresh, change, recovery,
                     known, wordsLost, retired>>
      /\ ops' = ops \/ (ops < MaxOps /\ ops' = ops + 1)
      /\ session' \in BOOLEAN /\ (session => session')
      /\ epoch' \in {epoch, epoch + 1}
  BY DEF Access!BeginUnlock, Access!UnlockReads, Access!Activate, Shared
<1>2. AccessSteady
  BY <1>1, BoundsAssumption DEF AccessSteady, Shared
<1>3. /\ epoch \in Nat /\ fresh \in Nat /\ ops \in Nat
      /\ unlocking # None => unlocking \in Access!Unlocks
      /\ known.passwords \subseteq Access!Ids
      /\ material # None => material.password \notin retired
  BY DEF AccessInv, Access!TypeOK, Access!Ids, RetiredIsPast, Shared
<1>4. unlocking' # None =>
          /\ unlocking' \in Access!Unlocks
          /\ unlocking'.epoch <= epoch'
          /\ change' # None /\ change'.kind = "password" => unlocking'.epoch < epoch'
          /\ unlocking'.pc = "activate" /\ unlocking'.epoch = epoch' =>
                 unlocking'.password \notin retired'
  <2>1. ASSUME NEW password \in known.passwords, Access!BeginUnlock(password)
        PROVE  /\ unlocking' \in Access!Unlocks
               /\ unlocking'.epoch <= epoch'
               /\ change' # None /\ change'.kind = "password" => unlocking'.epoch < epoch'
               /\ unlocking'.pc = "activate" /\ unlocking'.epoch = epoch' =>
                      unlocking'.password \notin retired'
    <3>1. /\ unlocking' = [pc |-> "read", epoch |-> epoch, password |-> password]
          /\ ~lockHeld /\ epoch' = epoch
      BY <2>1 DEF Access!BeginUnlock
    <3>2. change' = None
      BY <1>1, <3>1 DEF WebLock
    <3> QED
      BY <1>3, <3>1, <3>2 DEF Access!Unlocks
  <2>2. ASSUME Access!UnlockReads, unlocking' # None
        PROVE  /\ unlocking' \in Access!Unlocks
               /\ unlocking'.epoch <= epoch'
               /\ change' # None /\ change'.kind = "password" => unlocking'.epoch < epoch'
               /\ unlocking'.pc = "activate" /\ unlocking'.epoch = epoch' =>
                      unlocking'.password \notin retired'
    <3>1. /\ unlocking # None
          /\ Access!Opens(unlocking.password)
          /\ unlocking' = [unlocking EXCEPT !.pc = "activate"]
          /\ epoch' = epoch
      BY <2>2 DEF Access!UnlockReads
    <3>2. unlocking.password \notin retired
      BY <1>3, <3>1 DEF Access!Opens
    <3>3. /\ unlocking' \in Access!Unlocks
          /\ unlocking'.epoch = unlocking.epoch
          /\ unlocking'.password = unlocking.password
      BY <1>3, <3>1 DEF Access!Unlocks
    <3> QED
      BY <1>1, <3>1, <3>2, <3>3 DEF AccessInv, RetiredIsPast
  <2>3. Access!Activate => unlocking' = None
    BY DEF Access!Activate
  <2> QED
    BY <2>1, <2>2, <2>3
<1>5. Access!TypeOK'
  BY <1>1, <1>3, <1>4 DEF AccessInv, Access!TypeOK
<1>6. IdentifiersAreFresh'
  <2>1. fresh' + Outstanding' <= ops' + 1
    BY <1>1, <1>3 DEF AccessInv, IdentifiersAreFresh, Outstanding
  <2> QED
    BY <1>1, <2>1 DEF AccessInv, IdentifiersAreFresh, Given
<1>7. ReadersFollow'
  BY <1>1 DEF AccessInv, ReadersFollow, Reader, Given
<1>8. Access!KnownSecretsOpenRecords'
  BY <1>1 DEF AccessInv, Access!KnownSecretsOpenRecords, Access!Consistent
<1>9. RetiredIsPast'
  BY <1>1, <1>3, <1>4 DEF RetiredIsPast
<1> QED
  BY <1>1, <1>2, <1>5, <1>6, <1>7, <1>8, <1>9 DEF AccessKept, AccessInv, Moves

\* New records have new identifiers; nobody who read the old ones meets them.
LEMMA EnrollAgainKeeps ==
    ASSUME Shared, WebLock, AccessInv, Access!EnrollAgain
    PROVE  AccessKept
<1>1. /\ ~lockHeld
      /\ ops < MaxOps /\ ops' = ops + 1
      /\ fresh' = fresh + 1 /\ session' = TRUE /\ epoch' = epoch + 1
      /\ vault' = fresh + 1
      /\ material' = [revision |-> 1, generation |-> fresh + 1, password |-> fresh + 1,
                      keys |-> fresh + 1]
      /\ backup' = [revision |-> 1, generation |-> fresh + 1, words |-> fresh + 1,
                    keys |-> fresh + 1]
      /\ known' = [passwords |-> {fresh + 1}, words |-> {fresh + 1}]
      /\ wordsLost' = FALSE
      /\ UNCHANGED <<lockHeld, faults, change, recovery, unlocking, retired>>
  BY DEF Access!EnrollAgain, Access!InitialRecords
<1>2. AccessSteady
  BY <1>1, BoundsAssumption DEF AccessSteady, Shared
<1>3. /\ fresh \in Nat /\ fresh >= 1 /\ ops \in Nat /\ epoch \in Nat
      /\ fresh + Outstanding <= ops + 1 /\ Outstanding \in Nat
      /\ retired \subseteq Access!Ids
  BY DEF AccessInv, IdentifiersAreFresh, Outstanding, Access!TypeOK, Access!Ids, Shared
<1>4. fresh + 1 \in Access!Ids /\ 1 \in Access!Ids
  BY <1>1, <1>3, BoundsAssumption DEF Access!Ids
<1>5. /\ material' \in Access!Materials
      /\ backup' \in Access!Backups
      /\ known' \in [passwords : SUBSET Access!Ids, words : SUBSET Access!Ids]
  BY <1>1, <1>4 DEF Access!Materials, Access!Backups
<1>6. Access!TypeOK'
  <2>1. vault' \in Access!Ids /\ fresh' \in Access!Ids
    BY <1>1, <1>4
  <2>2. epoch' \in Nat
    BY <1>1, <1>3
  <2>3. wordsLost' \in BOOLEAN /\ UNCHANGED <<lockHeld, change, recovery, unlocking, retired>>
    BY <1>1
  <2> QED
    BY <1>5, <2>1, <2>2, <2>3 DEF AccessInv, Access!TypeOK
<1>7. \A id : Given(id) => id \in 1..fresh' /\ id # fresh + 1
  BY <1>1, <1>3 DEF Given
<1>8. IdentifiersAreFresh'
  <2>1. fresh' + Outstanding' <= ops' + 1
    BY <1>1, <1>3 DEF Outstanding
  <2>2. 1 \in 1..fresh' /\ fresh + 1 \in 1..fresh'
    BY <1>1, <1>3
  <2>3. \A id \in retired' : id \in 1..fresh'
    BY <1>1, <1>7 DEF AccessInv, IdentifiersAreFresh
  <2> QED
    BY <1>1, <2>1, <2>2, <2>3 DEF IdentifiersAreFresh, Given
<1>9. ReadersFollow'
  <2>1. change' = None
    BY <1>1 DEF WebLock
  <2>2. ASSUME recovery' # None
        PROVE  Reader(recovery)' /\ recovery'.kind = "recovery"
    <3>1. recovery # None /\ recovery' = recovery
      BY <1>1, <2>2
    <3>2. Reader(recovery) /\ recovery.kind = "recovery"
      BY <3>1 DEF AccessInv, ReadersFollow
    <3>3. material'.generation = fresh + 1 /\ backup'.generation = fresh + 1
      BY <1>1
    <3>4. /\ recovery.backup # None =>
                 /\ Given(recovery.backup.revision)
                 /\ Given(recovery.backup.generation)
          /\ recovery.material # None =>
                 /\ Given(recovery.material.revision)
                 /\ Given(recovery.material.generation)
          /\ recovery.pc # "read" => recovery.backup # None
      BY <3>2 DEF Reader
    <3>5. Reader(recovery)'
      BY <1>7, <3>1, <3>3, <3>4 DEF Reader, Given
    <3> QED
      BY <3>1, <3>2, <3>5
  <2> QED
    BY <2>1, <2>2 DEF ReadersFollow
<1>10. Access!KnownSecretsOpenRecords'
  BY <1>1, <1>5, AccessNone DEF Access!KnownSecretsOpenRecords, Access!Consistent
<1>11. RetiredIsPast'
  <2>1. material'.password \notin retired'
    BY <1>1, <1>7 DEF AccessInv, IdentifiersAreFresh
  <2>2. unlocking # None => unlocking.epoch \in Nat /\ unlocking.epoch <= epoch
    BY DEF AccessInv, RetiredIsPast, Access!TypeOK, Access!Unlocks
  <2>3. change' = None
    BY <1>1 DEF WebLock
  <2> QED
    BY <1>1, <1>3, <2>1, <2>2, <2>3 DEF RetiredIsPast
<1> QED
  BY <1>1, <1>2, <1>6, <1>8, <1>9, <1>10, <1>11 DEF AccessKept, AccessInv, Moves

LEMMA AccessNextKeeps ==
    ASSUME Shared, WebLock, AccessInv, Access!Next
    PROVE  AccessKept
BY BeginChangeKeeps, ChangeReadsKeeps, ChangeEndsKeeps, RecoveryMoves, RecoveryEndsKeeps,
   UnlockKeeps, EnrollAgainKeeps
DEF Access!Next, Access!Steps

\* The end of a session advances the epoch, and may take the records with it.
LEMMA EndSessionKeeps ==
    ASSUME Shared, AccessInv, change = None, ops' = ops,
           NEW removes, Access!EndSession(removes)
    PROVE  AccessInv' /\ change' = None
<1>1. /\ epoch' = epoch + 1
      /\ \/ vault' = 0 /\ material' = None /\ backup' = None
         \/ UNCHANGED <<vault, material, backup>>
      /\ UNCHANGED <<fresh, change, recovery, unlocking, known, wordsLost, retired>>
  BY DEF Access!EndSession
<1>2. Access!TypeOK'
  BY <1>1 DEF AccessInv, Access!TypeOK
<1>3. IdentifiersAreFresh'
  BY <1>1 DEF AccessInv, IdentifiersAreFresh, Given, Outstanding
<1>4. ReadersFollow'
  BY <1>1 DEF AccessInv, ReadersFollow, Reader, Given
<1>5. Access!KnownSecretsOpenRecords'
  BY <1>1 DEF AccessInv, Access!KnownSecretsOpenRecords, Access!Consistent
<1>6. RetiredIsPast'
  <2>1. epoch \in Nat /\ (unlocking # None => unlocking.epoch \in Nat)
    BY DEF AccessInv, Access!TypeOK, Access!Unlocks
  <2> QED
    BY <1>1, <2>1 DEF AccessInv, RetiredIsPast
<1> QED
  BY <1>1, <1>2, <1>3, <1>4, <1>5, <1>6 DEF AccessInv

\* A restart of the browser leaves the records and no operation.
LEMMA RestartKeepsAccess ==
    ASSUME Shared, AccessInv, ops' = ops, Access!Restart
    PROVE  AccessInv' /\ change' = None
<1>1. /\ epoch' = 0 /\ change' = None /\ recovery' = None /\ unlocking' = None
      /\ UNCHANGED <<vault, material, backup, fresh, known, wordsLost, retired>>
  BY DEF Access!Restart
<1>2. Access!TypeOK'
  BY <1>1 DEF AccessInv, Access!TypeOK
<1>3. IdentifiersAreFresh'
  <2>1. fresh \in Nat /\ ops \in Nat
    BY DEF AccessInv, Access!TypeOK, Access!Ids, Shared
  <2>2. fresh' + Outstanding' <= ops' + 1
    BY <1>1, <2>1 DEF AccessInv, IdentifiersAreFresh, Outstanding
  <2> QED
    BY <1>1, <2>2 DEF AccessInv, IdentifiersAreFresh, Given
<1>4. ReadersFollow' /\ Access!KnownSecretsOpenRecords' /\ RetiredIsPast'
  BY <1>1 DEF AccessInv, ReadersFollow, Access!KnownSecretsOpenRecords, Access!Consistent,
              RetiredIsPast
<1> QED
  BY <1>1, <1>2, <1>3, <1>4 DEF AccessInv

-----------------------------------------------------------------------------
(* The captured logins                                                       *)

\* None is no capture, no job and no popup.
LEMMA LoginsNone ==
    /\ None \notin Logins!Captures
    /\ None \notin Logins!Jobs
    /\ None \notin Logins!Popups
BY NoneIsNothing

\* The two kinds of jobs.
CaptureJobs ==
    [kind : {"capture"}, tab : Tabs, keeps : BOOLEAN, ours : BOOLEAN,
     pc : {"check", "tab", "session", "enter", "save", "store"}]
WorkJobs ==
    [kind : {"cleanup", "disable", "forget"}, cleanup : Logins!Cleanups,
     pc : {"look", "work"}, drop : SUBSET Tabs,
     todo : SUBSET {"prefer", "clear", "retain"}]

LEMMA JobKinds ==
    /\ Logins!Jobs = CaptureJobs \union WorkJobs
    /\ \A j \in CaptureJobs : j.kind = "capture"
    /\ \A j \in WorkJobs : j.kind # "capture"
    /\ None \notin CaptureJobs /\ None \notin WorkJobs
BY LoginsNone DEF Logins!Jobs, CaptureJobs, WorkJobs

\* The capture and the popup's removal do not hold the Web Lock together.
OneHolder == ~(Logins!Capturing({"save", "store"}) /\ Logins!Popup("remove"))

LoginsKept ==
    /\ LoginsInv'
    /\ OneHolder'
    /\ Moves(Logins!HoldsWebLock, Logins!HoldsWebLock')

USE DEF Logins!Fails, Logins!Starts, Logins!Holds, Logins!DetectionOn,
        Logins!Capturing, Logins!Popup, Logins!Working, CapturingNow,
        Logins!sharedVars, Logins!settings

\* The types of everything but the Web Lock.
LEMMA LoginsFacts ==
    ASSUME Shared, LoginsInv
    PROVE  /\ watch \in BOOLEAN /\ enabled \in BOOLEAN /\ permitted \in BOOLEAN
           /\ retain \in BOOLEAN /\ enabling \in BOOLEAN
           /\ open \subseteq Tabs
           /\ stored \in [Tabs -> Logins!Captures \union {None}]
           /\ ids \in 0..MaxOps
           /\ asked \subseteq Tabs
           /\ due \subseteq Logins!Cleanups
           /\ job # None => job \in CaptureJobs \union WorkJobs
           /\ CapturingNow => job \in CaptureJobs
           /\ job # None /\ ~CapturingNow => job \in WorkJobs
           /\ popup # None => popup \in Logins!Popups
           /\ uncleared \subseteq Logins!Cleanups
           /\ Tabs \subseteq Logins!Cleanups
BY JobKinds DEF LoginsInv, Logins!TypeOK, Logins!Cleanups

LEMMA AskedCounts ==
    ASSUME asked \subseteq Tabs
    PROVE  /\ IsFiniteSet(asked)
           /\ Cardinality(asked) \in Nat
           /\ \A t : t \notin asked => Cardinality(asked \union {t}) = Cardinality(asked) + 1
           /\ \A t \in asked : Cardinality(asked \ {t}) = Cardinality(asked) - 1
<1>1. IsFiniteSet(asked)
  BY TabsAssumption, FS_Subset
<1> QED
  BY <1>1, FS_CardinalityType, FS_AddElement, FS_RemoveElement

\* A capture in the bounds of the operations gets an ID.
LEMMA Counts ==
    ASSUME Shared, LoginsInv
    PROVE  /\ ids \in Nat /\ Cardinality(asked) \in Nat /\ ops \in Nat
           /\ ids + Cardinality(asked) + (IF CapturingNow THEN 1 ELSE 0) <= ops
           /\ CapturingNow => ids + 1 \in 1..MaxOps
<1>1. ids \in Nat /\ Cardinality(asked) \in Nat /\ ops \in 0..MaxOps
  BY LoginsFacts, AskedCounts DEF Shared
<1>2. ids + Cardinality(asked) + (IF CapturingNow THEN 1 ELSE 0) <= ops
  BY DEF LoginsInv, CapturesAreCounted
<1>3. CapturingNow => ids + 1 \in 1..MaxOps
  BY <1>1, <1>2, BoundsAssumption
<1> QED
  BY <1>1, <1>2, <1>3

\* Captures go, or stay what they are and grow late.
Fewer ==
    /\ stored' \in [Tabs -> Logins!Captures \union {None}]
    /\ \A t \in Tabs : stored'[t] # None => /\ stored[t] # None
                                           /\ stored'[t].id = stored[t].id
                                           /\ stored'[t].ours = stored[t].ours
                                           /\ stored'[t].keeps = stored[t].keeps

LEMMA WithoutIsFewer ==
    ASSUME Shared, LoginsInv, NEW names,
           stored' = Logins!Without(names) \/ stored' = stored
    PROVE  Fewer
BY LoginsFacts DEF Fewer, Logins!Without

\* A capture that begins, goes on or ends without storing anything.
LEMMA CaptureMoves ==
    ASSUME Shared, WebLock, LoginsInv,
           job = None \/ CapturingNow,
           job' = None \/ (job' \in CaptureJobs /\ CaptureInv' /\ watch),
           asked' \subseteq asked,
           ids + Cardinality(asked') + (IF job' # None THEN 1 ELSE 0) <= ops,
           ops' = ops,
           Fewer,
           UNCHANGED <<watch, enabled, permitted, retain, enabling, open, ids, due,
                       popup, uncleared>>,
           Logins!HoldsWebLock' => lockHeld',
           OneHolder', Moves(Logins!HoldsWebLock, Logins!HoldsWebLock')
    PROVE  LoginsKept
<1>1. CapturingNow' <=> job' # None
  BY JobKinds
<1>2. Logins!TypeOK'
  BY JobKinds DEF LoginsInv, Logins!TypeOK, Fewer
<1>3. CapturesAreCounted'
  <2>1. popup # None => popup.tab \in Tabs
    BY LoginsFacts DEF Logins!Popups
  <2> QED
    BY <1>1, <2>1 DEF LoginsInv, CapturesAreCounted, Fewer
<1>4. OnlyWatched'
  BY <1>1 DEF LoginsInv, OnlyWatched, Fewer
<1>5. ASSUME NEW t \in Tabs
      PROVE  Wanted(t)'
  <2>1. Wanted(t)
    BY DEF LoginsInv
  <2> QED
    BY <1>1, <2>1 DEF Wanted, Logins!Pending, ClearsDetection, Fewer
<1> QED
  BY <1>1, <1>2, <1>3, <1>4, <1>5 DEF LoginsKept, LoginsInv

LEMMA BeginCaptureKeeps ==
    ASSUME Shared, WebLock, LoginsInv, NEW t \in Tabs, Logins!BeginCapture(t)
    PROVE  LoginsKept /\ Steady
<1>1. /\ t \in asked /\ job = None
      /\ asked' = asked \ {t}
      /\ job' = [kind |-> "capture", tab |-> t, keeps |-> FALSE, ours |-> FALSE,
                 pc |-> "check"]
      /\ UNCHANGED <<lockHeld, session, ops, faults, watch, enabled, permitted, retain,
                     enabling, open, stored, ids, due, popup, uncleared>>
  BY DEF Logins!BeginCapture
<1>2. job' \in CaptureJobs
  BY <1>1 DEF CaptureJobs
<1>3. job'.kind = "capture" /\ job'.pc = "check" /\ job'.keeps = FALSE
  BY <1>1
<1>4. CaptureInv'
  BY <1>3 DEF CaptureInv
<1>5. watch
  BY <1>1 DEF LoginsInv, OnlyWatched
<1>6. Cardinality(asked') = Cardinality(asked) - 1
  BY <1>1, AskedCounts, LoginsFacts
<1>7. ids + Cardinality(asked') + (IF job' # None THEN 1 ELSE 0) <= ops
  BY <1>1, <1>6, Counts
<1>8. /\ OneHolder' /\ Moves(Logins!HoldsWebLock, Logins!HoldsWebLock')
      /\ Logins!HoldsWebLock' => lockHeld'
  BY <1>1, <1>3 DEF OneHolder, Moves, Logins!HoldsWebLock, WebLock
<1>9. Steady
  BY <1>1, BoundsAssumption DEF Steady, Shared
<1> QED
  BY <1>1, <1>2, <1>4, <1>5, <1>7, <1>8, <1>9, CaptureMoves, WithoutIsFewer

LEMMA ContinueKeeps ==
    ASSUME Shared, WebLock, LoginsInv, Logins!Continue
    PROVE  LoginsKept /\ Steady
<1>1. /\ job # None /\ job.kind = "capture" /\ job.pc \in {"check", "tab", "session"}
      /\ UNCHANGED <<lockHeld, session, ops, faults, watch, enabled, permitted, retain,
                     enabling, open, stored, ids, asked, due, popup, uncleared>>
      /\ \/ job' = None
         \/ /\ job.pc = "check" /\ Logins!DetectionOn
            /\ job' = [job EXCEPT !.pc = "tab"]
         \/ /\ job.pc = "tab" /\ job.tab \in open
            /\ job' = [job EXCEPT !.pc = "session", !.keeps = retain]
         \/ /\ job.pc = "session" /\ session
            /\ job' = [job EXCEPT !.pc = "enter", !.ours = TRUE]
  BY DEF Logins!Continue
<1>2. /\ job \in CaptureJobs /\ CaptureInv /\ watch
      /\ retain \in BOOLEAN
  BY <1>1, LoginsFacts DEF LoginsInv, OnlyWatched
<1>3. job' # None => /\ job' \in CaptureJobs
                     /\ CaptureInv'
                     /\ job'.pc \in {"tab", "session", "enter"}
  <2>1. CASE job.pc = "check" /\ Logins!DetectionOn /\ job' = [job EXCEPT !.pc = "tab"]
    <3>1. job' \in CaptureJobs /\ job'.pc = "tab" /\ job'.keeps = job.keeps
      BY <1>2, <2>1 DEF CaptureJobs
    <3> QED
      BY <1>1, <1>2, <2>1, <3>1 DEF CaptureInv
  <2>2. CASE /\ job.pc = "tab" /\ job.tab \in open
             /\ job' = [job EXCEPT !.pc = "session", !.keeps = retain]
    <3>1. /\ job' \in CaptureJobs /\ job'.pc = "session" /\ job'.keeps = retain
          /\ job'.tab = job.tab
      BY <1>2, <2>2 DEF CaptureJobs
    <3> QED
      BY <1>1, <1>2, <2>2, <3>1 DEF CaptureInv
  <2>3. CASE job.pc = "session" /\ job' = [job EXCEPT !.pc = "enter", !.ours = TRUE]
    <3>1. /\ job' \in CaptureJobs /\ job'.pc = "enter" /\ job'.keeps = job.keeps
          /\ job'.tab = job.tab
      BY <1>2, <2>3 DEF CaptureJobs
    <3> QED
      BY <1>1, <1>2, <2>3, <3>1 DEF CaptureInv
  <2> QED
    BY <1>1, <2>1, <2>2, <2>3
<1>4. ids + Cardinality(asked') + (IF job' # None THEN 1 ELSE 0) <= ops
  BY <1>1, Counts
<1>5. /\ OneHolder' /\ Moves(Logins!HoldsWebLock, Logins!HoldsWebLock')
      /\ Logins!HoldsWebLock' => lockHeld'
  BY <1>1, <1>3 DEF OneHolder, Moves, Logins!HoldsWebLock, WebLock
<1>6. Steady
  BY <1>1, BoundsAssumption DEF Steady, Shared
<1> QED
  BY <1>1, <1>2, <1>3, <1>4, <1>5, <1>6, CaptureMoves, WithoutIsFewer

LEMMA EnterSessionKeeps ==
    ASSUME Shared, WebLock, LoginsInv, Logins!EnterSession
    PROVE  LoginsKept /\ Steady
<1>1. /\ job # None /\ job.kind = "capture" /\ job.pc = "enter" /\ ~lockHeld
      /\ UNCHANGED <<session, ops, faults, watch, enabled, permitted, retain, enabling,
                     open, stored, ids, asked, due, popup, uncleared>>
      /\ \/ lockHeld' /\ job' = [job EXCEPT !.pc = "save"]
         \/ job' = None /\ lockHeld' = lockHeld
  BY DEF Logins!EnterSession, Logins!Goto
<1>2. job \in CaptureJobs /\ CaptureInv /\ watch
  BY <1>1, LoginsFacts DEF LoginsInv, OnlyWatched
<1>3. job' # None => /\ job' \in CaptureJobs
                     /\ job'.kind = "capture" /\ job'.pc = "save"
                     /\ job'.keeps = job.keeps /\ job'.tab = job.tab
                     /\ lockHeld'
  BY <1>1, <1>2 DEF CaptureJobs
<1>4. job' # None => CaptureInv'
  BY <1>1, <1>2, <1>3 DEF CaptureInv
<1>5. ids + Cardinality(asked') + (IF job' # None THEN 1 ELSE 0) <= ops
  BY <1>1, Counts
<1>6. /\ OneHolder' /\ Moves(Logins!HoldsWebLock, Logins!HoldsWebLock')
      /\ Logins!HoldsWebLock' => lockHeld'
  <2>1. ~Logins!HoldsWebLock /\ lockHeld \in BOOLEAN
    BY <1>1 DEF WebLock, Shared
  <2>2. CASE job' = None /\ lockHeld' = lockHeld
    BY <1>1, <2>1, <2>2 DEF OneHolder, Moves, Logins!HoldsWebLock
  <2>3. CASE job' # None
    BY <1>1, <1>3, <2>1, <2>3 DEF OneHolder, Moves, Logins!HoldsWebLock
  <2>4. [job EXCEPT !.pc = "save"] \in CaptureJobs
    BY <1>2 DEF CaptureJobs
  <2> QED
    BY <1>1, <2>2, <2>3, <2>4, JobKinds
<1>7. Steady
  BY <1>1, BoundsAssumption DEF Steady, Shared
<1> QED
  BY <1>1, <1>2, <1>3, <1>4, <1>5, <1>6, <1>7, CaptureMoves, WithoutIsFewer

LEMMA SaveDropsStaleKeeps ==
    ASSUME Shared, WebLock, LoginsInv, Logins!SaveDropsStale
    PROVE  LoginsKept /\ Steady
<1>1. /\ job # None /\ job.kind = "capture" /\ job.pc = "save"
      /\ UNCHANGED <<session, ops, watch, enabled, permitted, retain, enabling, open,
                     ids, asked, due, popup, uncleared>>
      /\ \/ /\ stored' = Logins!Without({t \in Tabs : Logins!Stale(t)})
            /\ job' = [job EXCEPT !.pc = "store"]
            /\ lockHeld' = lockHeld
         \/ job' = None /\ lockHeld' = FALSE /\ stored' = stored
  BY DEF Logins!SaveDropsStale, Logins!Goto, Logins!LeaveBoth
<1>2. job \in CaptureJobs /\ CaptureInv /\ watch
  BY <1>1, LoginsFacts DEF LoginsInv, OnlyWatched
<1>3. lockHeld /\ ~Logins!Popup("remove")
  BY <1>1 DEF WebLock, Logins!HoldsWebLock
<1>4. [job EXCEPT !.pc = "store"] \in CaptureJobs
  BY <1>2 DEF CaptureJobs
<1>5. \/ job' = None /\ lockHeld' = FALSE
      \/ /\ job' \in CaptureJobs /\ job' # None
         /\ job'.kind = "capture" /\ job'.pc = "store"
         /\ job'.keeps = job.keeps /\ job'.tab = job.tab
         /\ lockHeld' = lockHeld
  BY <1>1, <1>2, <1>4, JobKinds DEF CaptureJobs
<1>6. job' # None => CaptureInv'
  BY <1>1, <1>2, <1>5 DEF CaptureInv
<1>7. ids + Cardinality(asked') + (IF job' # None THEN 1 ELSE 0) <= ops
  BY <1>1, Counts
<1>8. Fewer
  BY <1>1, WithoutIsFewer
<1>9. /\ OneHolder' /\ Moves(Logins!HoldsWebLock, Logins!HoldsWebLock')
      /\ Logins!HoldsWebLock' => lockHeld'
  BY <1>1, <1>3, <1>5 DEF OneHolder, Moves, Logins!HoldsWebLock
<1>10. Steady
  BY BoundsAssumption DEF Logins!SaveDropsStale, Steady, Shared
<1> QED
  BY <1>1, <1>2, <1>5, <1>6, <1>7, <1>8, <1>9, <1>10, CaptureMoves

\* The capture that is stored is wanted: its checks still hold, or the cleanup
\* is waiting.
LEMMA SaveStoresKeeps ==
    ASSUME Shared, WebLock, LoginsInv, Logins!SaveStores
    PROVE  LoginsKept /\ Steady
<1>1. /\ job # None /\ job.kind = "capture" /\ job.pc = "store"
      /\ job' = None /\ lockHeld' = FALSE
      /\ UNCHANGED <<session, ops, watch, enabled, permitted, retain, enabling, open,
                     asked, due, popup, uncleared>>
      /\ \/ /\ ids' = ids + 1
            /\ stored' = [stored EXCEPT ![job.tab] =
                   [id |-> ids + 1, ours |-> TRUE, keeps |-> job.keeps, late |-> FALSE]]
         \/ UNCHANGED <<ids, stored>>
  BY DEF Logins!SaveStores, Logins!LeaveBoth
<1>2. job \in CaptureJobs /\ CaptureInv /\ watch
  BY <1>1, LoginsFacts DEF LoginsInv, OnlyWatched
<1>3. lockHeld /\ ~Logins!Popup("remove")
  BY <1>1 DEF WebLock, Logins!HoldsWebLock
<1>4. /\ OneHolder' /\ Moves(Logins!HoldsWebLock, Logins!HoldsWebLock')
      /\ ~Logins!HoldsWebLock'
  BY <1>1, <1>3 DEF OneHolder, Moves, Logins!HoldsWebLock
<1>5. Steady
  BY BoundsAssumption DEF Logins!SaveStores, Logins!LeaveBoth, Steady, Shared
<1>6. CASE UNCHANGED <<ids, stored>>
  <2>1. ids + Cardinality(asked') + (IF job' # None THEN 1 ELSE 0) <= ops
    BY <1>1, Counts
  <2> QED
    BY <1>1, <1>4, <1>5, <1>6, <2>1, CaptureMoves, WithoutIsFewer
<1>7. CASE /\ ids' = ids + 1
           /\ stored' = [stored EXCEPT ![job.tab] =
                  [id |-> ids + 1, ours |-> TRUE, keeps |-> job.keeps, late |-> FALSE]]
  <2> DEFINE new == [id |-> ids + 1, ours |-> TRUE, keeps |-> job.keeps, late |-> FALSE]
  <2>1. job.tab \in Tabs /\ job.keeps \in BOOLEAN
    BY <1>2 DEF CaptureJobs
  <2>2. ids + 1 \in 1..MaxOps /\ ids' \in 0..MaxOps
    BY <1>1, <1>7, Counts
  <2>3. new \in Logins!Captures
    BY <2>1, <2>2 DEF Logins!Captures
  <2>4. /\ stored' \in [Tabs -> Logins!Captures \union {None}]
        /\ stored'[job.tab] = new
        /\ \A t \in Tabs : t # job.tab => stored'[t] = stored[t]
    BY <1>7, <2>1, <2>3, LoginsFacts
  <2>5. Logins!TypeOK'
    BY <1>1, <1>4, <2>2, <2>4 DEF LoginsInv, Logins!TypeOK
  <2>6. CapturesAreCounted'
    <3>1. ids' + Cardinality(asked') + 0 <= ops'
      BY <1>1, <1>7, Counts
    <3>2. \A t \in Tabs : stored[t] # None => stored[t].id <= ids /\ stored[t].id \in Int
      BY LoginsFacts DEF LoginsInv, CapturesAreCounted, Logins!Captures
    <3>3. \A t \in Tabs : stored'[t] # None => stored'[t].id <= ids'
      BY <1>7, <2>4, <3>2, Counts
    <3>4. popup # None => popup.id <= ids /\ popup.id \in Int
                          /\ (popup.pc = "inspect" => popup.id = 0)
      BY LoginsFacts DEF LoginsInv, CapturesAreCounted, Logins!Popups
    <3>5. popup' # None => popup'.id <= ids' /\ (popup'.pc = "inspect" => popup'.id = 0)
      BY <1>1, <1>7, <3>4, Counts
    <3> QED
      BY <1>1, <1>3, <3>1, <3>3, <3>5 DEF CapturesAreCounted
  <2>7. OnlyWatched'
    BY <1>1, <1>2 DEF OnlyWatched
  <2>8. ASSUME NEW t \in Tabs
        PROVE  Wanted(t)'
    <3>1. CASE t # job.tab
      <4>1. Wanted(t)
        BY DEF LoginsInv
      <4> QED
        BY <1>1, <2>4, <3>1, <4>1 DEF Wanted, Logins!Pending, ClearsDetection
    <3>2. CASE t = job.tab
      <4>1. /\ Logins!DetectionOn \/ "detection" \in due
            /\ job.tab \in open \union due
            /\ job.keeps => retain
        BY <1>1, <1>2 DEF CaptureInv
      <4>2. stored'[t].ours /\ stored'[t].keeps = job.keeps
        BY <2>4, <3>2
      <4> QED
        BY <1>1, <3>2, <4>1, <4>2 DEF Wanted, Logins!Pending, ClearsDetection
    <3> QED
      BY <3>1, <3>2
  <2> QED
    BY <1>1, <1>4, <1>5, <2>5, <2>6, <2>7, <2>8 DEF LoginsKept, LoginsInv
<1> QED
  BY <1>1, <1>6, <1>7

\* A step that leaves the capture lock alone, stores nothing and asks for the
\* cleanup of what it takes away.
LEMMA JobStays ==
    ASSUME Shared, WebLock, LoginsInv, Steady,
           job' = job, Fewer,
           asked' \subseteq Tabs,
           ids + Cardinality(asked') + (IF CapturingNow THEN 1 ELSE 0) <= ops',
           asked' # asked => watch,
           due \subseteq due', due' \subseteq Logins!Cleanups, due' \intersect open' = {},
           open' \subseteq open, open \subseteq open' \union due',
           permitted' \in BOOLEAN, retain' \in BOOLEAN, enabling' \in BOOLEAN,
           Logins!DetectionOn => Logins!DetectionOn' \/ "detection" \in due',
           retain => retain',
           popup' \in Logins!Popups \union {None},
           popup' # None => popup'.id <= ids /\ (popup'.pc = "inspect" => popup'.id = 0),
           popup' # None /\ popup'.pc = "remove" /\ stored'[popup'.tab] # None =>
               stored'[popup'.tab].id = popup'.id,
           UNCHANGED <<watch, enabled, ids, uncleared>>,
           Logins!HoldsWebLock' => lockHeld',
           OneHolder', Moves(Logins!HoldsWebLock, Logins!HoldsWebLock')
    PROVE  LoginsKept
<1>1. Logins!TypeOK'
  BY DEF LoginsInv, Logins!TypeOK, Fewer
<1>2. CapturesAreCounted'
  <2>1. \A t \in Tabs : stored'[t] # None => stored'[t].id <= ids'
    BY DEF LoginsInv, CapturesAreCounted, Fewer
  <2> QED
    BY <2>1 DEF CapturesAreCounted
<1>3. OnlyWatched'
  BY DEF LoginsInv, OnlyWatched, Fewer
<1>4. CapturingNow' => CaptureInv'
  BY DEF LoginsInv, CaptureInv
<1>5. ASSUME job' # None, ~CapturingNow'
      PROVE  WorkInv'
  <2>1. WorkInv
    BY <1>5 DEF LoginsInv
  <2> QED
    BY <2>1 DEF WorkInv, Fewer
<1>6. ASSUME NEW t \in Tabs
      PROVE  Wanted(t)'
  <2>1. Wanted(t)
    BY DEF LoginsInv
  <2> QED
    BY <2>1 DEF Wanted, Logins!Pending, ClearsDetection, Fewer
<1> QED
  BY <1>1, <1>2, <1>3, <1>4, <1>5, <1>6 DEF LoginsKept, LoginsInv

\* What a popup that stays as it is still knows.
LEMMA PopupStays ==
    ASSUME Shared, LoginsInv, Fewer, popup' = popup
    PROVE  /\ popup' \in Logins!Popups \union {None}
           /\ popup' # None => popup'.id <= ids /\ (popup'.pc = "inspect" => popup'.id = 0)
           /\ popup' # None /\ popup'.pc = "remove" /\ stored'[popup'.tab] # None =>
                  stored'[popup'.tab].id = popup'.id
<1>1. popup # None => popup \in Logins!Popups /\ popup.tab \in Tabs
  BY LoginsFacts DEF Logins!Popups
<1> QED
  BY <1>1 DEF LoginsInv, CapturesAreCounted, Fewer

\* The Web Lock where neither the job nor the popup moves it.
LEMMA LockStays ==
    ASSUME WebLock, job' = job, UNCHANGED lockHeld,
           Logins!Popup("remove")' <=> Logins!Popup("remove")
    PROVE  /\ Logins!HoldsWebLock' => lockHeld'
           /\ OneHolder'
           /\ Moves(Logins!HoldsWebLock, Logins!HoldsWebLock')
BY DEF WebLock, OneHolder, Moves, Logins!HoldsWebLock

LEMMA AskCaptureKeeps ==
    ASSUME Shared, WebLock, LoginsInv, NEW t \in Tabs, Logins!AskCapture(t)
    PROVE  LoginsKept /\ Steady
<1>1. /\ t \notin asked /\ watch
      /\ ops < MaxOps /\ ops' = ops + 1
      /\ asked' = asked \union {t}
      /\ UNCHANGED <<lockHeld, session, faults, watch, enabled, permitted, retain,
                     enabling, open, stored, ids, due, job, popup, uncleared>>
  BY DEF Logins!AskCapture
<1>2. Steady
  BY <1>1, BoundsAssumption DEF Steady, Shared
<1>3. /\ Fewer
      /\ asked' \subseteq Tabs
      /\ Cardinality(asked') = Cardinality(asked) + 1
  BY <1>1, LoginsFacts, AskedCounts, WithoutIsFewer
<1>4. ids + Cardinality(asked') + (IF CapturingNow THEN 1 ELSE 0) <= ops'
  BY <1>1, <1>3, Counts
<1>5. /\ popup' \in Logins!Popups \union {None}
      /\ popup' # None => popup'.id <= ids /\ (popup'.pc = "inspect" => popup'.id = 0)
      /\ popup' # None /\ popup'.pc = "remove" /\ stored'[popup'.tab] # None =>
             stored'[popup'.tab].id = popup'.id
  BY <1>1, <1>3, PopupStays
<1>6. due' \intersect open' = {}
  BY <1>1 DEF LoginsInv
<1> QED
  BY <1>1, <1>2, <1>3, <1>4, <1>5, <1>6, LoginsFacts, LockStays, JobStays

\* Switching something on takes nothing away.
LEMMA SwitchOnKeeps ==
    ASSUME Shared, WebLock, LoginsInv, Logins!Retain \/ Logins!AskDetection
    PROVE  LoginsKept /\ Steady
<1>1. /\ ops < MaxOps /\ ops' = ops + 1
      /\ permitted' = permitted \/ permitted' = TRUE
      /\ retain' = retain \/ retain' = TRUE
      /\ enabling' = enabling \/ enabling' = TRUE
      /\ UNCHANGED <<lockHeld, session, faults, watch, enabled, open, stored, ids, asked,
                     due, job, popup, uncleared>>
  BY DEF Logins!Retain, Logins!AskDetection
<1>2. Steady
  BY <1>1, BoundsAssumption DEF Steady, Shared
<1>3. Fewer
  BY <1>1, WithoutIsFewer
<1>4. ids + Cardinality(asked') + (IF CapturingNow THEN 1 ELSE 0) <= ops'
  BY <1>1, Counts
<1>5. /\ popup' \in Logins!Popups \union {None}
      /\ popup' # None => popup'.id <= ids /\ (popup'.pc = "inspect" => popup'.id = 0)
      /\ popup' # None /\ popup'.pc = "remove" /\ stored'[popup'.tab] # None =>
             stored'[popup'.tab].id = popup'.id
  BY <1>1, <1>3, PopupStays
<1>6. due' \intersect open' = {}
  BY <1>1 DEF LoginsInv
<1>7. permitted' \in BOOLEAN /\ retain' \in BOOLEAN /\ enabling' \in BOOLEAN
  BY <1>1, LoginsFacts
<1>8. (retain => retain') /\ (permitted => permitted')
  BY <1>1
<1>9. asked' \subseteq Tabs /\ due' \subseteq Logins!Cleanups
  BY <1>1, LoginsFacts
<1> QED
  BY <1>1, <1>2, <1>3, <1>4, <1>5, <1>6, <1>7, <1>8, <1>9, LockStays, JobStays

\* The browser closes a tab, withdraws the permission or lets time pass.
LEMMA BrowserKeeps ==
    ASSUME Shared, WebLock, LoginsInv,
           \/ \E t \in Tabs : Logins!Expire(t) \/ Logins!CloseTab(t)
           \/ Logins!RevokePermission
    PROVE  LoginsKept /\ Steady
<1>1. /\ ops' = ops \/ (ops < MaxOps /\ ops' = ops + 1)
      /\ permitted' = permitted \/ permitted' = FALSE
      /\ open' \subseteq open
      /\ UNCHANGED <<lockHeld, session, faults, watch, enabled, retain, enabling, ids,
                     asked, job, popup, uncleared>>
  BY DEF Logins!Expire, Logins!CloseTab, Logins!RevokePermission
<1>2. Steady
  BY <1>1, BoundsAssumption DEF Steady, Shared
<1>3. /\ stored \in [Tabs -> Logins!Captures \union {None}]
      /\ due \subseteq Logins!Cleanups /\ open \subseteq Tabs
      /\ due \intersect open = {}
      /\ asked \subseteq Tabs
      /\ permitted \in BOOLEAN /\ retain \in BOOLEAN /\ enabling \in BOOLEAN
  BY LoginsFacts DEF LoginsInv
<1>4. Fewer
  <2>1. ASSUME NEW t \in Tabs, Logins!Expire(t)
        PROVE  Fewer
    <3>1. /\ stored[t] \in Logins!Captures
          /\ stored' = [stored EXCEPT ![t] = [stored[t] EXCEPT !.late = TRUE]]
      BY <1>3, <2>1 DEF Logins!Expire
    <3>2. [stored[t] EXCEPT !.late = TRUE] \in Logins!Captures
      BY <3>1 DEF Logins!Captures
    <3>3. /\ stored'[t] = [stored[t] EXCEPT !.late = TRUE]
          /\ \A u \in Tabs : u # t => stored'[u] = stored[u]
      BY <1>3, <3>1
    <3>4. /\ stored[t] # None
          /\ stored'[t].id = stored[t].id /\ stored'[t].ours = stored[t].ours
          /\ stored'[t].keeps = stored[t].keeps
      BY <2>1, <3>1, <3>3 DEF Logins!Captures, Logins!Expire
    <3>5. stored' \in [Tabs -> Logins!Captures \union {None}]
      BY <1>3, <3>1, <3>2
    <3> QED
      BY <3>3, <3>4, <3>5 DEF Fewer
  <2>2. UNCHANGED stored => Fewer
    BY WithoutIsFewer
  <2> QED
    BY <2>1, <2>2 DEF Logins!CloseTab, Logins!RevokePermission
<1>5. /\ due \subseteq due' /\ due' \subseteq Logins!Cleanups
      /\ due' \intersect open' = {}
      /\ open \subseteq open' \union due'
      /\ Logins!DetectionOn => Logins!DetectionOn' \/ "detection" \in due'
  <2>1. ASSUME NEW t \in Tabs, Logins!Expire(t)
        PROVE  UNCHANGED <<permitted, open, due>>
    BY <2>1 DEF Logins!Expire
  <2>2. ASSUME NEW t \in Tabs, Logins!CloseTab(t)
        PROVE  /\ permitted' = permitted /\ open' = open \ {t} /\ due' = due \union {t}
               /\ t \in Logins!Cleanups
    BY <2>2, LoginsFacts DEF Logins!CloseTab
  <2>3. ASSUME Logins!RevokePermission
        PROVE  /\ open' = open /\ due' = due \union {"detection", "tabs"}
               /\ {"detection", "tabs"} \subseteq Logins!Cleanups
               /\ {"detection", "tabs"} \intersect open = {}
    BY <1>3, <2>3, TabsAssumption DEF Logins!RevokePermission, Logins!Cleanups
  <2> QED
    BY <1>1, <1>3, <2>1, <2>2, <2>3
<1>6. /\ popup' \in Logins!Popups \union {None}
      /\ popup' # None => popup'.id <= ids /\ (popup'.pc = "inspect" => popup'.id = 0)
      /\ popup' # None /\ popup'.pc = "remove" /\ stored'[popup'.tab] # None =>
             stored'[popup'.tab].id = popup'.id
  BY <1>1, <1>4, PopupStays
<1>7. ids + Cardinality(asked') + (IF CapturingNow THEN 1 ELSE 0) <= ops'
  BY <1>1, Counts
<1>8. permitted' \in BOOLEAN
  BY <1>1, <1>3
<1> QED
  BY <1>1, <1>2, <1>3, <1>4, <1>5, <1>6, <1>7, <1>8, LockStays, JobStays

LEMMA OpenPopupKeeps ==
    ASSUME Shared, WebLock, LoginsInv, NEW t \in Tabs, Logins!OpenPopup(t)
    PROVE  LoginsKept /\ Steady
<1>1. /\ popup = None
      /\ ops < MaxOps /\ ops' = ops + 1
      /\ popup' = [pc |-> "inspect", tab |-> t, ours |-> TRUE, id |-> 0]
      /\ UNCHANGED <<lockHeld, session, faults, watch, enabled, permitted, retain,
                     enabling, open, stored, ids, asked, due, job, uncleared>>
  BY DEF Logins!OpenPopup
<1>2. Steady
  BY <1>1, BoundsAssumption DEF Steady, Shared
<1>3. Fewer
  BY <1>1, WithoutIsFewer
<1>4. ids + Cardinality(asked') + (IF CapturingNow THEN 1 ELSE 0) <= ops' /\ 0 <= ids
  BY <1>1, Counts
<1>5. popup' \in Logins!Popups /\ popup'.pc = "inspect" /\ popup'.id = 0
  BY <1>1, BoundsAssumption DEF Logins!Popups
<1>6. due' \intersect open' = {}
  BY <1>1 DEF LoginsInv
<1> QED
  BY <1>1, <1>2, <1>3, <1>4, <1>5, <1>6, LoginsFacts, LockStays, JobStays

\* A review or a dismissal ends, with the capture or without.
LEMMA PopupCloses ==
    ASSUME Shared, WebLock, LoginsInv, Steady, popup # None, popup' = None,
           stored' = stored \/ stored' = Logins!Without({popup.tab}),
           \/ ~lockHeld /\ UNCHANGED lockHeld
           \/ popup.pc = "remove" /\ lockHeld' = FALSE,
           UNCHANGED <<ops, watch, enabled, permitted, retain, enabling, open, ids, asked,
                       due, job, uncleared>>
    PROVE  LoginsKept
<1>1. Fewer
  BY WithoutIsFewer
<1>2. ids + Cardinality(asked') + (IF CapturingNow THEN 1 ELSE 0) <= ops'
  BY Counts
<1>3. due' \intersect open' = {}
  BY DEF LoginsInv
<1>4. /\ Logins!HoldsWebLock' => lockHeld'
      /\ OneHolder'
      /\ Moves(Logins!HoldsWebLock, Logins!HoldsWebLock')
  <2>1. CASE ~lockHeld /\ UNCHANGED lockHeld
    <3>1. ~Logins!HoldsWebLock
      BY <2>1 DEF WebLock, Shared
    <3>2. ~Logins!HoldsWebLock' /\ OneHolder'
      BY <3>1 DEF Logins!HoldsWebLock, OneHolder
    <3> QED
      BY <2>1, <3>1, <3>2 DEF Moves
  <2>2. CASE popup.pc = "remove" /\ lockHeld' = FALSE
    <3>1. Logins!HoldsWebLock /\ ~Logins!Capturing({"save", "store"})
      BY <2>2 DEF WebLock, Logins!HoldsWebLock
    <3>2. ~Logins!HoldsWebLock' /\ OneHolder'
      BY <3>1 DEF Logins!HoldsWebLock, OneHolder
    <3> QED
      BY <2>2, <3>1, <3>2 DEF Moves
  <2> QED
    BY <2>1, <2>2
<1> QED
  BY <1>1, <1>2, <1>3, <1>4, LoginsFacts, JobStays

LEMMA ReviewReadsKeeps ==
    ASSUME Shared, WebLock, LoginsInv, Logins!ReviewReads
    PROVE  LoginsKept /\ Steady
<1>1. /\ popup # None /\ popup.pc = "inspect" /\ ~lockHeld
      /\ UNCHANGED <<lockHeld, session, ops, watch, enabled, permitted, retain, enabling,
                     open, ids, asked, due, job, uncleared>>
      /\ \/ popup' = None /\ (stored' = stored \/ stored' = Logins!Without({popup.tab}))
         \/ /\ stored[popup.tab] # None
            /\ popup' = [popup EXCEPT !.pc = "shown", !.id = stored[popup.tab].id]
            /\ stored' = stored
  BY DEF Logins!ReviewReads, Logins!Readable
<1>2. Steady
  BY BoundsAssumption DEF Logins!ReviewReads, Steady, Shared
<1>3. CASE /\ stored[popup.tab] # None
           /\ popup' = [popup EXCEPT !.pc = "shown", !.id = stored[popup.tab].id]
           /\ stored' = stored
  <2>1. popup \in Logins!Popups /\ popup.tab \in Tabs
    BY <1>1, LoginsFacts DEF Logins!Popups
  <2>2. stored[popup.tab].id <= ids /\ stored[popup.tab].id \in 1..MaxOps
    BY <1>3, <2>1, LoginsFacts DEF LoginsInv, CapturesAreCounted, Logins!Captures
  <2>3. /\ popup' \in Logins!Popups /\ popup' # None /\ popup'.pc = "shown"
        /\ popup'.id = stored[popup.tab].id
    <3>1. stored[popup.tab].id \in 0..MaxOps
      BY <2>2, BoundsAssumption
    <3>2. popup' = [pc |-> "shown", tab |-> popup.tab, ours |-> popup.ours,
                    id |-> stored[popup.tab].id]
      BY <1>3, <2>1 DEF Logins!Popups
    <3>3. popup' \in Logins!Popups
      BY <2>1, <3>1, <3>2 DEF Logins!Popups
    <3> QED
      BY <3>2, <3>3, LoginsNone
  <2>4. Fewer
    BY <1>3, WithoutIsFewer
  <2>5. ids + Cardinality(asked') + (IF CapturingNow THEN 1 ELSE 0) <= ops'
    BY <1>1, Counts
  <2>6. due' \intersect open' = {}
    BY <1>1 DEF LoginsInv
  <2> QED
    BY <1>1, <1>2, <2>2, <2>3, <2>4, <2>5, <2>6, LoginsFacts, LockStays, JobStays
<1>4. CASE popup' = None /\ (stored' = stored \/ stored' = Logins!Without({popup.tab}))
  BY <1>1, <1>2, <1>4, PopupCloses
<1> QED
  BY <1>1, <1>2, <1>3, <1>4

LEMMA DismissKeeps ==
    ASSUME Shared, WebLock, LoginsInv, Logins!Dismiss
    PROVE  LoginsKept /\ Steady
<1>1. /\ popup # None /\ popup.pc = "shown" /\ ~lockHeld
      /\ UNCHANGED <<session, ops, faults, watch, enabled, permitted, retain, enabling,
                     open, stored, ids, asked, due, job, uncleared>>
      /\ \/ popup' = None /\ lockHeld' = lockHeld
         \/ /\ stored[popup.tab].id = popup.id
            /\ popup' = [popup EXCEPT !.pc = "remove"]
            /\ lockHeld' = TRUE
  BY DEF Logins!Dismiss
<1>2. Steady
  BY <1>1, BoundsAssumption DEF Steady, Shared
<1>3. CASE /\ stored[popup.tab].id = popup.id
           /\ popup' = [popup EXCEPT !.pc = "remove"]
           /\ lockHeld' = TRUE
  <2>1. popup \in Logins!Popups
    BY <1>1, LoginsFacts
  <2>2. /\ popup' \in Logins!Popups /\ popup' # None /\ popup'.pc = "remove"
        /\ popup'.id = popup.id /\ popup'.tab = popup.tab
    BY <1>3, <2>1, LoginsNone DEF Logins!Popups
  <2>3. popup.id <= ids
    BY <1>1 DEF LoginsInv, CapturesAreCounted
  <2>4. Fewer
    BY <1>1, WithoutIsFewer
  <2>5. ids + Cardinality(asked') + (IF CapturingNow THEN 1 ELSE 0) <= ops'
    BY <1>1, Counts
  <2>6. due' \intersect open' = {}
    BY <1>1 DEF LoginsInv
  <2>7. ~Logins!HoldsWebLock
    BY <1>1 DEF WebLock, Shared
  <2>8. OneHolder' /\ Moves(Logins!HoldsWebLock, Logins!HoldsWebLock')
    BY <1>1, <1>3, <2>2, <2>7 DEF Moves, OneHolder, Logins!HoldsWebLock
  <2> QED
    BY <1>1, <1>2, <1>3, <2>2, <2>3, <2>4, <2>5, <2>6, <2>8, LoginsFacts, JobStays
<1>4. CASE popup' = None /\ lockHeld' = lockHeld
  BY <1>1, <1>2, <1>4, PopupCloses
<1> QED
  BY <1>1, <1>2, <1>3, <1>4

LEMMA DismissRemovesKeeps ==
    ASSUME Shared, WebLock, LoginsInv, Logins!DismissRemoves
    PROVE  LoginsKept /\ Steady
<1>1. Steady
  BY BoundsAssumption DEF Logins!DismissRemoves, Steady, Shared
<1> QED
  BY <1>1, PopupCloses DEF Logins!DismissRemoves

-----------------------------------------------------------------------------
(* The cleanups and the settings                                             *)

\* What a step leaves of the popup and the Web Lock: both, or neither when the
\* popup was removing a capture.
PopupRests ==
    \/ UNCHANGED <<popup, lockHeld>>
    \/ Logins!Popup("remove") /\ popup' = None /\ lockHeld' = FALSE

\* A step of a cleanup or of a change of a setting.
LEMMA WorkMoves ==
    ASSUME Shared, WebLock, LoginsInv, ~CapturingNow,
           job' = None \/ (job' \in WorkJobs /\ WorkInv'),
           Fewer, PopupRests,
           due' \subseteq due, uncleared' \subseteq Logins!Cleanups,
           enabled' \in BOOLEAN, retain' \in BOOLEAN, enabling' \in BOOLEAN,
           ops' = ops \/ ops' = ops + 1,
           \A t \in Tabs : Wanted(t)',
           UNCHANGED <<watch, permitted, open, ids, asked>>
    PROVE  LoginsKept
<1>1. ~CapturingNow'
  BY JobKinds
<1>2. OneHolder' /\ Moves(Logins!HoldsWebLock, Logins!HoldsWebLock')
  <2>1. ~Logins!Capturing({"save", "store"}) /\ ~Logins!Capturing({"save", "store"})'
    BY <1>1
  <2>2. CASE UNCHANGED <<popup, lockHeld>>
    BY <2>1, <2>2 DEF OneHolder, Moves, Logins!HoldsWebLock
  <2>3. CASE Logins!Popup("remove") /\ popup' = None /\ lockHeld' = FALSE
    BY <2>1, <2>3 DEF OneHolder, Moves, Logins!HoldsWebLock
  <2> QED
    BY <2>2, <2>3 DEF PopupRests
<1>3. Logins!HoldsWebLock' => lockHeld'
  BY <1>2 DEF Moves, WebLock, Shared
<1>4. popup' = popup \/ popup' = None
  BY DEF PopupRests
<1>5. Logins!TypeOK'
  BY <1>3, <1>4, JobKinds DEF LoginsInv, Logins!TypeOK, Fewer
<1>6. CapturesAreCounted'
  <2>1. popup # None => popup.tab \in Tabs
    BY LoginsFacts DEF Logins!Popups
  <2>2. ids + Cardinality(asked) <= ops
    BY Counts
  <2>3. ids' + Cardinality(asked') + (IF CapturingNow' THEN 1 ELSE 0) <= ops'
    BY <1>1, <2>2, Counts
  <2> QED
    BY <1>4, <2>1, <2>3 DEF LoginsInv, CapturesAreCounted, Fewer
<1>7. OnlyWatched'
  BY <1>1 DEF LoginsInv, OnlyWatched, Fewer
<1>8. due' \intersect open' = {}
  BY DEF LoginsInv
<1> QED
  BY <1>1, <1>2, <1>5, <1>6, <1>7, <1>8 DEF LoginsKept, LoginsInv

\* What is known of a cleanup or a change of a setting that works.
LEMMA WorkFacts ==
    ASSUME Shared, LoginsInv, job # None, ~CapturingNow
    PROVE  /\ job \in WorkJobs /\ WorkInv
           /\ job.cleanup \in {"session", "detection", "tabs"} \union Tabs
           /\ job.kind \in {"cleanup", "disable", "forget"}
           /\ job.todo \subseteq {"prefer", "clear", "retain"}
           /\ job.drop \subseteq Tabs
BY LoginsFacts DEF LoginsInv, WorkJobs, Logins!Cleanups

LEMMA BeginCleanupKeeps ==
    ASSUME Shared, WebLock, LoginsInv, NEW c \in Logins!Cleanups, Logins!BeginCleanup(c)
    PROVE  LoginsKept /\ Steady
<1>1. /\ c \in due /\ job = None
      /\ due' = due \ {c}
      /\ job' = [kind |-> "cleanup", cleanup |-> c, pc |-> "look", drop |-> {},
                 todo |-> {"clear"}]
      /\ UNCHANGED <<lockHeld, session, ops, faults, watch, enabled, permitted, retain,
                     enabling, open, stored, ids, asked, popup, uncleared>>
  BY DEF Logins!BeginCleanup
<1>2. job' \in WorkJobs /\ job' # None
  BY <1>1, JobKinds DEF WorkJobs
<1>3. job'.kind = "cleanup" /\ job'.cleanup = c /\ job'.pc = "look" /\ job'.todo = {"clear"}
  BY <1>1
<1>4. WorkInv'
  BY <1>1, <1>3 DEF WorkInv, LoginsInv
<1>5. ASSUME NEW t \in Tabs
      PROVE  Wanted(t)'
  <2>1. Wanted(t)
    BY DEF LoginsInv
  <2> QED
    BY <1>1, <1>2, <1>3, <2>1 DEF Wanted, Logins!Pending, ClearsDetection
<1>6. Fewer /\ PopupRests
  BY <1>1, WithoutIsFewer DEF PopupRests
<1>7. Steady
  BY <1>1, BoundsAssumption DEF Steady, Shared
<1> QED
  BY <1>1, <1>2, <1>4, <1>5, <1>6, <1>7, LoginsFacts, WorkMoves

\* A cleanup that has decided what is to go.
LEMMA WorkBegins ==
    ASSUME job \in WorkJobs, NEW drop \in SUBSET Tabs,
           NEW todo \in SUBSET {"prefer", "clear", "retain"},
           \/ job' = [job EXCEPT !.pc = "work", !.drop = drop] /\ job.todo = todo
           \/ job' = [job EXCEPT !.pc = "work", !.drop = drop, !.todo = todo]
    PROVE  /\ job' \in WorkJobs /\ job' # None
           /\ job'.kind = job.kind /\ job'.cleanup = job.cleanup /\ job'.pc = "work"
           /\ job'.todo = todo /\ job'.drop = drop
<1>1. job' = [kind |-> job.kind, cleanup |-> job.cleanup, pc |-> "work", drop |-> drop,
              todo |-> todo]
  BY DEF WorkJobs
<1>2. job' \in WorkJobs
  BY <1>1 DEF WorkJobs
<1> QED
  BY <1>1, <1>2, JobKinds

\* The cleanup decides what is to go.
LEMMA LookKeeps ==
    ASSUME Shared, WebLock, LoginsInv, Logins!Look
    PROVE  LoginsKept /\ Steady
<1>1. /\ job # None /\ job.kind = "cleanup" /\ job.pc = "look"
      /\ UNCHANGED <<lockHeld, session, ops, faults, watch, enabled, permitted, retain,
                     enabling, open, stored, ids, asked, due, popup, uncleared>>
  BY DEF Logins!Look
<1>2. /\ job \in WorkJobs /\ WorkInv
      /\ job.cleanup \in {"session", "detection", "tabs"} \union Tabs
  BY <1>1, WorkFacts
<1>3. /\ job.todo = {"clear"}
      /\ job.cleanup \in Tabs => job.cleanup \notin open
      /\ {"session", "detection", "tabs"} \intersect Tabs = {}
  BY <1>1, <1>2, TabsAssumption DEF WorkInv
<1>4. ASSUME NEW t \in Tabs
      PROVE  Wanted(t)
  BY DEF LoginsInv
<1>5. /\ job' = None \/ (job' \in WorkJobs /\ WorkInv')
      /\ \A t \in Tabs : Wanted(t)'
  <2>1. ASSUME job.cleanup = "session",
               job' = [job EXCEPT !.pc = "work",
                                  !.drop = {t \in Tabs : stored[t] # None /\ ~stored[t].ours}]
        PROVE  job' \in WorkJobs /\ WorkInv' /\ \A t \in Tabs : Wanted(t)'
    <3>1. /\ job' \in WorkJobs /\ job' # None
          /\ job'.kind = "cleanup" /\ job'.cleanup = "session" /\ job'.pc = "work"
          /\ job'.todo = {"clear"}
          /\ job'.drop = {t \in Tabs : stored[t] # None /\ ~stored[t].ours}
      BY <1>1, <1>2, <1>3, <2>1, WorkBegins
    <3>2. WorkInv'
      BY <1>1, <1>3, <3>1 DEF WorkInv
    <3>3. ASSUME NEW t \in Tabs
          PROVE  Wanted(t)'
      BY <1>1, <1>3, <1>4, <2>1, <3>1 DEF Wanted, Logins!Pending, ClearsDetection
    <3> QED
      BY <3>1, <3>2, <3>3
  <2>2. ASSUME job.cleanup = "tabs",
               job' = [job EXCEPT !.pc = "work", !.drop = Tabs \ open]
        PROVE  job' \in WorkJobs /\ WorkInv' /\ \A t \in Tabs : Wanted(t)'
    <3>1. /\ job' \in WorkJobs /\ job' # None
          /\ job'.kind = "cleanup" /\ job'.cleanup = "tabs" /\ job'.pc = "work"
          /\ job'.todo = {"clear"}
          /\ job'.drop = Tabs \ open
      BY <1>1, <1>2, <1>3, <2>2, WorkBegins
    <3>2. WorkInv'
      BY <1>1, <1>3, <3>1 DEF WorkInv
    <3>3. ASSUME NEW t \in Tabs
          PROVE  Wanted(t)'
      BY <1>1, <1>3, <1>4, <2>2, <3>1 DEF Wanted, Logins!Pending, ClearsDetection
    <3> QED
      BY <3>1, <3>2, <3>3
  <2>3. ASSUME job.cleanup = "detection", NEW step \in SUBSET {"prefer"},
               job' = [job EXCEPT !.pc = "work", !.drop = Tabs,
                                  !.todo = {"clear"} \union step]
        PROVE  job' \in WorkJobs /\ WorkInv' /\ \A t \in Tabs : Wanted(t)'
    <3>1. /\ job' \in WorkJobs /\ job' # None
          /\ job'.kind = "cleanup" /\ job'.cleanup = "detection" /\ job'.pc = "work"
          /\ job'.todo = {"clear"} \union step
          /\ job'.drop = Tabs
      <4>1. {"clear"} \union step \in SUBSET {"prefer", "clear", "retain"}
        BY <2>3
      <4> QED
        BY <1>1, <1>2, <2>3, <4>1, WorkBegins
    <3>2. WorkInv'
      BY <1>1, <1>3, <3>1 DEF WorkInv
    <3>3. ASSUME NEW t \in Tabs
          PROVE  Wanted(t)'
      BY <1>1, <1>3, <1>4, <2>3, <3>1 DEF Wanted, Logins!Pending, ClearsDetection
    <3> QED
      BY <3>1, <3>2, <3>3
  <2>4. ASSUME job.cleanup = "detection", Logins!DetectionOn, job' = None
        PROVE  \A t \in Tabs : Wanted(t)'
    BY <1>1, <1>3, <1>4, <2>4 DEF Wanted, Logins!Pending, ClearsDetection
  <2>5. ASSUME job.cleanup \in Tabs,
               job' = [job EXCEPT !.pc = "work", !.drop = {job.cleanup}]
        PROVE  job' \in WorkJobs /\ WorkInv' /\ \A t \in Tabs : Wanted(t)'
    <3>1. /\ job' \in WorkJobs /\ job' # None
          /\ job'.kind = "cleanup" /\ job'.cleanup = job.cleanup /\ job'.pc = "work"
          /\ job'.todo = {"clear"}
          /\ job'.drop = {job.cleanup}
      BY <1>1, <1>2, <1>3, <2>5, WorkBegins
    <3>2. WorkInv'
      BY <1>1, <1>3, <2>5, <3>1 DEF WorkInv
    <3>3. ASSUME NEW t \in Tabs
          PROVE  Wanted(t)'
      BY <1>1, <1>3, <1>4, <2>5, <3>1 DEF Wanted, Logins!Pending, ClearsDetection
    <3> QED
      BY <3>1, <3>2, <3>3
  <2>6. CASE job.cleanup = "session"
    BY <2>1, <2>6 DEF Logins!Look
  <2>7. CASE job.cleanup = "tabs"
    BY <2>2, <2>7 DEF Logins!Look
  <2>8. CASE job.cleanup = "detection"
    <3>1. \/ Logins!DetectionOn /\ job' = None
          \/ job' = [job EXCEPT !.pc = "work", !.drop = Tabs,
                                !.todo = {"clear"} \union {x \in {"prefer"} : enabled}]
      BY <2>8 DEF Logins!Look
    <3>2. {x \in {"prefer"} : enabled} \in SUBSET {"prefer"}
      OBVIOUS
    <3> QED
      BY <2>3, <2>4, <2>8, <3>1, <3>2
  <2>9. CASE job.cleanup \in Tabs
    BY <1>3, <2>5, <2>9 DEF Logins!Look
  <2> QED
    BY <1>2, <2>6, <2>7, <2>8, <2>9
<1>6. Fewer /\ PopupRests
  BY <1>1, WithoutIsFewer DEF PopupRests
<1>7. Steady
  BY <1>1, BoundsAssumption DEF Steady, Shared
<1> QED
  BY <1>1, <1>5, <1>6, <1>7, LoginsFacts, WorkMoves

\* Switching detection or session retention off.
LEMMA BeginDisableKeeps ==
    ASSUME Shared, WebLock, LoginsInv, NEW kind \in {"disable", "forget"},
           Logins!BeginDisable(kind)
    PROVE  LoginsKept /\ Steady
<1>1. /\ job = None
      /\ ops < MaxOps /\ ops' = ops + 1
      /\ job' = [kind |-> kind, cleanup |-> "detection", pc |-> "work", drop |-> Tabs,
                 todo |-> IF kind = "forget" THEN {"clear", "retain"}
                                             ELSE {"prefer", "clear"}]
      /\ UNCHANGED <<lockHeld, session, faults, watch, enabled, permitted, retain,
                     enabling, open, stored, ids, asked, due, popup, uncleared>>
  BY DEF Logins!BeginDisable
<1>2. job' \in WorkJobs /\ job' # None
  BY <1>1, JobKinds DEF WorkJobs, Logins!Cleanups
<1>3. /\ job'.kind = kind /\ job'.cleanup = "detection" /\ job'.pc = "work"
      /\ job'.drop = Tabs
      /\ job'.todo = IF kind = "forget" THEN {"clear", "retain"} ELSE {"prefer", "clear"}
  BY <1>1
<1>4. WorkInv'
  BY <1>3, TabsAssumption DEF WorkInv
<1>5. ASSUME NEW t \in Tabs
      PROVE  Wanted(t)'
  <2>1. Wanted(t)
    BY DEF LoginsInv
  <2> QED
    BY <1>1, <2>1 DEF Wanted, Logins!Pending, ClearsDetection
<1>6. Fewer /\ PopupRests
  BY <1>1, WithoutIsFewer DEF PopupRests
<1>7. Steady
  BY <1>1, BoundsAssumption DEF Steady, Shared
<1> QED
  BY <1>1, <1>2, <1>4, <1>5, <1>6, <1>7, LoginsFacts, WorkMoves

\* One thing of several has been done.
LEMMA AfterStep ==
    ASSUME job \in WorkJobs, NEW step, job' = Logins!After(step)
    PROVE  \/ job' = None /\ job.todo = {step}
           \/ /\ job' \in WorkJobs /\ job' # None
              /\ job.todo # {step}
              /\ job'.kind = job.kind /\ job'.cleanup = job.cleanup /\ job'.pc = job.pc
              /\ job'.todo = job.todo \ {step} /\ job'.drop = job.drop
<1>1. CASE job.todo = {step}
  BY <1>1 DEF Logins!After
<1>2. CASE job.todo # {step}
  <2>1. job' = [kind |-> job.kind, cleanup |-> job.cleanup, pc |-> job.pc,
                drop |-> job.drop, todo |-> job.todo \ {step}]
    BY <1>2 DEF Logins!After, WorkJobs
  <2>2. job.todo \ {step} \in SUBSET {"prefer", "clear", "retain"}
    BY DEF WorkJobs
  <2>3. job' \in WorkJobs
    BY <2>1, <2>2 DEF WorkJobs
  <2>4. job' # None
    BY <2>3, JobKinds
  <2>5. /\ job'.kind = job.kind /\ job'.cleanup = job.cleanup /\ job'.pc = job.pc
        /\ job'.todo = job.todo \ {step} /\ job'.drop = job.drop
    BY <2>1
  <2> QED
    BY <1>2, <2>3, <2>4, <2>5
<1> QED
  BY <1>1, <1>2

\* Whatever becomes of the preference, what is stored has a cleanup: this one,
\* or the one that failed before it.
LEMMA WritePreferenceKeeps ==
    ASSUME Shared, WebLock, LoginsInv, Logins!WritePreference
    PROVE  LoginsKept /\ Steady
<1>1. /\ job # None /\ job.kind # "capture" /\ job.pc = "work" /\ "prefer" \in job.todo
      /\ enabled' = FALSE \/ enabled' = enabled
      /\ job' = Logins!After("prefer")
      /\ UNCHANGED <<lockHeld, session, ops, watch, permitted, retain, enabling, open,
                     stored, ids, asked, due, popup, uncleared>>
  BY DEF Logins!WritePreference
<1>2. job \in WorkJobs /\ WorkInv /\ job.kind \in {"cleanup", "disable", "forget"}
  BY <1>1, WorkFacts
<1>3. /\ job.cleanup = "detection" /\ job.kind # "forget"
      /\ job.todo \subseteq {"clear", "prefer"} /\ job.drop = Tabs
      /\ \/ "clear" \in job.todo
         \/ \A t \in Tabs : stored[t] = None
         \/ "detection" \in uncleared
  BY <1>1, <1>2 DEF WorkInv
<1>4. \/ job' = None /\ "clear" \notin job.todo
      \/ /\ job' \in WorkJobs /\ job' # None
         /\ job'.kind = job.kind /\ job'.cleanup = "detection" /\ job'.pc = "work"
         /\ job'.todo = job.todo \ {"prefer"} /\ job'.drop = Tabs
  BY <1>1, <1>2, <1>3, AfterStep
<1>5. job' # None => WorkInv'
  BY <1>1, <1>2, <1>3, <1>4, TabsAssumption DEF WorkInv
<1>6. ASSUME NEW t \in Tabs
      PROVE  Wanted(t)'
  <2>1. Wanted(t)
    BY DEF LoginsInv
  <2> QED
    BY <1>1, <1>2, <1>3, <1>4, <2>1, TabsAssumption
    DEF Wanted, Logins!Pending, ClearsDetection
<1>7. Fewer /\ PopupRests
  BY <1>1, WithoutIsFewer DEF PopupRests
<1>8. Steady
  BY BoundsAssumption DEF Logins!WritePreference, Steady, Shared
<1>9. enabled' \in BOOLEAN /\ retain' \in BOOLEAN /\ enabling' \in BOOLEAN
  BY <1>1, LoginsFacts
<1>10. due' \subseteq due /\ uncleared' \subseteq Logins!Cleanups
  BY <1>1, LoginsFacts
<1> QED
  BY <1>1, <1>4, <1>5, <1>6, <1>7, <1>8, <1>9, <1>10, WorkMoves

\* What a cleanup leaves is wanted, or another cleanup is on its way; and one
\* that fails says so.
LEMMA ClearKeeps ==
    ASSUME Shared, WebLock, LoginsInv, Logins!Clear
    PROVE  LoginsKept /\ Steady
<1>1. /\ job # None /\ job.kind # "capture" /\ job.pc = "work" /\ "clear" \in job.todo
      /\ UNCHANGED <<lockHeld, session, ops, watch, enabled, permitted, retain, enabling,
                     open, ids, asked, due, popup>>
      /\ \/ /\ stored' = Logins!Without(job.drop)
            /\ job' = Logins!After("clear")
            /\ uncleared' = uncleared \ {job.cleanup}
         \/ /\ stored' = stored
            /\ job' = IF job.kind = "forget" THEN None ELSE Logins!After("clear")
            /\ uncleared' = IF job.kind = "forget" THEN uncleared
                            ELSE uncleared \union {job.cleanup}
  BY DEF Logins!Clear
<1>2. /\ job \in WorkJobs /\ WorkInv
      /\ job.cleanup \in {"session", "detection", "tabs"} \union Tabs
      /\ job.cleanup \in Logins!Cleanups
      /\ job.kind \in {"cleanup", "disable", "forget"}
  BY <1>1, WorkFacts DEF Logins!Cleanups
<1>3. /\ {"session", "detection", "tabs"} \intersect Tabs = {}
      /\ job.cleanup # "detection" => job.todo = {"clear"} /\ job.kind = "cleanup"
  BY <1>1, <1>2, TabsAssumption DEF WorkInv
<1>4. ASSUME NEW t \in Tabs
      PROVE  Wanted(t)
  BY DEF LoginsInv
<1>5. Fewer /\ PopupRests
  BY <1>1, WithoutIsFewer DEF PopupRests
<1>6. Steady
  BY BoundsAssumption DEF Logins!Clear, Steady, Shared
<1>7. /\ uncleared' \subseteq Logins!Cleanups /\ due' \subseteq due
      /\ enabled' \in BOOLEAN /\ retain' \in BOOLEAN /\ enabling' \in BOOLEAN
  BY <1>1, <1>2, LoginsFacts
<1>8. \/ job' = None /\ job.kind = "forget"
      \/ job' = None /\ job.todo = {"clear"}
      \/ /\ job' \in WorkJobs /\ job' # None
         /\ job.todo # {"clear"}
         /\ job'.kind = job.kind /\ job'.cleanup = job.cleanup /\ job'.pc = "work"
         /\ job'.todo = job.todo \ {"clear"} /\ job'.drop = job.drop
  BY <1>1, <1>2, AfterStep
<1>9. CASE /\ stored' = Logins!Without(job.drop)
           /\ uncleared' = uncleared \ {job.cleanup}
  <2>1. \A t \in Tabs : stored'[t] = IF t \in job.drop THEN None ELSE stored[t]
    BY <1>9 DEF Logins!Without
  <2>2. job' # None => WorkInv'
    BY <1>1, <1>2, <1>3, <1>8, <2>1 DEF WorkInv
  <2>3. ASSUME NEW t \in Tabs
        PROVE  Wanted(t)'
    <3>1. CASE job.cleanup = "session"
      <4>1. /\ job' = None
            /\ stored'[t] # None => /\ stored'[t] = stored[t] /\ stored[t] # None
                                    /\ stored[t].ours \/ "session" \in due
        BY <1>1, <1>2, <1>3, <1>8, <2>1, <3>1 DEF WorkInv
      <4> QED
        BY <1>1, <1>3, <1>4, <1>9, <3>1, <4>1 DEF Wanted, Logins!Pending, ClearsDetection
    <3>2. CASE job.cleanup = "tabs"
      <4>1. /\ job' = None
            /\ stored'[t] # None => /\ stored'[t] = stored[t] /\ stored[t] # None
                                    /\ t \in open \/ t \in due
        BY <1>1, <1>2, <1>3, <1>8, <2>1, <3>2 DEF WorkInv
      <4> QED
        BY <1>1, <1>3, <1>4, <1>9, <3>2, <4>1 DEF Wanted, Logins!Pending, ClearsDetection
    <3>3. CASE job.cleanup = "detection"
      <4>1. stored'[t] = None
        BY <1>1, <1>2, <2>1, <3>3 DEF WorkInv
      <4> QED
        BY <4>1 DEF Wanted
    <3>4. CASE job.cleanup \in Tabs
      <4>1. /\ job' = None
            /\ stored'[t] # None => /\ stored'[t] = stored[t] /\ stored[t] # None
                                    /\ t # job.cleanup
        BY <1>1, <1>2, <1>3, <1>8, <2>1, <3>4 DEF WorkInv
      <4> QED
        BY <1>1, <1>3, <1>4, <1>9, <3>4, <4>1 DEF Wanted, Logins!Pending, ClearsDetection
    <3> QED
      BY <1>2, <3>1, <3>2, <3>3, <3>4
  <2> QED
    BY <1>1, <1>5, <1>6, <1>7, <1>8, <2>2, <2>3, WorkMoves
<1>10. CASE /\ stored' = stored
            /\ job' = IF job.kind = "forget" THEN None ELSE Logins!After("clear")
            /\ uncleared' = IF job.kind = "forget" THEN uncleared
                            ELSE uncleared \union {job.cleanup}
  <2>1. job' # None => WorkInv'
    BY <1>1, <1>2, <1>3, <1>8, <1>10 DEF WorkInv
  <2>2. ASSUME NEW t \in Tabs
        PROVE  Wanted(t)'
    BY <1>1, <1>2, <1>3, <1>4, <1>8, <1>10 DEF Wanted, Logins!Pending, ClearsDetection
  <2> QED
    BY <1>1, <1>5, <1>6, <1>7, <1>8, <2>1, <2>2, WorkMoves
<1> QED
  BY <1>1, <1>9, <1>10

\* Session retention is given up with nothing left in storage.
LEMMA StopRetainingKeeps ==
    ASSUME Shared, WebLock, LoginsInv, Logins!StopRetaining
    PROVE  LoginsKept /\ Steady
<1>1. /\ job # None /\ job.kind # "capture" /\ job.pc = "work" /\ job.todo = {"retain"}
      /\ job' = None
      /\ retain' = FALSE \/ retain' = retain
      /\ UNCHANGED <<lockHeld, session, ops, watch, enabled, permitted, enabling, open,
                     stored, ids, asked, due, popup, uncleared>>
  BY DEF Logins!StopRetaining
<1>2. WorkInv
  BY <1>1, WorkFacts
<1>3. \A t \in Tabs : stored[t] = None
  BY <1>1, <1>2 DEF WorkInv
<1>4. \A t \in Tabs : Wanted(t)'
  BY <1>1, <1>3 DEF Wanted
<1>5. Fewer /\ PopupRests
  BY <1>1, WithoutIsFewer DEF PopupRests
<1>6. Steady
  BY BoundsAssumption DEF Logins!StopRetaining, Steady, Shared
<1>7. enabled' \in BOOLEAN /\ retain' \in BOOLEAN /\ enabling' \in BOOLEAN
  BY <1>1, LoginsFacts
<1>8. due' \subseteq due /\ uncleared' \subseteq Logins!Cleanups
  BY <1>1, LoginsFacts
<1> QED
  BY <1>1, <1>4, <1>5, <1>6, <1>7, <1>8, WorkMoves

LEMMA EnableKeeps ==
    ASSUME Shared, WebLock, LoginsInv, Logins!Enable
    PROVE  LoginsKept /\ Steady
<1>1. /\ job = None /\ job' = None
      /\ enabling' = FALSE
      /\ enabled' = TRUE \/ enabled' = enabled
      /\ UNCHANGED <<lockHeld, session, ops, watch, permitted, retain, open, stored, ids,
                     asked, due, popup, uncleared>>
  BY DEF Logins!Enable
<1>2. ASSUME NEW t \in Tabs
      PROVE  Wanted(t)'
  <2>1. Wanted(t)
    BY DEF LoginsInv
  <2> QED
    BY <1>1, <2>1 DEF Wanted, Logins!Pending, ClearsDetection
<1>3. Fewer /\ PopupRests
  BY <1>1, WithoutIsFewer DEF PopupRests
<1>4. Steady
  BY BoundsAssumption DEF Logins!Enable, Steady, Shared
<1>5. enabled' \in BOOLEAN /\ retain' \in BOOLEAN /\ enabling' \in BOOLEAN
  BY <1>1, LoginsFacts
<1>6. due' \subseteq due /\ uncleared' \subseteq Logins!Cleanups
  BY <1>1, LoginsFacts
<1> QED
  BY <1>1, <1>2, <1>3, <1>4, <1>5, <1>6, WorkMoves

-----------------------------------------------------------------------------
(* Deaths and sessions                                                       *)

\* A page that dies while it clears owes the cleanup, unless it was forgetting.
LEMMA PageDiesKeeps ==
    ASSUME Shared, WebLock, LoginsInv, Logins!PageDies
    PROVE  LoginsKept /\ Steady
<1>1. /\ Logins!Working \/ Logins!Popup("remove")
      /\ job # None => job.kind # "cleanup"
      /\ faults < MaxFaults /\ faults' = faults + 1
      /\ UNCHANGED <<session, ops, watch, enabled, permitted, retain, enabling, open,
                     stored, ids, asked, due>>
      /\ job' = IF Logins!Working THEN None ELSE job
      /\ uncleared' = IF Logins!Working /\ job.kind = "disable"
                      THEN uncleared \union {"detection"} ELSE uncleared
      /\ popup' = IF Logins!Popup("remove") THEN None ELSE popup
      /\ lockHeld' = (lockHeld /\ ~Logins!Popup("remove"))
  BY DEF Logins!PageDies
<1>2. Steady
  BY <1>1, BoundsAssumption DEF Steady, Shared
<1>3. CASE ~Logins!Working
  <2>1. job' = job /\ uncleared' = uncleared
    BY <1>1, <1>3
  <2>2. popup # None /\ popup.pc = "remove" /\ popup' = None /\ lockHeld' = FALSE
    BY <1>1, <1>3
  <2> QED
    BY <1>1, <1>2, <2>1, <2>2, PopupCloses
<1>4. CASE Logins!Working
  <2>1. WorkInv /\ job.kind \in {"disable", "forget"}
    BY <1>1, <1>4, WorkFacts
  <2>2. job.cleanup = "detection"
    BY <2>1 DEF WorkInv
  <2>3. ASSUME NEW t \in Tabs
        PROVE  Wanted(t)'
    <3>1. Wanted(t) /\ t # "detection"
      BY TabsAssumption DEF LoginsInv
    <3> QED
      BY <1>1, <1>4, <2>1, <2>2, <3>1 DEF Wanted, Logins!Pending, ClearsDetection
  <2>4. Fewer
    BY <1>1, WithoutIsFewer
  <2>5. PopupRests
    <3>1. CASE Logins!Popup("remove")
      BY <1>1, <3>1 DEF PopupRests
    <3>2. CASE ~Logins!Popup("remove")
      BY <1>1, <3>2 DEF PopupRests, Shared
    <3> QED
      BY <3>1, <3>2
  <2>6. enabled' \in BOOLEAN /\ retain' \in BOOLEAN /\ enabling' \in BOOLEAN
    BY <1>1, LoginsFacts
  <2>7. due' \subseteq due /\ uncleared' \subseteq Logins!Cleanups
    BY <1>1, LoginsFacts DEF Logins!Cleanups
  <2> QED
    BY <1>1, <1>2, <1>4, <2>3, <2>4, <2>5, <2>6, <2>7, WorkMoves
<1> QED
  BY <1>3, <1>4

\* A worker that starts again cleans up once, whatever the dead one had to do.
LEMMA WorkerDiesKeeps ==
    ASSUME Shared, WebLock, LoginsInv, Logins!WorkerDies
    PROVE  LoginsKept /\ Steady
<1>1. /\ watch /\ asked' = {}
      /\ faults < MaxFaults /\ faults' = faults + 1
      /\ due' = {"session", "detection", "tabs"}
      /\ job' = IF job # None /\ job.kind \in {"capture", "cleanup"} THEN None ELSE job
      /\ lockHeld' = (lockHeld /\ ~Logins!Capturing({"save", "store"}))
      /\ UNCHANGED <<session, ops, watch, enabled, permitted, retain, enabling, open,
                     stored, ids, popup, uncleared>>
  BY DEF Logins!WorkerDies
<1>2. Steady
  BY <1>1, BoundsAssumption DEF Steady, Shared
<1>3. ~CapturingNow'
  BY <1>1
<1>4. OneHolder' /\ Moves(Logins!HoldsWebLock, Logins!HoldsWebLock')
  <2>1. ~Logins!Capturing({"save", "store"})'
    BY <1>3
  <2>2. CASE Logins!Capturing({"save", "store"})
    <3>1. ~Logins!Popup("remove")
      BY <2>2 DEF WebLock
    <3> QED
      BY <1>1, <2>1, <2>2, <3>1 DEF OneHolder, Moves, Logins!HoldsWebLock
  <2>3. CASE ~Logins!Capturing({"save", "store"})
    BY <1>1, <2>1, <2>3 DEF OneHolder, Moves, Logins!HoldsWebLock, Shared
  <2> QED
    BY <2>2, <2>3
<1>5. Logins!HoldsWebLock' => lockHeld'
  BY <1>4 DEF Moves, WebLock, Shared
<1>6. Logins!TypeOK'
  BY <1>1, <1>5 DEF LoginsInv, Logins!TypeOK, Logins!Cleanups
<1>7. CapturesAreCounted'
  <2>1. ids' + Cardinality(asked') + (IF CapturingNow' THEN 1 ELSE 0) <= ops'
    BY <1>1, <1>3, Counts, FS_EmptySet
  <2> QED
    BY <1>1, <2>1 DEF LoginsInv, CapturesAreCounted
<1>8. OnlyWatched'
  BY <1>1
  DEF OnlyWatched
<1>9. job' # None => WorkInv'
  <2>1. ASSUME job' # None
        PROVE  job # None /\ ~CapturingNow /\ job' = job /\ job.kind # "cleanup"
    BY <1>1, <2>1
  <2>2. ASSUME job' # None
        PROVE  WorkInv
    BY <2>1, <2>2 DEF LoginsInv
  <2> QED
    BY <1>1, <2>1, <2>2, TabsAssumption DEF WorkInv
<1>10. due' \intersect open' = {}
  BY <1>1, LoginsFacts, TabsAssumption
<1>11. ASSUME NEW t \in Tabs
       PROVE  Wanted(t)'
  <2>1. Wanted(t)
    BY DEF LoginsInv
  <2> QED
    BY <1>1, <2>1 DEF Wanted, Logins!Pending, ClearsDetection
<1> QED
  BY <1>2, <1>3, <1>4, <1>6, <1>7, <1>8, <1>9, <1>10, <1>11 DEF LoginsKept, LoginsInv

\* A session that ends or is replaced makes every capture one of an ended
\* session, and asks for the cleanup that takes it.
LEMMA SessionChangesKeeps ==
    ASSUME Shared, LoginsInv, ~Logins!HoldsWebLock, ops' \in ops..MaxOps,
           Logins!SessionChanges
    PROVE  LoginsInv' /\ ~Logins!HoldsWebLock'
<1>1. /\ stored' = [t \in Tabs |-> IF stored[t] # None
                                   THEN [stored[t] EXCEPT !.ours = FALSE] ELSE None]
      /\ job' = IF CapturingNow THEN [job EXCEPT !.ours = FALSE] ELSE job
      /\ popup' = IF popup # None THEN [popup EXCEPT !.ours = FALSE] ELSE None
      /\ due' = IF watch THEN due \union {"session"} ELSE due
      /\ UNCHANGED <<watch, enabled, permitted, retain, enabling, open, ids, asked,
                     uncleared>>
  BY DEF Logins!SessionChanges
<1>2. \A t \in Tabs : /\ stored'[t] \in Logins!Captures \union {None}
                      /\ stored[t] = None => stored'[t] = None
                      /\ stored[t] # None => /\ stored'[t] # None
                                             /\ stored'[t].id = stored[t].id
                                             /\ stored'[t].keeps = stored[t].keeps
                                             /\ ~stored'[t].ours
  <2>1. ASSUME NEW t \in Tabs, stored[t] # None
        PROVE  /\ stored'[t] \in Logins!Captures /\ stored'[t].id = stored[t].id
               /\ stored'[t].keeps = stored[t].keeps /\ ~stored'[t].ours
    <3>1. stored[t] \in Logins!Captures /\ stored'[t] = [stored[t] EXCEPT !.ours = FALSE]
      BY <1>1, <2>1, LoginsFacts
    <3> QED
      BY <3>1 DEF Logins!Captures
  <2> QED
    BY <1>1, <2>1, LoginsNone
<1>3. /\ CapturingNow' <=> CapturingNow
      /\ CapturingNow => /\ job' \in CaptureJobs
                         /\ job'.pc = job.pc /\ job'.tab = job.tab
                         /\ job'.keeps = job.keeps
      /\ ~CapturingNow => job' = job
  <2>1. CASE CapturingNow
    <3>1. job \in CaptureJobs /\ job' = [job EXCEPT !.ours = FALSE]
      BY <1>1, <2>1, LoginsFacts
    <3>2. /\ job' \in CaptureJobs
          /\ job'.pc = job.pc /\ job'.tab = job.tab /\ job'.keeps = job.keeps
      BY <3>1 DEF CaptureJobs
    <3> QED
      BY <2>1, <3>2, JobKinds
  <2>2. CASE ~CapturingNow
    BY <1>1, <2>2
  <2> QED
    BY <2>1, <2>2
<1>4. /\ popup = None => popup' = None
      /\ popup # None => /\ popup' \in Logins!Popups /\ popup' # None
                         /\ popup'.pc = popup.pc /\ popup'.tab = popup.tab
                         /\ popup'.id = popup.id /\ popup.tab \in Tabs
  <2>1. ASSUME popup # None
        PROVE  popup \in Logins!Popups /\ popup' = [popup EXCEPT !.ours = FALSE]
    BY <1>1, <2>1, LoginsFacts
  <2>2. ASSUME popup # None
        PROVE  /\ popup' \in Logins!Popups
               /\ popup'.pc = popup.pc /\ popup'.tab = popup.tab
               /\ popup'.id = popup.id /\ popup.tab \in Tabs
    BY <2>1, <2>2 DEF Logins!Popups
  <2> QED
    BY <1>1, <2>2, LoginsNone
<1>5. ~Logins!HoldsWebLock'
  BY <1>3, <1>4 DEF Logins!HoldsWebLock
<1>6. Logins!TypeOK'
  <2>1. stored' \in [Tabs -> Logins!Captures \union {None}]
    BY <1>1, <1>2
  <2>2. job' \in Logins!Jobs \union {None}
    BY <1>3, JobKinds DEF LoginsInv, Logins!TypeOK
  <2>3. popup' \in Logins!Popups \union {None}
    BY <1>4
  <2>4. due' \subseteq Logins!Cleanups
    BY <1>1, LoginsFacts DEF Logins!Cleanups
  <2> QED
    BY <1>1, <1>5, <2>1, <2>2, <2>3, <2>4 DEF LoginsInv, Logins!TypeOK
<1>7. CapturesAreCounted'
  <2>1. ids' + Cardinality(asked') + (IF CapturingNow' THEN 1 ELSE 0) <= ops'
    BY <1>1, <1>3, Counts
  <2>2. \A t \in Tabs : stored'[t] # None => stored'[t].id <= ids'
    BY <1>1, <1>2 DEF LoginsInv, CapturesAreCounted
  <2>3. popup' # None => popup'.id <= ids' /\ (popup'.pc = "inspect" => popup'.id = 0)
    BY <1>1, <1>4 DEF LoginsInv, CapturesAreCounted
  <2>4. ~Logins!Popup("remove")'
    BY <1>5 DEF Logins!HoldsWebLock
  <2> QED
    BY <2>1, <2>2, <2>3, <2>4 DEF CapturesAreCounted
<1>8. OnlyWatched'
  BY <1>1, <1>2, <1>3 DEF LoginsInv, OnlyWatched
<1>9. CapturingNow' => CaptureInv'
  BY <1>1, <1>3 DEF LoginsInv, CaptureInv
<1>10. ASSUME job' # None, ~CapturingNow'
       PROVE  WorkInv'
  <2>1. WorkInv /\ job' = job
    BY <1>3, <1>10 DEF LoginsInv
  <2>2. \A t \in Tabs : stored'[t] # None => "session" \in due'
    BY <1>1, <1>2 DEF LoginsInv, OnlyWatched
  <2>3. due \subseteq due'
    BY <1>1
  <2> QED
    BY <1>1, <1>2, <2>1, <2>2, <2>3 DEF WorkInv
<1>11. due' \intersect open' = {}
  BY <1>1, LoginsFacts, TabsAssumption DEF LoginsInv
<1>12. ASSUME NEW t \in Tabs
       PROVE  Wanted(t)'
  <2>1. Wanted(t)
    BY DEF LoginsInv
  <2>2. ASSUME stored'[t] # None
        PROVE  "session" \in due' /\ stored[t] # None /\ stored'[t].keeps = stored[t].keeps
    BY <1>1, <1>2, <2>2 DEF LoginsInv, OnlyWatched
  <2>3. CASE CapturingNow
    BY <1>1, <1>3, <2>1, <2>2, <2>3 DEF Wanted, Logins!Pending, ClearsDetection
  <2>4. CASE ~CapturingNow
    BY <1>1, <1>3, <2>1, <2>2, <2>4 DEF Wanted, Logins!Pending, ClearsDetection
  <2> QED
    BY <2>3, <2>4
<1> QED
  BY <1>5, <1>6, <1>7, <1>8, <1>9, <1>10, <1>11, <1>12 DEF LoginsInv

\* chrome.storage.session ends with the browser.
LEMMA RestartKeepsLogins ==
    ASSUME Shared, LoginsInv, ops' = ops, Logins!Restart
    PROVE  LoginsInv' /\ ~Logins!HoldsWebLock'
<1>1. /\ stored' = [t \in Tabs |-> None]
      /\ asked' = {} /\ job' = None /\ popup' = None /\ enabling' = FALSE
      /\ due' = IF watch THEN {"session", "detection", "tabs"} ELSE {}
      /\ uncleared' = {}
      /\ UNCHANGED <<watch, enabled, permitted, retain, open, ids>>
  BY DEF Logins!Restart
<1>2. ~Logins!HoldsWebLock' /\ ~CapturingNow'
  BY <1>1 DEF Logins!HoldsWebLock
<1>3. Logins!TypeOK'
  BY <1>1, <1>2 DEF LoginsInv, Logins!TypeOK, Logins!Cleanups
<1>4. CapturesAreCounted'
  <2>1. ids' + Cardinality(asked') + (IF CapturingNow' THEN 1 ELSE 0) <= ops'
    BY <1>1, <1>2, Counts, FS_EmptySet
  <2> QED
    BY <1>1, <2>1 DEF CapturesAreCounted
<1>5. OnlyWatched' /\ \A t \in Tabs : Wanted(t)'
  BY <1>1, <1>2 DEF OnlyWatched, Wanted
<1>6. due' \intersect open' = {}
  BY <1>1, LoginsFacts, TabsAssumption
<1> QED
  BY <1>1, <1>2, <1>3, <1>4, <1>5, <1>6 DEF LoginsInv

LEMMA LoginsNextKeeps ==
    ASSUME Shared, WebLock, LoginsInv, Logins!Next
    PROVE  LoginsKept /\ Steady
<1>1. ASSUME Logins!Steps
      PROVE  LoginsKept /\ Steady
  BY <1>1, BeginCaptureKeeps, BeginCleanupKeeps, ContinueKeeps, EnterSessionKeeps,
     SaveDropsStaleKeeps, SaveStoresKeeps, LookKeeps, WritePreferenceKeeps, ClearKeeps,
     StopRetainingKeeps, EnableKeeps, ReviewReadsKeeps, DismissRemovesKeeps
  DEF Logins!Steps
<1> QED
  BY <1>1, AskCaptureKeeps, OpenPopupKeeps, BrowserKeeps, BeginDisableKeeps, SwitchOnKeeps,
     DismissKeeps, WorkerDiesKeeps, PageDiesKeeps
  DEF Logins!Next

-----------------------------------------------------------------------------
(* The device                                                                *)

\* What the steps of one component leave alone of another.
LEMMA ClipboardRests ==
    ASSUME ClipboardInv, UNCHANGED clipboardVars, session => session',
           op # None => lockHeld'
    PROVE  ClipboardInv'
<1>1. UNCHANGED <<clipboard, stray, late, task, copies, expired, alarms, handler, op,
                  spent, lockedClean>>
  BY DEF clipboardVars
<1>2. Clipboard!TypeOK' /\ Clipboard!SecretIsOwned' /\ Clipboard!LockLeavesNoSecret'
  BY <1>1 DEF ClipboardInv, Clipboard!TypeOK, Clipboard!SecretIsOwned,
              Clipboard!LockLeavesNoSecret
<1>3. op # None => OperationInv'
  BY <1>1 DEF ClipboardInv, OperationInv, Clipboard!At
<1> QED
  BY <1>1, <1>2, <1>3 DEF ClipboardInv

LEMMA AccessRests ==
    ASSUME Shared, AccessInv, UNCHANGED accessVars, ops' \in ops..MaxOps,
           change # None => lockHeld'
    PROVE  AccessInv'
<1>1. UNCHANGED <<epoch, vault, material, backup, fresh, change, recovery, unlocking,
                  known, wordsLost, retired>>
  BY DEF accessVars
<1>2. Access!TypeOK' /\ Access!KnownSecretsOpenRecords'
  BY <1>1 DEF AccessInv, Access!TypeOK, Access!KnownSecretsOpenRecords, Access!Consistent
<1>3. ReadersFollow' /\ RetiredIsPast'
  BY <1>1 DEF AccessInv, ReadersFollow, Reader, Given, RetiredIsPast
<1>4. IdentifiersAreFresh'
  <2>1. fresh \in Nat /\ ops \in Nat /\ ops' \in Nat /\ ops <= ops' /\ Outstanding \in Nat
    BY BoundsAssumption DEF AccessInv, Access!TypeOK, Access!Ids, Shared, Outstanding
  <2>2. fresh' = fresh /\ Outstanding' = Outstanding
    BY <1>1 DEF Outstanding
  <2>3. fresh + Outstanding <= ops + 1
    BY DEF AccessInv, IdentifiersAreFresh
  <2>4. \A n, f, o, p \in Nat : f + n <= o + 1 /\ o <= p => f + n <= p + 1
    OBVIOUS
  <2>5. fresh' + Outstanding' <= ops' + 1
    BY <2>1, <2>2, <2>3, <2>4
  <2> QED
    BY <1>1, <2>5 DEF AccessInv, IdentifiersAreFresh, Given
<1> QED
  BY <1>2, <1>3, <1>4 DEF AccessInv

LEMMA LoginsRest ==
    ASSUME Shared, LoginsInv, UNCHANGED loginVars, ops' \in ops..MaxOps,
           Logins!HoldsWebLock => lockHeld'
    PROVE  LoginsInv' /\ (Logins!HoldsWebLock' <=> Logins!HoldsWebLock)
                      /\ (OneHolder' <=> OneHolder)
<1>1. UNCHANGED <<watch, enabled, permitted, retain, enabling, open, stored, ids, asked,
                  due, job, popup, uncleared>>
  BY DEF loginVars
<1>2. /\ Logins!HoldsWebLock' <=> Logins!HoldsWebLock
      /\ OneHolder' <=> OneHolder
  BY <1>1 DEF Logins!HoldsWebLock, OneHolder
<1>3. Logins!TypeOK'
  BY <1>1, <1>2 DEF LoginsInv, Logins!TypeOK
<1>4. CapturesAreCounted'
  <2>1. ids' + Cardinality(asked') + (IF CapturingNow' THEN 1 ELSE 0) <= ops'
    BY <1>1, Counts
  <2> QED
    BY <1>1, <2>1 DEF LoginsInv, CapturesAreCounted
<1>5. OnlyWatched' /\ (CapturingNow' => CaptureInv') /\ due' \intersect open' = {}
  BY <1>1 DEF LoginsInv, OnlyWatched, CaptureInv
<1>6. job' # None /\ ~CapturingNow' => WorkInv'
  BY <1>1 DEF LoginsInv, WorkInv
<1>7. ASSUME NEW t \in Tabs
      PROVE  Wanted(t)'
  BY <1>1 DEF LoginsInv, Wanted, Logins!Pending, ClearsDetection
<1> QED
  BY <1>2, <1>3, <1>4, <1>5, <1>6, <1>7 DEF LoginsInv

LEMMA SharedFollows ==
    ASSUME Shared, lockHeld' \in BOOLEAN, session' \in BOOLEAN, ops' \in ops..MaxOps,
           faults' \in 0..MaxFaults
    PROVE  Shared'
<1>1. ops' \in 0..MaxOps
  BY BoundsAssumption DEF Shared
<1> QED
  BY <1>1 DEF Shared

\* The Web Lock is held or free, before and after.
LEMMA LockIsBoolean ==
    ASSUME Shared, NEW before, NEW after, Moves(before, after)
    PROVE  lockHeld' \in BOOLEAN
BY DEF Shared, Moves

\* A session begins only while nobody holds the Web Lock.
LEMMA NewSessionIsUnlocked ==
    ASSUME Shared, Access!Next, NewSession
    PROVE  ~lockHeld /\ ~lockHeld'
<1>1. Access!Activate \/ Access!EnrollAgain \/ session' = session
  BY DEF Access!Next, Access!Steps, Access!BeginChange, Access!BeginUnlock,
         Access!BeginRecovery, Access!ChangeReads, Access!ChangeSaves, Access!ChangeDies,
         Access!RecoveryReads, Access!RecoveryChecks, Access!RecoverySaves,
         Access!RecoveryDies, Access!UnlockReads
<1>2. Access!Activate \/ Access!EnrollAgain
  BY <1>1 DEF NewSession
<1> QED
  BY <1>2 DEF Access!Activate, Access!EnrollAgain

LEMMA ClipboardStepKeeps ==
    ASSUME IInv, ClipboardStep
    PROVE  IInv'
<1>1. Shared /\ WebLock /\ ClipboardInv /\ AccessInv /\ LoginsInv
  BY DEF IInv
<1>2. ClipboardKept /\ UNCHANGED accessVars /\ UNCHANGED loginVars
  BY <1>1, ClipboardNextKeeps DEF ClipboardStep
<1>3. Shared'
  <2>1. lockHeld' \in BOOLEAN /\ session' \in BOOLEAN
    BY <1>1, <1>2, LockIsBoolean DEF ClipboardKept, Steady, Shared
  <2> QED
    BY <1>1, <1>2, <2>1, SharedFollows DEF ClipboardKept, Steady
<1>4. change' = change
  BY <1>2 DEF accessVars
<1>5. change # None \/ Logins!HoldsWebLock => lockHeld'
  BY <1>1, <1>2 DEF WebLock, ClipboardKept, Moves
<1>6. AccessInv'
  BY <1>1, <1>2, <1>5, AccessRests DEF ClipboardKept, Steady
<1>7. /\ LoginsInv' /\ (Logins!HoldsWebLock' <=> Logins!HoldsWebLock)
      /\ (OneHolder' <=> OneHolder)
  BY <1>1, <1>2, <1>5, LoginsRest DEF ClipboardKept, Steady
<1>8. WebLock'
  BY <1>1, <1>2, <1>4, <1>7 DEF WebLock, ClipboardKept, Moves, OneHolder
<1> QED
  BY <1>2, <1>3, <1>6, <1>7, <1>8 DEF IInv, ClipboardKept

LEMMA LoginStepKeeps ==
    ASSUME IInv, LoginStep
    PROVE  IInv'
<1>1. Shared /\ WebLock /\ ClipboardInv /\ AccessInv /\ LoginsInv
  BY DEF IInv
<1>2. LoginsKept /\ Steady /\ UNCHANGED clipboardVars /\ UNCHANGED accessVars
  BY <1>1, LoginsNextKeeps DEF LoginStep
<1>3. Shared'
  <2>1. lockHeld' \in BOOLEAN /\ session' \in BOOLEAN
    BY <1>1, <1>2, LockIsBoolean DEF LoginsKept, Steady, Shared
  <2> QED
    BY <1>1, <1>2, <2>1, SharedFollows DEF Steady
<1>4. change' = change /\ op' = op
  BY <1>2 DEF accessVars, clipboardVars
<1>5. change # None \/ op # None => lockHeld'
  BY <1>1, <1>2 DEF WebLock, LoginsKept, Moves
<1>6. AccessInv' /\ ClipboardInv'
  BY <1>1, <1>2, <1>5, AccessRests, ClipboardRests DEF Steady
<1>7. WebLock'
  BY <1>1, <1>2, <1>4 DEF WebLock, LoginsKept, Moves, OneHolder
<1> QED
  BY <1>2, <1>3, <1>6, <1>7 DEF IInv, LoginsKept

LEMMA AccessStepKeeps ==
    ASSUME IInv, AccessStep
    PROVE  IInv'
<1>1. Shared /\ WebLock /\ ClipboardInv /\ AccessInv /\ LoginsInv
  BY DEF IInv
<1>2. AccessKept /\ UNCHANGED clipboardVars
  BY <1>1, AccessNextKeeps DEF AccessStep
<1>3. Shared'
  <2>1. lockHeld' \in BOOLEAN
    BY <1>1, <1>2, LockIsBoolean DEF AccessKept
  <2> QED
    BY <1>1, <1>2, <2>1, SharedFollows DEF AccessKept, AccessSteady
<1>4. op' = op
  BY <1>2 DEF clipboardVars
<1>5. Logins!HoldsWebLock \/ op # None => lockHeld'
  BY <1>1, <1>2 DEF WebLock, AccessKept, Moves
<1>6. ClipboardInv'
  BY <1>1, <1>2, <1>5, ClipboardRests DEF AccessKept, AccessSteady
<1>7. CASE NewSession
  <2>1. ~lockHeld /\ ~lockHeld' /\ Logins!SessionChanges
    BY <1>1, <1>7, NewSessionIsUnlocked DEF AccessStep
  <2>2. op = None /\ change = None /\ ~Logins!HoldsWebLock
    BY <1>1, <2>1 DEF WebLock
  <2>3. LoginsInv' /\ ~Logins!HoldsWebLock'
    BY <1>1, <1>2, <2>1, <2>2, SessionChangesKeeps DEF AccessKept, AccessSteady
  <2>4. change' = None
    BY <1>2, <2>1, <2>2 DEF AccessKept, Moves
  <2>5. WebLock'
    BY <1>3, <1>4, <2>1, <2>2, <2>3, <2>4 DEF WebLock, Shared, Logins!HoldsWebLock
  <2> QED
    BY <1>2, <1>3, <1>6, <2>3, <2>5 DEF IInv, AccessKept
<1>8. CASE ~NewSession
  <2>1. UNCHANGED loginVars
    BY <1>8 DEF AccessStep
  <2>2. /\ LoginsInv' /\ (Logins!HoldsWebLock' <=> Logins!HoldsWebLock)
        /\ (OneHolder' <=> OneHolder)
    BY <1>1, <1>2, <1>5, <2>1, LoginsRest DEF AccessKept, AccessSteady
  <2>3. WebLock'
    BY <1>1, <1>2, <1>4, <2>2 DEF WebLock, AccessKept, Moves, OneHolder
  <2> QED
    BY <1>2, <1>3, <1>6, <2>2, <2>3 DEF IInv, AccessKept
<1> QED
  BY <1>7, <1>8

\* The end of a session is a step of all three components.
LEMMA EndCleanupKeeps ==
    ASSUME IInv, EndCleanup
    PROVE  IInv'
<1>1. Shared /\ WebLock /\ ClipboardInv /\ AccessInv /\ LoginsInv
  BY DEF IInv
<1>2. /\ ClipboardInv' /\ op # None /\ op' = None /\ ~lockHeld' /\ ~session'
  BY <1>1, RemoveSessionKeeps DEF EndCleanup
<1>3. /\ session' = FALSE /\ lockHeld' = FALSE /\ ops' = ops
  BY DEF EndCleanup, Clipboard!RemoveSession, Clipboard!Leave
<1>4. faults' = faults \/ (faults < MaxFaults /\ faults' = faults + 1)
  BY DEF EndCleanup
<1>5. Shared'
  <2>1. ops' \in ops..MaxOps /\ faults' \in 0..MaxFaults
    BY <1>1, <1>3, <1>4, BoundsAssumption DEF Shared
  <2> QED
    BY <1>1, <1>3, <2>1, SharedFollows
<1>6. change = None /\ ~Logins!HoldsWebLock
  BY <1>1, <1>2 DEF WebLock
<1>7. \E removes \in BOOLEAN : Access!EndSession(removes)
  <2>1. \/ Access!EndSession(op.kind = "delete" /\ ~op.failed)
        \/ Access!EndSession(FALSE)
    BY DEF EndCleanup
  <2>2. (op.kind = "delete" /\ ~op.failed) \in BOOLEAN
    OBVIOUS
  <2> QED
    BY <2>1, <2>2
<1>8. AccessInv' /\ change' = None
  BY <1>1, <1>3, <1>6, <1>7, EndSessionKeeps
<1>9. LoginsInv' /\ ~Logins!HoldsWebLock'
  <2>1. ops' \in ops..MaxOps
    BY <1>1, <1>3, BoundsAssumption DEF Shared
  <2> QED
    BY <1>1, <1>6, <2>1, SessionChangesKeeps DEF EndCleanup
<1>10. WebLock'
  BY <1>2, <1>3, <1>8, <1>9 DEF WebLock, Logins!HoldsWebLock
<1> QED
  BY <1>2, <1>5, <1>8, <1>9, <1>10 DEF IInv

LEMMA BrowserRestartsKeeps ==
    ASSUME IInv, BrowserRestarts
    PROVE  IInv'
<1>1. Shared /\ WebLock /\ ClipboardInv /\ AccessInv /\ LoginsInv
  BY DEF IInv
<1>2. /\ ClipboardInv' /\ op' = None
      /\ session' = FALSE /\ lockHeld' = FALSE /\ ops' = ops
      /\ faults < MaxFaults /\ faults' = faults + 1
  BY <1>1, RestartKeepsClipboard DEF BrowserRestarts, Clipboard!Restart
<1>3. Shared'
  <2>1. ops' \in ops..MaxOps /\ faults' \in 0..MaxFaults
    BY <1>1, <1>2, BoundsAssumption DEF Shared
  <2> QED
    BY <1>1, <1>2, <2>1, SharedFollows
<1>4. AccessInv' /\ change' = None
  BY <1>1, <1>2, RestartKeepsAccess DEF BrowserRestarts
<1>5. LoginsInv' /\ ~Logins!HoldsWebLock'
  BY <1>1, <1>2, RestartKeepsLogins DEF BrowserRestarts
<1>6. WebLock'
  BY <1>2, <1>4, <1>5 DEF WebLock, Logins!HoldsWebLock
<1> QED
  BY <1>2, <1>3, <1>4, <1>5, <1>6 DEF IInv

LEMMA StutterKeeps ==
    ASSUME IInv, UNCHANGED vars
    PROVE  IInv'
<1>1. Shared /\ WebLock /\ ClipboardInv /\ AccessInv /\ LoginsInv
  BY DEF IInv
<1>2. /\ UNCHANGED <<lockHeld, session, ops, faults>>
      /\ UNCHANGED clipboardVars /\ UNCHANGED accessVars /\ UNCHANGED loginVars
  BY DEF vars
<1>3. Shared' /\ ops' \in ops..MaxOps
  BY <1>1, <1>2, BoundsAssumption DEF Shared
<1>4. op # None \/ change # None \/ Logins!HoldsWebLock => lockHeld'
  BY <1>1, <1>2 DEF WebLock
<1>5. ClipboardInv' /\ AccessInv'
  BY <1>1, <1>2, <1>3, <1>4, ClipboardRests, AccessRests
<1>6. /\ LoginsInv' /\ (Logins!HoldsWebLock' <=> Logins!HoldsWebLock)
      /\ (OneHolder' <=> OneHolder)
  BY <1>1, <1>2, <1>3, <1>4, LoginsRest
<1>7. op' = op /\ change' = change
  BY <1>2 DEF clipboardVars, accessVars
<1>8. WebLock'
  BY <1>1, <1>2, <1>6, <1>7 DEF WebLock, OneHolder
<1> QED
  BY <1>3, <1>5, <1>6, <1>8 DEF IInv

LEMMA StepsKeep ==
    ASSUME IInv, [Next]_vars
    PROVE  IInv'
BY ClipboardStepKeeps, AccessStepKeeps, LoginStepKeeps, EndCleanupKeeps,
   BrowserRestartsKeeps, StutterKeeps
DEF Next

LEMMA InitHolds ==
    ASSUME Init
    PROVE  IInv
<1>1. /\ lockHeld = FALSE /\ ops = 0 /\ faults = 0
      /\ session \in {FALSE, material # None}
      /\ Clipboard!Init /\ Access!Init /\ Logins!Init
  BY DEF Init
<1>2. Shared
  <2>1. session \in BOOLEAN /\ lockHeld \in BOOLEAN
    BY <1>1
  <2>2. ops \in 0..MaxOps /\ faults \in 0..MaxFaults
    BY <1>1, BoundsAssumption
  <2> QED
    BY <2>1, <2>2 DEF Shared
<1>3. op = None /\ change = None /\ job = None /\ popup = None
  BY <1>1 DEF Clipboard!Init, Access!Init, Logins!Init
<1>4. ~Logins!HoldsWebLock /\ ~CapturingNow
  BY <1>3 DEF Logins!HoldsWebLock
<1>5. WebLock
  BY <1>1, <1>3, <1>4 DEF WebLock, Logins!HoldsWebLock
<1>6. ClipboardInv
  <2>1. clipboard = None /\ None \notin Secrets
    BY <1>1, ClipboardNone DEF Clipboard!Init
  <2>2. Clipboard!TypeOK
    <3>1. copies \in 0..MaxCopies
      BY <1>1, BoundsAssumption DEF Clipboard!Init
    <3>2. handler \in [Clipboard!Actions -> Clipboard!Handlers \union {None}]
      BY <1>1 DEF Clipboard!Init
    <3>3. stray \in BOOLEAN /\ lockedClean \in BOOLEAN
      BY <1>1 DEF Clipboard!Init
    <3> QED
      BY <1>1, <3>1, <3>2, <3>3 DEF Clipboard!Init, Clipboard!TypeOK, Clipboard!Texts
  <2> QED
    BY <1>3, <2>1, <2>2
    DEF ClipboardInv, Clipboard!SecretIsOwned, Clipboard!LockLeavesNoSecret
<1>7. AccessInv
  <2>1. /\ epoch = 0 /\ vault = 1 /\ fresh = 1
        /\ material \in {None, [revision |-> 1, generation |-> 1, password |-> 1, keys |-> 1]}
        /\ backup = [revision |-> 1, generation |-> 1, words |-> 1, keys |-> 1]
        /\ change = None /\ recovery = None /\ unlocking = None
        /\ known = [passwords |-> {1}, words |-> {1}]
        /\ wordsLost = FALSE /\ retired = {}
    BY <1>1 DEF Access!Init
  <2>2. 1 \in Access!Ids
    BY BoundsAssumption DEF Access!Ids
  <2>3. Access!TypeOK
    <3>1. [revision |-> 1, generation |-> 1, password |-> 1, keys |-> 1] \in Access!Materials
      BY <2>2 DEF Access!Materials
    <3>2. backup \in Access!Backups
      BY <2>1, <2>2 DEF Access!Backups
    <3>3. known \in [passwords : SUBSET Access!Ids, words : SUBSET Access!Ids]
      BY <2>1, <2>2
    <3>4. wordsLost \in BOOLEAN /\ epoch \in Nat
      BY <2>1
    <3> QED
      BY <2>1, <2>2, <3>1, <3>2, <3>3, <3>4 DEF Access!TypeOK
  <2>4. IdentifiersAreFresh
    BY <1>1, <2>1 DEF IdentifiersAreFresh, Outstanding, Given
  <2>5. ReadersFollow /\ RetiredIsPast
    BY <2>1 DEF ReadersFollow, RetiredIsPast
  <2>6. Access!KnownSecretsOpenRecords
    <3>1. /\ backup.keys = 1 /\ backup.generation = 1 /\ backup.words = 1
          /\ known.passwords = {1} /\ known.words = {1}
      BY <2>1
    <3>2. backup # None
      <4>1. backup \in Access!Backups
        BY <2>1, <2>2 DEF Access!Backups
      <4> QED
        BY <4>1, AccessNone
    <3>3. material # None => /\ material.keys = 1 /\ material.generation = 1
                             /\ material.password = 1
      BY <2>1
    <3> QED
      BY <2>1, <3>1, <3>2, <3>3 DEF Access!KnownSecretsOpenRecords, Access!Consistent
  <2> QED
    BY <2>3, <2>4, <2>5, <2>6 DEF AccessInv
<1>8. LoginsInv
  <2>1. /\ watch \in BOOLEAN /\ enabled = watch /\ permitted = watch
        /\ retain \in {FALSE, watch} /\ enabling = FALSE /\ open = Tabs
        /\ stored = [t \in Tabs |-> None] /\ ids = 0 /\ asked = {} /\ due = {}
        /\ uncleared = {}
    BY <1>1 DEF Logins!Init
  <2>2. Logins!TypeOK
    <3>1. retain \in BOOLEAN /\ enabled \in BOOLEAN /\ permitted \in BOOLEAN
      BY <2>1
    <3>2. ids \in 0..MaxOps
      BY <2>1, BoundsAssumption
    <3>3. stored \in [Tabs -> Logins!Captures \union {None}]
      BY <2>1
    <3> QED
      BY <1>3, <1>4, <2>1, <3>1, <3>2, <3>3 DEF Logins!TypeOK
  <2>3. CapturesAreCounted
    BY <1>1, <1>3, <1>4, <2>1, FS_EmptySet DEF CapturesAreCounted
  <2>4. OnlyWatched /\ \A t \in Tabs : Wanted(t)
    BY <1>3, <2>1 DEF OnlyWatched, Wanted
  <2> QED
    BY <1>3, <2>1, <2>2, <2>3, <2>4 DEF LoginsInv
<1> QED
  BY <1>2, <1>5, <1>6, <1>7, <1>8 DEF IInv

-----------------------------------------------------------------------------
(* The theorems                                                              *)

\* Every reachable state of the device has the inductive invariant.
THEOREM Invariance == Spec => []IInv
<1>1. Init => IInv
  BY InitHolds
<1>2. IInv /\ [Next]_vars => IInv'
  BY StepsKeep
<1> QED
  BY <1>1, <1>2, PTL DEF Spec

\* The types, and the owner of the Web Lock: it is held exactly while a
\* clipboard operation, a change of the access records, a capture being stored
\* or the popup's removal is under way.
THEOREM TypeCorrectness == Spec => []TypeOK
<1>1. IInv => TypeOK
  BY DEF IInv, Shared, WebLock, ClipboardInv, AccessInv, LoginsInv, TypeOK
<1> QED
  BY <1>1, Invariance, PTL

\* The clipboard never holds a copied secret that no stored task can clear, in
\* whatever order the copies, alarms, cleanups and deaths of the worker come.
THEOREM SecretsAreOwned == Spec => []SecretIsOwned
<1>1. IInv => SecretIsOwned
  BY DEF IInv, ClipboardInv, SecretIsOwned
<1> QED
  BY <1>1, Invariance, PTL

\* After a lock or a deletion whose cleanup reported no error, no secret that
\* was copied is left on the clipboard.
THEOREM LocksLeaveNoSecret == Spec => []LockLeavesNoSecret
<1>1. IInv => LockLeavesNoSecret
  BY DEF IInv, ClipboardInv, LockLeavesNoSecret
<1> QED
  BY <1>1, Invariance, PTL

\* What the user may rely on, the password and the words, opens the records,
\* whichever changes and recoveries race and wherever one of them dies.
THEOREM RecordsStayOpenable == Spec => []KnownSecretsOpenRecords
<1>1. IInv => KnownSecretsOpenRecords
  BY DEF IInv, AccessInv, KnownSecretsOpenRecords
<1> QED
  BY <1>1, Invariance, PTL

\* A stored capture is wanted, or the cleanup that takes it is due, at work or
\* known to have failed.
THEOREM StoredCapturesAreWanted == Spec => []CapturesAreWanted
<1>1. ASSUME IInv, NEW t \in Tabs
      PROVE  Logins!Holds(t) =>
                 /\ stored[t].ours \/ Logins!Pending("session", t)
                 /\ t \in open \/ Logins!Pending(t, t) \/ Logins!Pending("tabs", t)
                 /\ Logins!DetectionOn \/ Logins!Pending("detection", t)
                 /\ stored[t].keeps => retain
  <2>1. Wanted(t) /\ LoginsInv
    BY <1>1 DEF IInv, LoginsInv
  <2>2. ASSUME ClearsDetection
        PROVE  Logins!Pending("detection", t)
    <3>1. CASE "detection" \in due \union uncleared
      BY <3>1 DEF Logins!Pending
    <3>2. CASE /\ job # None /\ job.kind \in {"cleanup", "disable"}
               /\ job.cleanup = "detection"
               /\ job.pc = "look" \/ "clear" \in job.todo
      <4>1. WorkInv /\ job \in WorkJobs
        BY <1>1, <2>1, <3>2, WorkFacts DEF IInv
      <4>2. job.pc = "look" \/ (job.pc = "work" /\ job.drop = Tabs)
        BY <3>2, <4>1 DEF WorkInv, WorkJobs
      <4> QED
        BY <3>2, <4>2 DEF Logins!Pending
    <3> QED
      BY <2>2, <3>1, <3>2 DEF ClearsDetection
  <2> QED
    BY <2>1, <2>2 DEF Wanted
<1>2. IInv => CapturesAreWanted
  BY <1>1 DEF CapturesAreWanted, Logins!CapturesAreWanted
<1> QED
  BY <1>2, Invariance, PTL

\* An unlock that read the records before a change of the password installs no
\* session after it.
THEOREM RetiredPasswordsOpenNothing == Spec => RetiredPasswordOpensNothing
<1>1. ASSUME IInv, Access!Activate, epoch' # epoch
      PROVE  unlocking.password \notin retired
  BY <1>1 DEF IInv, AccessInv, RetiredIsPast, Access!Activate
<1>2. IInv /\ [Next]_vars =>
          [Access!Activate /\ epoch' # epoch =>
               unlocking.password \notin retired]_<<Access!sharedVars, Access!ownVars>>
  BY <1>1
<1> QED
  BY <1>2, Invariance, PTL DEF Spec, RetiredPasswordOpensNothing,
     Access!RetiredPasswordOpensNothing

\* What becomes of a capture of a session that goes on.
Accounted(t) ==
    stored[t] # None /\ session /\ stored[t].ours /\ session' =>
        \/ stored'[t] # None /\ stored'[t].id = stored[t].id
        \/ Logins!Reason(t)

\* The steps that take a capture have a reason to.
LEMMA ClearHasAReason ==
    ASSUME IInv, Logins!Clear, NEW t \in Tabs
    PROVE  Accounted(t)
<1>1. LoginsInv /\ Shared
  BY DEF IInv
<1>2. /\ job # None /\ job.kind # "capture" /\ job.pc = "work"
      /\ stored' = stored \/ stored' = Logins!Without(job.drop)
  BY DEF Logins!Clear
<1>3. WorkInv /\ job.cleanup \in {"session", "detection", "tabs"} \union Tabs
  BY <1>1, <1>2, WorkFacts
<1>4. ASSUME stored[t] # None, stored[t].ours, t \in job.drop
      PROVE  t \notin open \/ job.cleanup = "detection"
  BY <1>2, <1>3, <1>4 DEF WorkInv
<1>5. t \notin job.drop => stored'[t] = stored[t]
  BY <1>2 DEF Logins!Without
<1>6. stored' = stored => stored'[t] = stored[t]
  OBVIOUS
<1> QED
  BY <1>2, <1>4, <1>5, <1>6 DEF Accounted, Logins!Reason

LEMMA CaptureHasAReason ==
    ASSUME IInv, Logins!SaveDropsStale \/ Logins!SaveStores, NEW t \in Tabs
    PROVE  Accounted(t)
<1>1. LoginsInv /\ Shared
  BY DEF IInv
<1>2. stored[t] # None => stored[t] \in Logins!Captures /\ stored[t].id <= ids
  BY <1>1, LoginsFacts DEF LoginsInv, CapturesAreCounted
<1>3. CASE Logins!SaveDropsStale
  <2>1. stored' = stored \/ stored' = Logins!Without({u \in Tabs : Logins!Stale(u)})
    BY <1>3 DEF Logins!SaveDropsStale
  <2>2. stored'[t] = stored[t] \/ Logins!Stale(t)
    BY <2>1 DEF Logins!Without
  <2> QED
    BY <2>2 DEF Accounted, Logins!Reason, Logins!Stale
<1>4. CASE Logins!SaveStores
  <2>1. /\ job # None /\ job.kind = "capture"
        /\ \/ stored' = stored
           \/ stored' = [stored EXCEPT ![job.tab] =
                  [id |-> ids + 1, ours |-> TRUE, keeps |-> job.keeps, late |-> FALSE]]
    BY <1>4 DEF Logins!SaveStores
  <2>2. stored \in [Tabs -> Logins!Captures \union {None}]
    BY <1>1, LoginsFacts
  <2>3. CASE t # job.tab \/ stored' = stored
    <3>1. stored'[t] = stored[t]
      BY <2>1, <2>2, <2>3
    <3> QED
      BY <3>1 DEF Accounted
  <2>4. CASE /\ t = job.tab
             /\ stored' = [stored EXCEPT ![job.tab] =
                    [id |-> ids + 1, ours |-> TRUE, keeps |-> job.keeps, late |-> FALSE]]
    <3>1. stored'[t] = [id |-> ids + 1, ours |-> TRUE, keeps |-> job.keeps, late |-> FALSE]
      BY <2>2, <2>4
    <3>2. ids + 1 \in 1..MaxOps /\ ids \in Nat /\ job \in CaptureJobs
      BY <1>1, <2>1, Counts, LoginsFacts
    <3>3. stored'[t] \in Logins!Captures /\ stored'[t].id = ids + 1
      BY <3>1, <3>2 DEF Logins!Captures, CaptureJobs
    <3>4. stored'[t] # None
      BY <3>3, LoginsNone
    <3>5. stored[t] # None => stored'[t].id > stored[t].id
      BY <1>2, <3>2, <3>3 DEF Logins!Captures
    <3> QED
      BY <3>4, <3>5 DEF Accounted, Logins!Reason
  <2> QED
    BY <2>1, <2>3, <2>4
<1> QED
  BY <1>3, <1>4

LEMMA PopupHasAReason ==
    ASSUME IInv, Logins!ReviewReads \/ Logins!DismissRemoves, NEW t \in Tabs
    PROVE  Accounted(t)
<1>1. LoginsInv
  BY DEF IInv
<1>2. /\ popup # None /\ popup.pc \in {"inspect", "remove"}
      /\ stored' = stored \/ stored' = Logins!Without({popup.tab})
  BY DEF Logins!ReviewReads, Logins!DismissRemoves
<1>3. t # popup.tab \/ stored' = stored => stored'[t] = stored[t]
  BY <1>2 DEF Logins!Without
<1>4. stored[popup.tab] # None => popup.id \in {0, stored[popup.tab].id}
  BY <1>1, <1>2 DEF LoginsInv, CapturesAreCounted
<1> QED
  BY <1>2, <1>3, <1>4 DEF Accounted, Logins!Reason

LEMMA LoginStepHasAReason ==
    ASSUME IInv, Logins!Next, NEW t \in Tabs
    PROVE  Accounted(t)
<1>1. stored' = stored => Accounted(t)
  BY DEF Accounted
<1>2. ASSUME NEW u \in Tabs, Logins!Expire(u)
      PROVE  Accounted(t)
  <2>1. /\ stored[u] # None
        /\ stored' = [stored EXCEPT ![u] = [stored[u] EXCEPT !.late = TRUE]]
    BY <1>2 DEF Logins!Expire
  <2>2. stored \in [Tabs -> Logins!Captures \union {None}]
    BY LoginsFacts DEF IInv
  <2>3. CASE t = u
    <3>1. stored[t] \in Logins!Captures /\ stored'[t] = [stored[t] EXCEPT !.late = TRUE]
      BY <2>1, <2>2, <2>3
    <3>2. stored'[t] \in Logins!Captures /\ stored'[t].id = stored[t].id
      BY <3>1 DEF Logins!Captures
    <3> QED
      BY <3>2, LoginsNone DEF Accounted
  <2>4. CASE t # u
    <3>1. stored'[t] = stored[t]
      BY <2>1, <2>2, <2>4
    <3> QED
      BY <3>1 DEF Accounted
  <2> QED
    BY <2>3, <2>4
<1>3. ASSUME Logins!Steps
      PROVE  Accounted(t)
  <2>1. \/ stored' = stored
        \/ Logins!SaveDropsStale \/ Logins!SaveStores
        \/ Logins!Clear
        \/ Logins!ReviewReads \/ Logins!DismissRemoves
    BY <1>3
    DEF Logins!Steps, Logins!BeginCapture, Logins!BeginCleanup, Logins!Continue,
        Logins!EnterSession, Logins!Look, Logins!WritePreference, Logins!StopRetaining,
        Logins!Enable
  <2> QED
    BY <1>1, <2>1, ClearHasAReason, CaptureHasAReason, PopupHasAReason
<1>4. \/ stored' = stored
      \/ \E u \in Tabs : Logins!Expire(u)
      \/ Logins!Steps
  BY DEF Logins!Next, Logins!AskCapture, Logins!OpenPopup, Logins!CloseTab,
         Logins!BeginDisable, Logins!Retain, Logins!AskDetection, Logins!Dismiss,
         Logins!RevokePermission, Logins!WorkerDies, Logins!PageDies
<1> QED
  BY <1>1, <1>2, <1>3, <1>4

\* No cleanup of an older session, no late dismissal and no death takes a
\* capture of a session that goes on: it stays, or a newer one of its tab, its
\* age, its tab, a setting or its own review is the reason.
THEOREM CapturesGoForReasons == Spec => CapturesGoForAReason
<1>1. ASSUME IInv, Next, NEW t \in Tabs
      PROVE  Accounted(t)
  <2>1. CASE LoginStep
    BY <1>1, <2>1, LoginStepHasAReason DEF LoginStep
  <2>2. CASE ClipboardStep
    BY <2>2 DEF ClipboardStep, loginVars, Accounted
  <2>3. CASE AccessStep
    <3>1. CASE UNCHANGED loginVars
      BY <3>1 DEF loginVars, Accounted
    <3>2. CASE Logins!SessionChanges
      <4>1. ASSUME stored[t] # None
            PROVE  /\ stored[t] \in Logins!Captures
                   /\ stored'[t] = [stored[t] EXCEPT !.ours = FALSE]
        BY <1>1, <3>2, <4>1, LoginsFacts DEF Logins!SessionChanges, IInv
      <4>2. ASSUME stored[t] # None
            PROVE  stored'[t] \in Logins!Captures /\ stored'[t].id = stored[t].id
        BY <4>1, <4>2 DEF Logins!Captures
      <4> QED
        BY <4>2, LoginsNone DEF Accounted
    <3> QED
      BY <2>3, <3>1, <3>2 DEF AccessStep
  <2>4. CASE EndCleanup
    BY <2>4 DEF EndCleanup, Clipboard!RemoveSession, Accounted
  <2>5. CASE BrowserRestarts
    BY <2>5 DEF BrowserRestarts, Clipboard!Restart, Accounted
  <2> QED
    BY <1>1, <2>1, <2>2, <2>3, <2>4, <2>5 DEF Next
<1>2. IInv /\ [Next]_vars =>
          [\A t \in Tabs :
               Logins!Holds(t) /\ session /\ stored[t].ours /\ session' =>
                   \/ stored'[t] # None /\ stored'[t].id = stored[t].id
                   \/ Logins!Reason(t)]_<<Logins!sharedVars, Logins!ownVars>>
  <2>1. UNCHANGED vars => UNCHANGED <<Logins!sharedVars, Logins!ownVars>>
    BY DEF vars, loginVars, Logins!ownVars
  <2>2. ASSUME IInv, Next
        PROVE  \A t \in Tabs :
                   stored[t] # None /\ session /\ stored[t].ours /\ session' =>
                       \/ stored'[t] # None /\ stored'[t].id = stored[t].id
                       \/ Logins!Reason(t)
    BY <1>1, <2>2 DEF Accounted
  <2> QED
    BY <2>1, <2>2
<1> QED
  BY <1>2, Invariance, PTL DEF Spec, CapturesGoForAReason, Logins!CapturesGoForAReason
=============================================================================
