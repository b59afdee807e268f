------------------------- MODULE ClipboardClearing -------------------------
(* A copied secret and the task that owns it: the copy, the cleanup a lock  *)
(* or a deletion runs, the alarm of the service worker, and clipboard       *)
(* writes that reach the offscreen document late.  Every operation runs     *)
(* under the Web Lock; only the alarm handler works outside it as well.     *)
EXTENDS Integers, FiniteSets

CONSTANTS None,       \* no text, no task, no operation
          Text,       \* something the user copied elsewhere
          Secrets,    \* the values the extension copies
          MaxCopies,  \* bound: copies that reach their clear task
          MaxFaults,  \* bound: failures, deaths and restarts
          MaxOps      \* bound: operations a user starts

VARIABLES
    lockHeld,     \* the origin-wide Web Lock
    session,      \* the vault is unlocked
    ops,          \* operations started so far
    faults,       \* failures so far
    clipboard,    \* what the system clipboard holds
    stray,        \* history: written by a context that died, or its task lost by a restart
    late,         \* writes whose sender died, before their deadline
    task,         \* the clear task in chrome.storage.session
    copies,       \* action IDs given out
    expired,      \* actions whose expiry has passed
    alarms,       \* actions with an alarm of their own
    handler,      \* per action: the alarm handler, between its awaits
    op,           \* the clipboard operation that holds the Web Lock
    spent,        \* history: actions whose alarm a failure used up
    lockedClean   \* history: the last cleanup of the tasks threw nothing

sharedVars == <<lockHeld, session, ops, faults>>
ownVars == <<clipboard, stray, late, task, copies, expired, alarms,
             handler, op, spent, lockedClean>>

Actions == 1..MaxCopies
Texts == Secrets \union {None, Text}
Tasks == [action : Actions, value : Secrets]
Operations == [kind : {"copy", "lock", "delete", "alarm"},
               pc : {"read", "compare", "erase", "forget", "cancel",
                     "save", "arm", "write", "end"},
               action : Actions \union {0},
               value : Secrets \union {None},
               owned : Tasks \union {None},
               strict : BOOLEAN,
               failed : BOOLEAN]
Handlers == [pc : {"fired", "owns", "ask", "insist", "early", "error",
                   "abandoned", "stale", "done"},
             armed : BOOLEAN]

TypeOK ==
    /\ clipboard \in Texts
    /\ stray \in BOOLEAN
    /\ late \subseteq Secrets \union {None}
    /\ task \in Tasks \union {None}
    /\ copies \in 0..MaxCopies
    /\ expired \subseteq Actions
    /\ alarms \subseteq Actions
    /\ handler \in [Actions -> Handlers \union {None}]
    /\ op \in Operations \union {None}
    /\ spent \subseteq Actions
    /\ lockedClean \in BOOLEAN
    /\ op # None => lockHeld

Init ==
    /\ clipboard = None
    /\ stray = FALSE
    /\ late = {}
    /\ task = None
    /\ copies = 0
    /\ expired = {}
    /\ alarms = {}
    /\ handler = [a \in Actions |-> None]
    /\ op = None
    /\ spent = {}
    /\ lockedClean = TRUE

Works == UNCHANGED faults
Fails == faults < MaxFaults /\ faults' = faults + 1

-----------------------------------------------------------------------------
(* Taking and leaving the Web Lock                                          *)

Enter(kind, action, value, strict) ==
    /\ ~lockHeld
    /\ lockHeld' = TRUE
    /\ op' = [kind |-> kind, pc |-> "read", action |-> action,
              value |-> value, owned |-> None, strict |-> strict,
              failed |-> FALSE]

\* The result of an alarm's clear goes to its handler.
Leave(result) ==
    /\ lockHeld' = FALSE
    /\ op' = None
    /\ handler' = IF op.kind = "alarm"
                  THEN [handler EXCEPT ![op.action].pc = result]
                  ELSE handler

Goto(pc) ==
    /\ op' = [op EXCEPT !.pc = pc]
    /\ UNCHANGED <<lockHeld, handler>>

ThrowUnreported ==                                       \* seeded fault
    IF op.kind \in {"lock", "delete"}
    THEN Goto("end")
    ELSE Leave(IF op.strict THEN "error" ELSE "abandoned")

\* A step that throws ends a copy or an alarm's clear; a cleanup remembers
\* the error and goes on to remove the session.
Throw ==
    IF op.kind \in {"lock", "delete"}
    THEN /\ op' = [op EXCEPT !.pc = "end", !.failed = TRUE]
         /\ UNCHANGED <<lockHeld, handler>>
    ELSE Leave(IF op.strict THEN "error" ELSE "abandoned")

\* A copy needs the vault unlocked once it holds the lock.
BeginCopy(s) ==
    /\ session
    /\ ops < MaxOps
    /\ copies < MaxCopies
    /\ ops' = ops + 1
    /\ Enter("copy", 0, s, FALSE)
    /\ UNCHANGED <<session, faults, clipboard, stray, late, task, copies,
                   expired, alarms, handler, spent, lockedClean>>

BeginCleanup(kind) ==
    /\ session
    /\ ops < MaxOps
    /\ ops' = ops + 1
    /\ Enter(kind, 0, None, FALSE)
    /\ UNCHANGED <<session, faults, clipboard, stray, late, task, copies,
                   expired, alarms, handler, spent, lockedClean>>

-----------------------------------------------------------------------------
(* Clearing: read the task, compare the clipboard, erase, forget            *)

AfterClear == IF op.kind = "copy" THEN "save" ELSE "end"

ReadTask ==
    /\ op # None
    /\ op.pc = "read"
    /\ \/ /\ Works
          /\ \/ /\ task = None
                /\ IF op.kind = "alarm" THEN Leave("done") ELSE Goto(AfterClear)
             \/ /\ task # None
                /\ op.kind = "alarm"
                /\ task.action # op.action
                /\ Leave("stale")
             \/ /\ task # None
                /\ op.kind = "alarm"
                /\ task.action = op.action
                /\ op.strict
                /\ op.action \notin expired
                /\ Leave("early")
             \/ /\ task # None
                /\ op.kind = "alarm" => /\ task.action = op.action
                                        /\ op.strict => op.action \in expired
                /\ op' = [op EXCEPT !.pc = "compare", !.owned = task]
                /\ UNCHANGED <<lockHeld, handler>>
       \/ Fails /\ Throw
    /\ UNCHANGED <<session, ops, clipboard, stray, late, task, copies,
                   expired, alarms, spent, lockedClean>>

\* The hashes of the clipboard's text and of the task agree or not.
CompareClipboard ==
    /\ op # None
    /\ op.pc = "compare"
    /\ \/ Works /\ Goto(IF clipboard = op.owned.value THEN "erase" ELSE "forget")
       \/ Fails /\ Throw
    /\ UNCHANGED <<session, ops, clipboard, stray, late, task, copies,
                   expired, alarms, spent, lockedClean>>

\* The offscreen document executes a write before its deadline or never.
Lands(text) == clipboard' = text /\ stray' = FALSE
NeverLands == UNCHANGED <<clipboard, stray>>

EraseAtBest ==                                           \* seeded fault
    /\ op # None
    /\ op.pc = "erase"
    /\ \/ Works /\ Lands(None)
       \/ Fails /\ (Lands(None) \/ NeverLands)
    /\ Goto("forget")
    /\ UNCHANGED <<session, ops, late, task, copies, expired, alarms, spent,
                   lockedClean>>

\* A write whose answer is an error or does not come may have landed.
Erase ==
    /\ op # None
    /\ op.pc = "erase"
    /\ \/ Works /\ Lands(None) /\ Goto("forget")
       \/ Fails /\ (Lands(None) \/ NeverLands) /\ Throw
    /\ UNCHANGED <<session, ops, late, task, copies, expired, alarms, spent,
                   lockedClean>>

Forget ==
    /\ op # None
    /\ op.pc = "forget"
    /\ \/ /\ Works
          /\ task' = None
          /\ IF op.kind = "alarm" THEN Leave("done") ELSE Goto("cancel")
       \/ Fails /\ Throw /\ UNCHANGED task
    /\ UNCHANGED <<session, ops, clipboard, stray, late, copies, expired,
                   alarms, spent, lockedClean>>

CancelAlarm ==
    /\ op # None
    /\ op.pc = "cancel"
    /\ \/ /\ Works
          /\ alarms' = alarms \ {op.owned.action}
          /\ Goto(AfterClear)
       \/ Fails /\ Throw /\ UNCHANGED alarms
    /\ UNCHANGED <<session, ops, clipboard, stray, late, task, copies,
                   expired, spent, lockedClean>>

-----------------------------------------------------------------------------
(* The rest of a copy: own the value first, write it last                   *)

SaveTask ==
    /\ op # None
    /\ op.pc = "save"
    /\ \/ /\ Works
          /\ copies' = copies + 1
          /\ task' = [action |-> copies + 1, value |-> op.value]
          /\ op' = [op EXCEPT !.pc = "arm", !.action = copies + 1]
          /\ UNCHANGED <<lockHeld, handler>>
       \/ Fails /\ Throw /\ UNCHANGED <<copies, task>>
    /\ UNCHANGED <<session, ops, clipboard, stray, late, expired, alarms,
                   spent, lockedClean>>

\* Without an alarm the task is withdrawn, if that works, and nothing written.
ArmAlarm ==
    /\ op # None
    /\ op.pc = "arm"
    /\ \/ /\ Works
          /\ alarms' = alarms \union {op.action}
          /\ Goto("write")
          /\ UNCHANGED task
       \/ /\ Fails
          /\ task' \in {None, task}
          /\ Throw
          /\ UNCHANGED alarms
    /\ UNCHANGED <<session, ops, clipboard, stray, late, copies, expired,
                   spent, lockedClean>>

\* A failed write keeps the task: it may have landed.
WriteSecret ==
    /\ op # None
    /\ op.pc = "write"
    /\ \/ Works /\ Lands(op.value) /\ Leave("done")
       \/ Fails /\ (Lands(op.value) \/ NeverLands) /\ Throw
    /\ UNCHANGED <<session, ops, late, task, copies, expired, alarms, spent,
                   lockedClean>>

\* The session goes, whatever became of the clipboard; the error is reported.
RemoveSession ==
    /\ op # None
    /\ op.pc = "end"
    /\ session' = FALSE
    /\ lockedClean' = ~op.failed
    /\ Leave("done")
    /\ UNCHANGED <<ops, clipboard, stray, late, task, copies, expired, alarms,
                   spent>>

OperationSteps ==
    \/ ReadTask \/ CompareClipboard \/ Erase \/ Forget \/ CancelAlarm
    \/ SaveTask \/ ArmAlarm \/ WriteSecret

-----------------------------------------------------------------------------
(* The alarm handler                                                        *)

Expire(a) ==
    /\ task # None
    /\ task.action = a
    /\ a \notin expired
    /\ expired' = expired \union {a}
    /\ UNCHANGED <<lockHeld, session, ops, faults, clipboard, stray, late, task,
                   copies, alarms, handler, op, spent, lockedClean>>

\* An alarm may fire before the expiry its task names: the clock may be set
\* back.
Fire(a) ==
    /\ a \in alarms
    /\ handler[a] = None
    /\ alarms' = alarms \ {a}
    /\ handler' = [handler EXCEPT ![a] = [pc |-> "fired", armed |-> FALSE]]
    /\ UNCHANGED <<lockHeld, session, ops, faults, clipboard, stray, late, task,
                   copies, expired, op, spent, lockedClean>>

At(a, pcs) == handler[a] # None /\ handler[a].pc \in pcs
Stop(a) == handler' = [handler EXCEPT ![a] = None]
Lose(a) == spent' = spent \union {a}

\* The task is read outside the lock; a read that fails arms no retry.
HandlerReads(a) ==
    /\ At(a, {"fired"})
    /\ \/ /\ Works
          /\ IF task # None /\ task.action = a
             THEN handler' = [handler EXCEPT ![a].pc = "owns"]
             ELSE Stop(a)
          /\ UNCHANGED spent
       \/ Fails /\ Stop(a) /\ Lose(a)
    /\ UNCHANGED <<lockHeld, session, ops, clipboard, stray, late, task, copies,
                   expired, alarms, op, lockedClean>>

HandlerArmsRetry(a) ==
    /\ At(a, {"owns"})
    /\ \/ /\ Works
          /\ alarms' = alarms \union {a}
          /\ handler' = [handler EXCEPT ![a] = [pc |-> "ask", armed |-> TRUE]]
       \/ /\ Fails
          /\ handler' = [handler EXCEPT ![a].pc = "ask"]
          /\ UNCHANGED alarms
    /\ UNCHANGED <<lockHeld, session, ops, clipboard, stray, late, task, copies,
                   expired, op, spent, lockedClean>>

HandlerClears(a) ==
    /\ At(a, {"ask", "insist"})
    /\ Enter("alarm", a, None, handler[a].pc = "ask")
    /\ UNCHANGED <<session, ops, faults, clipboard, stray, late, task, copies,
                   expired, alarms, handler, spent, lockedClean>>

\* Without a retry, one more attempt to arm it, in the outage that refused the
\* first; when it fails too, a clear that came early is repeated without asking
\* for the expiry, and after an error nothing is left to try.
HandlerRearms(a) ==
    /\ At(a, {"error", "early"})
    /\ ~handler[a].armed
    /\ \/ /\ alarms' = alarms \union {a}
          /\ Stop(a)
          /\ UNCHANGED spent
       \/ /\ handler' = [handler EXCEPT ![a].pc =
                             IF @ = "early" THEN "insist" ELSE "abandoned"]
          /\ UNCHANGED <<alarms, spent>>
    /\ UNCHANGED <<lockHeld, session, ops, faults, clipboard, stray, late, task,
                   copies, expired, op, lockedClean>>

\* The retry stays after an error and an early alarm, and goes otherwise.
KeepsRetry(a) == At(a, {"error", "early"}) /\ handler[a].armed
DropsRetry(a) == At(a, {"stale", "done"}) /\ handler[a].armed
HasNoRetry(a) == At(a, {"abandoned", "stale", "done"}) /\ ~handler[a].armed

HandlerEndsWithoutRetry(a) ==                            \* seeded fault
    /\ KeepsRetry(a) \/ DropsRetry(a) \/ HasNoRetry(a)
    /\ Works
    /\ alarms' = alarms \ {a}
    /\ spent' = IF At(a, {"abandoned"}) THEN spent \union {a} ELSE spent
    /\ Stop(a)
    /\ UNCHANGED <<lockHeld, session, ops, clipboard, stray, late, task, copies,
                   expired, op, lockedClean>>

HandlerEnds(a) ==
    /\ \/ (KeepsRetry(a) \/ HasNoRetry(a)) /\ Works /\ UNCHANGED alarms
       \/ DropsRetry(a) /\ Works /\ alarms' = alarms \ {a}
       \/ DropsRetry(a) /\ Fails /\ UNCHANGED alarms
    /\ spent' = IF At(a, {"abandoned"}) THEN spent \union {a} ELSE spent
    /\ Stop(a)
    /\ UNCHANGED <<lockHeld, session, ops, clipboard, stray, late, task, copies,
                   expired, op, lockedClean>>

HandlerSteps(a) ==
    \/ HandlerReads(a) \/ HandlerArmsRetry(a) \/ HandlerClears(a)
    \/ HandlerRearms(a) \/ HandlerEnds(a)

-----------------------------------------------------------------------------
(* Deaths, late writes, restarts, and the user                              *)

\* The browser releases the lock of a context that dies; a write it sent
\* may still arrive before its deadline.
Unsent == IF op.pc = "erase" THEN {None}
          ELSE IF op.pc = "write" THEN {op.value} ELSE {}

PageDies ==
    /\ op # None
    /\ op.kind # "alarm"
    /\ Fails
    /\ lockHeld' = FALSE
    /\ op' = None
    /\ late' \in {late, late \union Unsent}
    /\ UNCHANGED <<session, ops, clipboard, stray, task, copies, expired,
                   alarms, handler, spent, lockedClean>>

\* The service worker is stopped: an alarm that fired stays fired.
WorkerDies ==
    /\ \E a \in Actions : handler[a] # None
    /\ Fails
    /\ IF op # None /\ op.kind = "alarm"
       THEN /\ lockHeld' = FALSE
            /\ op' = None
            /\ late' \in {late, late \union Unsent}
       ELSE UNCHANGED <<lockHeld, op, late>>
    /\ handler' = [a \in Actions |-> None]
    /\ spent' = spent \union {a \in Actions : handler[a] # None /\ a \notin alarms}
    /\ UNCHANGED <<session, ops, clipboard, stray, task, copies, expired,
                   alarms, lockedClean>>

LateWrite(text) ==
    /\ text \in late
    /\ late' = late \ {text}
    /\ \/ /\ clipboard' = text
          /\ stray' = (text # None)
       \/ UNCHANGED <<clipboard, stray>>
    /\ UNCHANGED <<lockHeld, session, ops, faults, task, copies, expired,
                   alarms, handler, op, spent, lockedClean>>

\* The user copies something of their own.
UserCopies ==
    /\ clipboard # Text
    /\ Lands(Text)
    /\ UNCHANGED <<lockHeld, session, ops, faults, late, task, copies, expired,
                   alarms, handler, op, spent, lockedClean>>

\* A restart of the browser empties chrome.storage.session; alarms may stay.
Restart ==
    /\ session' = FALSE
    /\ lockHeld' = FALSE
    /\ op' = None
    /\ handler' = [a \in Actions |-> None]
    /\ task' = None
    /\ alarms' \in {{}, alarms}
    /\ late' = {}
    /\ stray' = (clipboard \in Secrets)
    /\ UNCHANGED <<ops, clipboard, copies, expired, spent, lockedClean>>

Next ==
    \/ \E s \in Secrets : BeginCopy(s)
    \/ \E kind \in {"lock", "delete"} : BeginCleanup(kind)
    \/ OperationSteps
    \/ \E a \in Actions : Expire(a) \/ Fire(a) \/ HandlerSteps(a)
    \/ PageDies \/ WorkerDies \/ UserCopies
    \/ \E text \in late : LateWrite(text)

-----------------------------------------------------------------------------
(* Properties                                                               *)

SecretOut == clipboard \in Secrets /\ ~stray

\* A secret on the clipboard has a task that can clear it: the copy's order of
\* saving and writing, the re-reading of the task under the lock and the order
\* of erasing and forgetting leave no moment without an owner.
SecretIsOwned == SecretOut => task # None /\ task.value = clipboard

\* After a lock or deletion whose cleanup reports no error, the clipboard holds
\* no secret copied before it, and none is written to it while it is locked.
LockLeavesNoSecret == ~session /\ lockedClean => ~SecretOut

\* A copied secret leaves the clipboard, unless a failure used up the alarm of
\* its task: a stopped worker or a failed read before the retry was armed.
SecretLeaves ==
    SecretOut ~> \/ ~SecretOut
                 \/ task # None /\ task.action \in spent
=============================================================================
