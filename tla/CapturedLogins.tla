--------------------------- MODULE CapturedLogins ---------------------------
(* Logins typed on a website, kept encrypted until the user reviews them.   *)
(* The worker captures under a lock of its own and, inside it, the Web Lock *)
(* of the session; settings and cleanups take the first lock, the popup     *)
(* only the second.                                                         *)
EXTENDS Integers, FiniteSets

CONSTANTS None,       \* no capture, no work
          Tabs,       \* the browser tabs
          Limit,      \* captures kept at once, 20 in the code
          MaxFaults,  \* bound: failures, deaths and restarts
          MaxOps      \* bound: operations a user starts

VARIABLES
    lockHeld,   \* the origin-wide Web Lock
    session,    \* the vault is unlocked
    ops,        \* operations started so far
    faults,     \* failures so far
    watch,      \* detection was switched on; without it nothing is captured
    enabled,    \* the preference loginDetectionEnabled
    permitted,  \* the browser's permission to read websites
    retain,     \* the preference capturedLoginSessionRetention
    enabling,   \* permission was granted, the preference is still to be saved
    open,       \* tabs still on the website they were opened for
    stored,     \* chrome.storage.session: the capture of each tab
    ids,        \* capture IDs given out
    asked,      \* tabs whose page asked for a capture
    due,        \* cleanups that wait for the capture lock
    job,        \* what the holder of the capture lock does
    popup,      \* the popup's review of a tab
    uncleared   \* history: cleanups that failed

sharedVars == <<lockHeld, session, ops, faults>>
settings == <<watch, enabled, permitted, retain, enabling>>
ownVars == <<settings, open, stored, ids, asked, due, job, popup, uncleared>>

\* A cleanup is of ended sessions, of detection that is off, of all closed tabs
\* or of one.
Cleanups == {"session", "detection", "tabs"} \union Tabs

\* ours: captured in the present session.  late: two minutes have passed.
Captures == [id : 1..MaxOps, ours : BOOLEAN, keeps : BOOLEAN, late : BOOLEAN]

\* todo: what is left of a change of a setting or a cleanup.
Jobs == [kind : {"capture"}, tab : Tabs, keeps : BOOLEAN, ours : BOOLEAN,
         pc : {"check", "tab", "session", "enter", "save", "store"}]
        \union
        [kind : {"cleanup", "disable", "forget"}, cleanup : Cleanups,
         pc : {"look", "work"}, drop : SUBSET Tabs,
         todo : SUBSET {"prefer", "clear", "retain"}]

Popups == [pc : {"inspect", "shown", "remove"}, tab : Tabs, ours : BOOLEAN,
           id : 0..MaxOps]

Capturing(pcs) == job # None /\ job.kind = "capture" /\ job.pc \in pcs
Working == job # None /\ job.kind # "capture" /\ job.pc = "work"
Popup(pc) == popup # None /\ popup.pc = pc

HoldsWebLock == Capturing({"save", "store"}) \/ Popup("remove")

TypeOK ==
    /\ <<watch, enabled, permitted, retain, enabling>> \in
           BOOLEAN \X BOOLEAN \X BOOLEAN \X BOOLEAN \X BOOLEAN
    /\ open \subseteq Tabs
    /\ stored \in [Tabs -> Captures \union {None}]
    /\ ids \in 0..MaxOps
    /\ asked \subseteq Tabs
    /\ due \subseteq Cleanups
    /\ job \in Jobs \union {None}
    /\ popup \in Popups \union {None}
    /\ uncleared \subseteq Cleanups
    /\ HoldsWebLock => lockHeld

Init ==
    /\ watch \in BOOLEAN
    /\ enabled = watch
    /\ permitted = watch
    /\ retain \in {FALSE, watch}
    /\ enabling = FALSE
    /\ open = Tabs
    /\ stored = [t \in Tabs |-> None]
    /\ ids = 0
    /\ asked = {}
    /\ due = {}
    /\ job = None
    /\ popup = None
    /\ uncleared = {}

Fails == faults < MaxFaults /\ faults' = faults + 1
Starts == watch /\ ops < MaxOps /\ ops' = ops + 1

DetectionOn == enabled /\ permitted
Holds(t) == stored[t] # None
Without(names) == [t \in Tabs |-> IF t \in names THEN None ELSE stored[t]]

-----------------------------------------------------------------------------
(* Capturing                                                                *)

\* The page's message passes the same checks that are repeated under the lock.
AskCapture(t) ==
    /\ DetectionOn
    /\ t \in open
    /\ t \notin asked
    /\ Starts
    /\ asked' = asked \union {t}
    /\ UNCHANGED <<lockHeld, session, faults, settings, open, stored, ids, due,
                   job, popup, uncleared>>

BeginCapture(t) ==
    /\ t \in asked
    /\ job = None
    /\ asked' = asked \ {t}
    /\ job' = [kind |-> "capture", tab |-> t, keeps |-> FALSE, ours |-> FALSE,
               pc |-> "check"]
    /\ UNCHANGED <<sharedVars, settings, open, stored, ids, due, popup, uncleared>>

Goto(pc) == job' = [job EXCEPT !.pc = pc]

ContinueUnchecked ==                                     \* seeded fault
    /\ Capturing({"check", "tab", "session"})
    /\ job' = CASE job.pc = "check" -> [job EXCEPT !.pc = "tab"]
                [] job.pc = "tab" -> [job EXCEPT !.pc = "session", !.keeps = retain]
                [] job.pc = "session" -> [job EXCEPT !.pc = "save", !.ours = session]
    /\ IF job.pc = "session" THEN ~lockHeld /\ lockHeld' = TRUE ELSE UNCHANGED lockHeld
    /\ UNCHANGED <<session, ops, faults, settings, open, stored, ids, asked, due,
                   popup, uncleared>>

\* Detection, the tab and the session are looked up one after the other; a
\* capture whose deadline has passed ends.  session.get waits for the Web Lock.
Continue ==
    /\ Capturing({"check", "tab", "session"})
    /\ job.pc = "session" => ~lockHeld
    /\ job' \in {None,
                 CASE job.pc = "check" ->
                          IF DetectionOn THEN [job EXCEPT !.pc = "tab"] ELSE None
                   [] job.pc = "tab" ->
                          IF job.tab \in open
                          THEN [job EXCEPT !.pc = "session", !.keeps = retain] ELSE None
                   [] job.pc = "session" ->
                          IF session
                          THEN [job EXCEPT !.pc = "enter", !.ours = TRUE] ELSE None}
    /\ UNCHANGED <<sharedVars, settings, open, stored, ids, asked, due, popup,
                   uncleared>>

\* A login the vault already holds is not captured either.
EnterSession ==
    /\ Capturing({"enter"})
    /\ ~lockHeld
    /\ \/ /\ session
          /\ job.ours
          /\ lockHeld' = TRUE
          /\ Goto("save")
       \/ job' = None /\ UNCHANGED lockHeld
    /\ UNCHANGED <<session, ops, faults, settings, open, stored, ids, asked, due,
                   popup, uncleared>>

Stale(t) == Holds(t) /\ (~stored[t].ours \/ stored[t].late)

LeaveBoth == job' = None /\ lockHeld' = FALSE

SaveDropsStale ==
    /\ Capturing({"save"})
    /\ \/ /\ stored' = Without({t \in Tabs : Stale(t)})
          /\ Goto("store")
          /\ UNCHANGED <<lockHeld, faults>>
       \/ Fails /\ LeaveBoth /\ UNCHANGED stored
    /\ UNCHANGED <<session, ops, settings, open, ids, asked, due, popup, uncleared>>

HasRoom == Cardinality({t \in Tabs : Holds(t)}) < Limit \/ Holds(job.tab)

SaveStores ==
    /\ Capturing({"store"})
    /\ LeaveBoth
    /\ \/ /\ HasRoom
          /\ ids' = ids + 1
          /\ stored' = [stored EXCEPT ![job.tab] =
                 [id |-> ids + 1, ours |-> TRUE, keeps |-> job.keeps, late |-> FALSE]]
          /\ UNCHANGED faults
       \/ ~HasRoom /\ UNCHANGED <<ids, stored, faults>>
       \/ Fails /\ UNCHANGED <<ids, stored>>
    /\ UNCHANGED <<session, ops, settings, open, asked, due, popup, uncleared>>

-----------------------------------------------------------------------------
(* Cleanups and settings, under the capture lock                            *)

BeginCleanup(c) ==
    /\ c \in due
    /\ job = None
    /\ due' = due \ {c}
    /\ job' = [kind |-> "cleanup", cleanup |-> c, pc |-> "look", drop |-> {},
               todo |-> {"clear"}]
    /\ UNCHANGED <<sharedVars, settings, open, stored, ids, asked, popup, uncleared>>

LookAtEvent ==                                           \* seeded fault
    /\ job # None /\ job.kind = "cleanup" /\ job.pc = "look"
    /\ job' = IF job.cleanup = "detection" /\ DetectionOn
              THEN None
              ELSE [job EXCEPT !.pc = "work", !.drop = Tabs]
    /\ UNCHANGED <<sharedVars, settings, open, stored, ids, asked, due, popup,
                   uncleared>>

\* What is to go is decided under the lock: the session is read again, so is
\* the list of tabs, and so is the setting.
Look ==
    /\ job # None /\ job.kind = "cleanup" /\ job.pc = "look"
    /\ job' =
           CASE job.cleanup = "session" ->
                    [job EXCEPT !.pc = "work",
                                !.drop = {t \in Tabs : Holds(t) /\ ~stored[t].ours}]
             [] job.cleanup = "tabs" ->
                    [job EXCEPT !.pc = "work", !.drop = Tabs \ open]
             [] job.cleanup = "detection" ->
                    IF DetectionOn THEN None
                    ELSE [job EXCEPT !.pc = "work", !.drop = Tabs,
                                     !.todo = {"clear"} \union {x \in {"prefer"} : enabled}]
             [] OTHER -> [job EXCEPT !.pc = "work", !.drop = {job.cleanup}]
    /\ UNCHANGED <<sharedVars, settings, open, stored, ids, asked, due, popup,
                   uncleared>>

\* Switching detection off writes the preference and clears, in either order;
\* session retention is switched off after clearing only.
BeginDisable(kind) ==
    /\ job = None
    /\ kind = "forget" => retain
    /\ Starts
    /\ job' = [kind |-> kind, cleanup |-> "detection", pc |-> "work", drop |-> Tabs,
               todo |-> IF kind = "forget" THEN {"clear", "retain"}
                                           ELSE {"prefer", "clear"}]
    /\ UNCHANGED <<lockHeld, session, faults, settings, open, stored, ids, asked,
                   due, popup, uncleared>>

After(step) == IF job.todo = {step} THEN None
               ELSE [job EXCEPT !.todo = @ \ {step}]

WritePreference ==
    /\ Working
    /\ "prefer" \in job.todo
    /\ \/ enabled' = FALSE /\ UNCHANGED faults
       \/ Fails /\ UNCHANGED enabled
    /\ job' = After("prefer")
    /\ UNCHANGED <<lockHeld, session, ops, watch, permitted, retain, enabling, open,
                   stored, ids, asked, due, popup, uncleared>>

Clear ==
    /\ Working
    /\ "clear" \in job.todo
    /\ \/ /\ stored' = Without(job.drop)
          /\ job' = After("clear")
          /\ uncleared' = uncleared \ {job.cleanup}
          /\ UNCHANGED faults
       \/ /\ Fails
          /\ job' = IF job.kind = "forget" THEN None ELSE After("clear")
          /\ uncleared' = IF job.kind = "forget" THEN uncleared
                          ELSE uncleared \union {job.cleanup}
          /\ UNCHANGED stored
    /\ UNCHANGED <<lockHeld, session, ops, settings, open, ids, asked, due, popup>>

StopRetaining ==
    /\ Working
    /\ job.todo = {"retain"}
    /\ job' = None
    /\ \/ retain' = FALSE /\ UNCHANGED faults
       \/ Fails /\ UNCHANGED retain
    /\ UNCHANGED <<lockHeld, session, ops, watch, enabled, permitted, enabling, open,
                   stored, ids, asked, due, popup, uncleared>>

Retain ==
    /\ job = None
    /\ ~retain
    /\ Starts
    /\ retain' = TRUE
    /\ UNCHANGED <<lockHeld, session, faults, watch, enabled, permitted, enabling,
                   open, stored, ids, asked, due, job, popup, uncleared>>

\* The permission is asked for before the capture lock.
AskDetection ==
    /\ ~DetectionOn
    /\ ~enabling
    /\ Starts
    /\ permitted' = TRUE
    /\ enabling' = TRUE
    /\ UNCHANGED <<lockHeld, session, faults, watch, enabled, retain, open, stored,
                   ids, asked, due, job, popup, uncleared>>

Enable ==
    /\ enabling
    /\ job = None
    /\ enabling' = FALSE
    /\ \/ enabled' = TRUE /\ UNCHANGED faults
       \/ Fails /\ UNCHANGED enabled
    /\ UNCHANGED <<lockHeld, session, ops, watch, permitted, retain, open, stored,
                   ids, asked, due, job, popup, uncleared>>

-----------------------------------------------------------------------------
(* The popup, under the session's Web Lock only                             *)

OpenPopup(t) ==
    /\ popup = None
    /\ session
    /\ ~lockHeld
    /\ t \in open
    /\ Starts
    /\ popup' = [pc |-> "inspect", tab |-> t, ours |-> TRUE, id |-> 0]
    /\ UNCHANGED <<lockHeld, session, faults, settings, open, stored, ids, asked, due, job,
                   uncleared>>

\* A capture opens with the session that stored it.
Readable == /\ session
            /\ popup.ours
            /\ Holds(popup.tab)
            /\ stored[popup.tab].ours

\* A capture that is late, or that the vault has come to hold, is removed
\* instead of shown.
ReviewReads ==
    /\ Popup("inspect")
    /\ ~lockHeld
    /\ \/ /\ Readable
          /\ \/ /\ ~stored[popup.tab].late
                /\ popup' = [popup EXCEPT !.pc = "shown", !.id = stored[popup.tab].id]
                /\ UNCHANGED <<stored, faults>>
             \/ /\ stored' = Without({popup.tab})
                /\ popup' = None
                /\ UNCHANGED faults
             \/ Fails /\ popup' = None /\ UNCHANGED stored
       \/ ~Readable /\ popup' = None /\ UNCHANGED <<stored, faults>>
    /\ UNCHANGED <<lockHeld, session, ops, settings, open, ids, asked, due, job,
                   uncleared>>

\* Dismissed by the user, or saved as an entry: only the capture that was shown
\* goes, whatever session is open by then.
Dismiss ==
    /\ Popup("shown")
    /\ ~lockHeld
    /\ IF session /\ Holds(popup.tab) /\ stored[popup.tab].id = popup.id
       THEN lockHeld' = TRUE /\ popup' = [popup EXCEPT !.pc = "remove"]
       ELSE popup' = None /\ UNCHANGED lockHeld
    /\ UNCHANGED <<session, ops, faults, settings, open, stored, ids, asked, due,
                   job, uncleared>>

DismissRemoves ==
    /\ Popup("remove")
    /\ lockHeld' = FALSE
    /\ popup' = None
    /\ \/ stored' = Without({popup.tab}) /\ UNCHANGED faults
       \/ Fails /\ UNCHANGED stored
    /\ UNCHANGED <<session, ops, settings, open, ids, asked, due, job, uncleared>>

-----------------------------------------------------------------------------
(* The browser: time, tabs, permissions, deaths                             *)

Expire(t) ==
    /\ Holds(t)
    /\ ~stored[t].keeps
    /\ ~stored[t].late
    /\ stored' = [stored EXCEPT ![t].late = TRUE]
    /\ UNCHANGED <<sharedVars, settings, open, ids, asked, due, job, popup, uncleared>>

CloseTab(t) ==
    /\ t \in open
    /\ Starts
    /\ open' = open \ {t}
    /\ due' = due \union {t}
    /\ UNCHANGED <<lockHeld, session, faults, settings, stored, ids, asked, job, popup, uncleared>>

\* The browser tells the worker, which reconciles.
RevokePermission ==
    /\ permitted
    /\ Starts
    /\ permitted' = FALSE
    /\ due' = due \union {"detection", "tabs"}
    /\ UNCHANGED <<lockHeld, session, faults, watch, enabled, retain, enabling, open,
                   stored, ids, asked, job, popup, uncleared>>

\* Whatever the worker had to do is lost; when it starts it cleans up once.
WorkerDies ==
    /\ watch
    /\ Fails
    /\ asked' = {}
    /\ due' = {"session", "detection", "tabs"}
    /\ job' = IF job # None /\ job.kind \in {"capture", "cleanup"} THEN None ELSE job
    /\ lockHeld' = (lockHeld /\ ~Capturing({"save", "store"}))
    /\ UNCHANGED <<session, ops, settings, open, stored, ids, popup, uncleared>>

\* A page that dies while it clears leaves the rest undone.
PageDies ==
    /\ Working \/ Popup("remove")
    /\ job # None => job.kind # "cleanup"
    /\ Fails
    /\ job' = IF Working THEN None ELSE job
    /\ uncleared' = IF Working /\ job.kind = "disable"
                    THEN uncleared \union {"detection"} ELSE uncleared
    /\ popup' = IF Popup("remove") THEN None ELSE popup
    /\ lockHeld' = (lockHeld /\ ~Popup("remove"))
    /\ UNCHANGED <<session, ops, settings, open, stored, ids, asked, due>>

\* The end or the replacement of a session is an event for the worker.
SessionChanges ==
    /\ stored' = [t \in Tabs |-> IF Holds(t) THEN [stored[t] EXCEPT !.ours = FALSE]
                                             ELSE None]
    /\ job' = IF job # None /\ job.kind = "capture" THEN [job EXCEPT !.ours = FALSE]
                                                    ELSE job
    /\ popup' = IF popup # None THEN [popup EXCEPT !.ours = FALSE] ELSE None
    /\ due' = IF watch THEN due \union {"session"} ELSE due
    /\ UNCHANGED <<settings, open, ids, asked, uncleared>>

\* chrome.storage.session ends with the browser; the preferences stay.
Restart ==
    /\ stored' = [t \in Tabs |-> None]
    /\ asked' = {}
    /\ due' = IF watch THEN {"session", "detection", "tabs"} ELSE {}
    /\ job' = None
    /\ popup' = None
    /\ enabling' = FALSE
    /\ uncleared' = {}
    /\ UNCHANGED <<watch, enabled, permitted, retain, open, ids>>

Steps ==
    \/ \E t \in Tabs : BeginCapture(t)
    \/ \E c \in Cleanups : BeginCleanup(c)
    \/ Continue \/ EnterSession \/ SaveDropsStale \/ SaveStores
    \/ Look \/ WritePreference \/ Clear \/ StopRetaining \/ Enable
    \/ ReviewReads \/ DismissRemoves

Next ==
    \/ \E t \in Tabs : AskCapture(t) \/ OpenPopup(t) \/ Expire(t) \/ CloseTab(t)
    \/ \E kind \in {"disable", "forget"} : BeginDisable(kind)
    \/ Steps
    \/ Retain \/ AskDetection \/ Dismiss
    \/ RevokePermission \/ WorkerDies \/ PageDies

-----------------------------------------------------------------------------
(* Properties                                                               *)

\* A cleanup that will look at t, or has marked it, or a failure.
Pending(c, t) ==
    \/ c \in due \union uncleared
    \/ /\ job # None
       /\ job.kind # "capture"
       /\ job.cleanup = c
       /\ job.pc = "look" \/ (t \in job.drop /\ "clear" \in job.todo)

\* A capture in storage is of the present session, of an open tab and of a time
\* when detection is on, or a cleanup that removes it is on its way.  One that
\* never expires needs session retention.
CapturesAreWanted ==
    \A t \in Tabs : Holds(t) =>
        /\ stored[t].ours \/ Pending("session", t)
        /\ t \in open \/ Pending(t, t) \/ Pending("tabs", t)
        /\ DetectionOn \/ Pending("detection", t)
        /\ stored[t].keeps => retain

\* A capture of the present session goes for a reason: a newer one of its tab,
\* its age, its tab, a setting, or the review that showed it.  No cleanup of an
\* older session and no late dismissal takes it.
Reason(t) ==
    \/ stored'[t] # None /\ stored'[t].id > stored[t].id
    \/ stored[t].late
    \/ t \notin open
    \/ Working /\ job.cleanup = "detection"
    \/ popup # None /\ popup.tab = t /\ popup.id \in {0, stored[t].id}

CapturesGoForAReason ==
    [][\A t \in Tabs :
           Holds(t) /\ session /\ stored[t].ours /\ session' =>
               \/ stored'[t] # None /\ stored'[t].id = stored[t].id
               \/ Reason(t)]_<<sharedVars, ownVars>>
=============================================================================
