------------------------ MODULE VaultSession_proofs ------------------------
(***************************************************************************)
(* Proofs about VaultSession for any number of pages, vaults, failing      *)
(* calls and deaths.                                                       *)
(***************************************************************************)
EXTENDS VaultSession, TLAPS

(***************************************************************************)
(* Which calls an operation of each kind makes, and what it carries.       *)
(***************************************************************************)
CallsOf(kind) ==
    IF kind = "activate"
    THEN {"advance epoch", "save vault", "save task", "arm alarm", "save payload",
          "save material", "remove material", "remove payload", "remove task",
          "cancel alarm", "discard vault"}
    ELSE IF kind = "commit" THEN {"save payload", "save material", "advance epoch"}
    ELSE IF kind = "persist" THEN {"advance epoch", "save snapshot"}
    ELSE IF kind = "rollback" THEN {"advance epoch", "restore snapshot"}
    ELSE IF kind = "revoke" THEN {"advance epoch", "remove material", "remove payload"}
    ELSE IF kind = "discard"
    THEN {"read tasks", "remove task", "cancel alarm", "advance epoch",
          "remove material", "remove payload", "discard vault"}
    ELSE {"advance epoch", "read tasks", "remove material", "remove payload",
          "remove vault", "remove task", "cancel alarm"}

WellFormed(o) ==
    /\ o \in Operations
    /\ o.pc \in CallsOf(o.kind)
    /\ o.kind \in {"activate", "commit", "persist", "rollback"} => o.target \in Material
    /\ o.kind = "rollback" => o.base \in Versions
    /\ o.kind \in {"activate", "alarm"} => o.action \in Ids

TypeInv == /\ TypeOK
           /\ op # None => WellFormed(op)
           /\ op # None /\ op.kind = "persist" => nextVersion < MaxVersion

-----------------------------------------------------------------------------
LEMMA ReconcileType ==
    ASSUME TypeOK, NEW c \in Contexts
    PROVE  /\ Reconcile(c).material \in Material \cup {None}
           /\ Reconcile(c).cache \in Material \cup {None, Unread}
           /\ Reconcile(c).inval \in Invalidations
           /\ Reconcile(c).moved \in BOOLEAN
           /\ Reconcile(c).material # None => Reconcile(c).material = stored
           /\ Dropped(c) \subseteq captured
<1>1. Held(c) \in Material \cup {None, Unread}
  BY DEF TypeOK, Held, Evict
<1>2. ReadThrough(Held(c)) \in Material \cup {None}
  BY <1>1 DEF ReadThrough, TypeOK
<1>3. Valid \in Invalidations
  BY DEF Invalidations
<1> QED
  BY <1>1, <1>2, <1>3 DEF Reconcile, TypeOK, Dropped

(***************************************************************************)
(* An operation, and what each step leaves of it.                          *)
(***************************************************************************)
LEMMA HandlerType ==
    ASSUME handler \in [Ids -> Handlers], NEW i \in Ids,
           NEW pc \in {"check", "arm", "locking", "cleaned", "failed"}, HandlerTo(i, pc)
    PROVE  handler' \in [Ids -> Handlers]
BY DEF HandlerTo, Handlers

LEMMA AtVersionFields ==
    ASSUME NEW s \in Material, NEW n \in Versions
    PROVE  /\ AtVersion(s, n) \in Material
           /\ AtVersion(s, n).sid = s.sid /\ AtVersion(s, n).vault = s.vault
           /\ AtVersion(s, n).ver = n
BY DEF AtVersion, Material

(***************************************************************************)
(* The operations that begin are well formed, and carry what their context *)
(* brought.                                                                *)
(***************************************************************************)
IsOperation(o, kind, c, pc) ==
    o \in Operations /\ o.kind = kind /\ o.ctx = c /\ o.pc = pc

LEMMA RevocationType ==
    ASSUME NEW c \in Contexts, NEW m \in Material \cup {None}, op' = Revocation(c, m)
    PROVE  WellFormed(op') /\ IsOperation(op', "revoke", c, "advance epoch")
<1>1. "revoke" \in Kinds /\ "advance epoch" \in Pcs
  BY DEF Kinds, Pcs, Cleanups
<1>2. LET o == Revocation(c, m)
      IN  o \in Operations /\ o.kind = "revoke" /\ o.ctx = c /\ o.pc = "advance epoch"
  BY <1>1 DEF Revocation, Operation, Operations
<1> QED
  BY <1>2 DEF WellFormed, IsOperation, CallsOf, Cleanups

\* An activation whose vault was not stored goes on to remove the session.
LEMMA RemovalType ==
    ASSUME NEW c \in Contexts, NEW m \in Material \cup {None},
           op' = Removal(c, m)
    PROVE  WellFormed(op') /\ IsOperation(op', "revoke", c, "remove material")
<1>1. "revoke" \in Kinds /\ {"advance epoch", "remove material"} \subseteq Pcs
  BY DEF Kinds, Pcs, Cleanups
<1>2. LET o == Removal(c, m)
      IN  o \in Operations /\ o.kind = "revoke" /\ o.ctx = c /\ o.pc = "remove material"
  BY <1>1 DEF Removal, Revocation, Operation, Operations
<1> QED
  BY <1>2 DEF WellFormed, IsOperation, CallsOf, Cleanups

LEMMA ActivationType ==
    ASSUME TypeOK, NEW c \in Contexts, client[c].pc = "ready", nextId < MaxId,
           op' = Activation(c)
    PROVE  /\ WellFormed(op') /\ IsOperation(op', "activate", c, "advance epoch")
           /\ op'.action = nextId + 1 /\ op'.target.sid = nextId + 1
           /\ op'.target.vault = client[c].vault /\ op'.target.ver = client[c].ver
           /\ op'.vault = None
<1>1. "activate" \in Kinds /\ "advance epoch" \in Pcs
  BY DEF Kinds, Pcs
<1>2. nextId + 1 \in Ids
  BY ConstantsAssumption DEF TypeOK, Ids
<1>3. [sid |-> nextId + 1, vault |-> client[c].vault, ver |-> client[c].ver] \in Material
  BY <1>2 DEF TypeOK, Clients, Idle, Material
<1>4. Reconcile(c).material \in Material \cup {None}
  BY ReconcileType
<1> DEFINE t == [sid |-> nextId + 1, vault |-> client[c].vault, ver |-> client[c].ver]
           a == nextId + 1
<1>5. t \in Material /\ a \in Ids /\ t.sid = a /\ t.vault = client[c].vault
      /\ t.ver = client[c].ver
  BY <1>2, <1>3
<1>6. Activation(c) = [Operation("activate", c, "advance epoch") EXCEPT
          !.target = t, !.known = Reconcile(c).material, !.action = a]
  BY DEF Activation
<1> HIDE DEF t, a
<1>7. LET o == Activation(c)
      IN  /\ o \in Operations /\ o.kind = "activate" /\ o.ctx = c /\ o.pc = "advance epoch"
          /\ o.action = a /\ o.target = t /\ o.vault = None
  BY <1>1, <1>4, <1>5, <1>6 DEF Operation, Operations
<1> QED
  BY <1>5, <1>7 DEF WellFormed, IsOperation, CallsOf, Cleanups, a

LEMMA ArrivalType ==
    ASSUME TypeOK, NEW c \in Contexts, client[c].pc = "prepared", nextId < MaxId,
           nextVersion < MaxVersion, op' = Arrival(c)
    PROVE  /\ WellFormed(op') /\ IsOperation(op', "activate", c, "advance epoch")
           /\ op'.action = nextId + 1 /\ op'.target.sid = nextId + 1
           /\ op'.target.vault = client[c].vault /\ op'.target.ver = nextVersion + 1
           /\ op'.vault = client[c].vault
<1>1. "activate" \in Kinds /\ "advance epoch" \in Pcs
  BY DEF Kinds, Pcs
<1>2. nextId + 1 \in Ids /\ nextVersion + 1 \in Versions
  BY ConstantsAssumption DEF TypeOK, Ids, Versions
<1>3. client[c].vault \in Vaults
  BY DEF TypeOK, Clients, Idle
<1>4. Reconcile(c).material \in Material \cup {None}
  BY ReconcileType
<1> DEFINE t == [sid |-> nextId + 1, vault |-> client[c].vault, ver |-> nextVersion + 1]
           a == nextId + 1
<1>5. /\ t \in Material /\ a \in Ids /\ t.sid = a /\ t.vault = client[c].vault
      /\ t.ver = nextVersion + 1
  BY <1>2, <1>3 DEF Material
<1>6. Arrival(c) = [Operation("activate", c, "advance epoch") EXCEPT
          !.target = t, !.known = Reconcile(c).material, !.action = a,
          !.vault = client[c].vault]
  BY DEF Arrival
<1> HIDE DEF t, a
<1>7. LET o == Arrival(c)
      IN  /\ o \in Operations /\ o.kind = "activate" /\ o.ctx = c /\ o.pc = "advance epoch"
          /\ o.action = a /\ o.target = t /\ o.vault = client[c].vault
  BY <1>1, <1>3, <1>4, <1>5, <1>6 DEF Operation, Operations
<1> QED
  BY <1>5, <1>7 DEF WellFormed, IsOperation, CallsOf, Cleanups, a

LEMMA DiscardingType ==
    ASSUME TypeOK, NEW c \in Contexts, client[c].pc = "enrolled", op' = Discarding(c)
    PROVE  WellFormed(op') /\ IsOperation(op', "discard", c, "read tasks")
<1>1. "discard" \in Kinds /\ "read tasks" \in Pcs
  BY DEF Kinds, Pcs
<1>2. client[c].session \in Material
  BY DEF TypeOK, Clients, Idle
<1>3. client[c].session.vault \in Vaults
  BY <1>2 DEF Material
<1>4. Reconcile(c).material \in Material \cup {None}
  BY ReconcileType
<1>5. LET o == Discarding(c)
      IN  o \in Operations /\ o.kind = "discard" /\ o.ctx = c /\ o.pc = "read tasks"
  BY <1>1, <1>2, <1>3, <1>4 DEF Discarding, Operation, Operations
<1> QED
  BY <1>5 DEF WellFormed, IsOperation, CallsOf

LEMMA PersistenceType ==
    ASSUME TypeOK, NEW c \in Contexts, client[c].pc = "mutating",
           op' = Persistence(c)
    PROVE  /\ WellFormed(op') /\ IsOperation(op', "persist", c, "advance epoch")
           /\ op'.target = client[c].session
<1>1. "persist" \in Kinds /\ "advance epoch" \in Pcs
  BY DEF Kinds, Pcs
<1>2. client[c].session \in Material
  BY DEF TypeOK, Clients, Idle
<1>3. LET o == Persistence(c)
      IN  /\ o \in Operations /\ o.kind = "persist" /\ o.ctx = c /\ o.pc = "advance epoch"
          /\ o.target = client[c].session
  BY <1>1, <1>2 DEF Persistence, Operation, Operations
<1> QED
  BY <1>2, <1>3 DEF WellFormed, IsOperation, CallsOf, Cleanups

LEMMA CommitmentType ==
    ASSUME TypeOK, NEW c \in Contexts, client[c].pc = "persisted",
           op' = Commitment(c)
    PROVE  /\ WellFormed(op') /\ IsOperation(op', "commit", c, "save payload")
           /\ op'.target.sid = client[c].session.sid
           /\ op'.target.vault = client[c].session.vault
           /\ op'.target.ver = client[c].ver
<1>1. "commit" \in Kinds /\ "save payload" \in Pcs
  BY DEF Kinds, Pcs
<1>2. client[c].session \in Material /\ client[c].ver \in Versions
  BY DEF TypeOK, Clients, Idle
<1>3. Reconcile(c).material \in Material \cup {None}
  BY ReconcileType
<1> DEFINE t == AtVersion(client[c].session, client[c].ver)
<1>4. /\ t \in Material /\ t.sid = client[c].session.sid
      /\ t.vault = client[c].session.vault /\ t.ver = client[c].ver
  BY <1>2, AtVersionFields
<1> HIDE DEF t
<1>5. LET o == Commitment(c)
      IN  /\ o \in Operations /\ o.kind = "commit" /\ o.ctx = c /\ o.pc = "save payload"
          /\ o.target = t
  BY <1>1, <1>3, <1>4 DEF Commitment, Operation, Operations, FirstSave, t
<1> QED
  BY <1>4, <1>5 DEF WellFormed, IsOperation, CallsOf, Cleanups

LEMMA RestorationType ==
    ASSUME TypeOK, NEW c \in Contexts, client[c].pc = "persisted",
           op' = Restoration(c)
    PROVE  /\ WellFormed(op')
           /\ \/ IsOperation(op', "rollback", c, "advance epoch")
              \/ IsOperation(op', "rollback", c, "restore snapshot")
           /\ op'.target.vault = client[c].session.vault
           /\ op'.base = client[c].session.ver
<1>1. "rollback" \in Kinds /\ {"advance epoch", "restore snapshot"} \subseteq Pcs
  BY DEF Kinds, Pcs
<1>2. client[c].session \in Material /\ client[c].ver \in Versions
  BY DEF TypeOK, Clients, Idle
<1>3. client[c].session.ver \in Versions
  BY <1>2 DEF Material
<1>4. Reconcile(c).material \in Material \cup {None}
  BY ReconcileType
<1> DEFINE t == AtVersion(client[c].session, client[c].ver)
           p == IF Reconcile(c).material = None THEN "advance epoch" ELSE "restore snapshot"
<1>5. /\ t \in Material /\ p \in {"advance epoch", "restore snapshot"} /\ p \in Pcs
      /\ t.vault = client[c].session.vault
  BY <1>1, <1>2, AtVersionFields
<1>6. Restoration(c) = [Operation("rollback", c, p) EXCEPT
          !.target = t, !.base = client[c].session.ver, !.known = Reconcile(c).material]
  BY DEF Restoration
<1> HIDE DEF t, p
<1>7. LET o == Restoration(c)
      IN  /\ o \in Operations /\ o.kind = "rollback" /\ o.ctx = c /\ o.pc = p
          /\ o.target = t /\ o.base = client[c].session.ver
  BY <1>1, <1>3, <1>4, <1>5, <1>6 DEF Operation, Operations
<1> QED
  BY <1>3, <1>5, <1>7 DEF WellFormed, IsOperation, CallsOf, Cleanups

LEMMA CleanupType ==
    ASSUME TypeOK, NEW c \in Contexts, NEW kind \in Cleanups,
           NEW pc \in Pcs, NEW failing \in Steps \cup {None}
    PROVE  IsOperation(CleanupOf(kind, c, pc, failing), kind, c, pc)
<1>1. kind \in Kinds
  BY DEF Kinds
<1>2. Reconcile(c).material \in Material \cup {None}
  BY ReconcileType
<1>3. inval[c] = Valid => ReadThrough(cache[c]) \in Material \cup {None}
  BY DEF TypeOK, ReadThrough
<1> DEFINE known == IF failing # "read" THEN Reconcile(c).material
                    ELSE IF inval[c] = Valid THEN ReadThrough(cache[c]) ELSE None
<1>4. known \in Material \cup {None}
  BY <1>2, <1>3
<1>5. CleanupOf(kind, c, pc, failing) =
        [Operation(kind, c, pc) EXCEPT !.known = known,
            !.had = (failing = "read" \/ stored # None), !.failed = (failing = "read")]
  BY DEF CleanupOf
<1> HIDE DEF known
<1>6. LET o == CleanupOf(kind, c, pc, failing)
      IN  o \in Operations /\ o.kind = kind /\ o.ctx = c /\ o.pc = pc
  BY <1>1, <1>4, <1>5 DEF Operation, Operations
<1> QED
  BY <1>6 DEF IsOperation

LEMMA DeletionType ==
    ASSUME TypeOK, NEW c \in Contexts, NEW v \in Vaults, op' = DeletionOf(c, v)
    PROVE  WellFormed(op') /\ IsOperation(op', "delete", c, "advance epoch")
<1>1. "delete" \in Cleanups /\ "advance epoch" \in Pcs /\ None \in Steps \cup {None}
  BY DEF Cleanups, Pcs
<1>2. IsOperation(CleanupOf("delete", c, "advance epoch", None), "delete", c, "advance epoch")
  BY <1>1, CleanupType
<1> DEFINE o == CleanupOf("delete", c, "advance epoch", None)
<1>3. DeletionOf(c, v) = [o EXCEPT !.vault = v]
  BY DEF DeletionOf
<1> HIDE DEF o
<1>4. LET n == DeletionOf(c, v)
      IN  n \in Operations /\ n.kind = "delete" /\ n.ctx = c /\ n.pc = "advance epoch"
  BY <1>2, <1>3 DEF Operations, IsOperation, o
<1> QED
  BY <1>1, <1>4 DEF WellFormed, IsOperation, CallsOf

LEMMA AlarmCleanupType ==
    ASSUME TypeOK, NEW i \in Ids, task # None, NEW failing \in Steps \cup {None},
           op' = AlarmCleanup(i, failing)
    PROVE  /\ WellFormed(op') /\ IsOperation(op', "alarm", Background, "read tasks")
           /\ op'.action = i /\ op'.vault = task.vault
<1>1. "alarm" \in Cleanups /\ "read tasks" \in Pcs /\ Background \in Contexts
  BY DEF Cleanups, Pcs, Contexts
<1>2. task.vault \in Vaults
  BY DEF TypeOK, LockTask
<1> DEFINE o == CleanupOf("alarm", Background, "read tasks", failing)
<1>3. IsOperation(o, "alarm", Background, "read tasks")
  BY <1>1, CleanupType
<1>4. AlarmCleanup(i, failing) = [o EXCEPT !.action = i, !.vault = task.vault,
                                     !.taskFailed = (failing = "task")]
  BY DEF AlarmCleanup
<1> HIDE DEF o
<1>5. LET n == AlarmCleanup(i, failing)
      IN  /\ n \in Operations /\ n.kind = "alarm" /\ n.ctx = Background
          /\ n.pc = "read tasks" /\ n.action = i /\ n.vault = task.vault
  BY <1>2, <1>3, <1>4 DEF Operations, IsOperation
<1> QED
  BY <1>1, <1>5 DEF WellFormed, IsOperation, CallsOf

LEMMA LockType ==
    ASSUME TypeOK, NEW c \in Contexts, NEW failing \in Steps \cup {None},
           op' = CleanupOf("lock", c, "advance epoch", failing)
    PROVE  WellFormed(op') /\ IsOperation(op', "lock", c, "advance epoch")
<1>1. "lock" \in Cleanups /\ "advance epoch" \in Pcs
  BY DEF Cleanups, Pcs
<1>2. IsOperation(op', "lock", c, "advance epoch")
  BY <1>1, CleanupType
<1> QED
  BY <1>1, <1>2 DEF WellFormed, IsOperation, CallsOf

(***************************************************************************)
(* The next call of an operation, and its end.                             *)
(***************************************************************************)
Continues(pc) ==
    /\ op' \in Operations
    /\ op'.pc = pc
    /\ op'.kind = op.kind /\ op'.ctx = op.ctx /\ op'.target = op.target
    /\ op'.base = op.base

LEMMA GotoType ==
    ASSUME op \in Operations, NEW pc \in Pcs, Goto(pc)
    PROVE  /\ Continues(pc) /\ op'.action = op.action /\ op'.failed = op.failed
           /\ handler' = handler
BY DEF Goto, Continues, Operations

LEMMA ProceedType ==
    ASSUME op \in Operations, NEW pc \in Pcs, NEW f \in BOOLEAN, Proceed(pc, f)
    PROVE  /\ Continues(pc) /\ op'.action = op.action /\ op'.failed = f
           /\ handler' = handler
BY DEF Proceed, Continues, Operations

LEMMA LookedType ==
    ASSUME op \in Operations, task \in LockTask \cup {None}, NEW failing, Looked(failing)
    PROVE  /\ Continues(AfterTasks)
           /\ op'.failed = op.failed /\ op'.action \in Ids \cup {None}
           /\ op.kind = "alarm" => op'.action = op.action
<1> DEFINE pc == AfterTasks
           a == IF op.kind = "alarm" THEN op.action
                ELSE IF failing = "task" \/ task = None THEN None ELSE task.id
           f == op.taskFailed \/ failing # None
<1>1. pc \in Pcs /\ a \in Ids \cup {None} /\ f \in BOOLEAN
  BY DEF Pcs, LockTask, Operations, AfterTasks
<1>2. op' = [op EXCEPT !.pc = pc, !.action = a, !.taskFailed = f]
  BY DEF Looked
<1>3. op.kind = "alarm" => a = op.action
  OBVIOUS
<1> HIDE DEF pc, a, f
<1>4. Continues(pc) /\ op'.failed = op.failed /\ op'.action = a
  BY <1>1, <1>2 DEF Operations, Continues
<1> QED
  BY <1>1, <1>3, <1>4 DEF pc

LEMMA GoesOnType ==
    ASSUME op \in Operations, NEW pc \in Pcs, NEW failing, GoesOn(pc, failing)
    PROVE  /\ Continues(pc) /\ op'.action = op.action /\ op'.failed = op.failed
           /\ handler' = handler
<1> DEFINE f == op.taskFailed \/ failing # None
<1>1. f \in BOOLEAN
  BY DEF Operations
<1>2. op' = [op EXCEPT !.pc = pc, !.taskFailed = f] /\ handler' = handler
  BY DEF GoesOn
<1> HIDE DEF f
<1> QED
  BY <1>1, <1>2 DEF Operations, Continues

LEMMA MaterialRemovedType ==
    ASSUME op \in Operations, NEW failing, MaterialRemoved(failing)
    PROVE  Continues("remove payload") /\ op'.action = op.action
<1> DEFINE r == failing = None
           f == op.failed \/ failing # None
<1>1. r \in BOOLEAN /\ f \in BOOLEAN /\ "remove payload" \in Pcs
  BY DEF Pcs, Operations
<1>2. op' = [op EXCEPT !.pc = "remove payload", !.removed = r, !.failed = f]
  BY DEF MaterialRemoved
<1> HIDE DEF r, f
<1> QED
  BY <1>1, <1>2 DEF Operations, Continues

LEMMA FinishType ==
    ASSUME handler \in [Ids -> Handlers], op.kind = "alarm" => op.action \in Ids,
           NEW failed, Finish(failed)
    PROVE  op' = None /\ handler' \in [Ids -> Handlers]
BY HandlerType DEF Finish

LEMMA ContinuesWell ==
    ASSUME WellFormed(op), NEW pc \in CallsOf(op.kind), Continues(pc), op'.action = op.action
    PROVE  WellFormed(op')
BY DEF WellFormed, Continues

LEMMA CallsArePcs ==
    ASSUME NEW kind \in Kinds
    PROVE  CallsOf(kind) \subseteq Pcs
BY DEF CallsOf, Pcs, Kinds, Cleanups

LEMMA GotoWell ==
    ASSUME WellFormed(op), NEW pc \in CallsOf(op.kind), Goto(pc)
    PROVE  WellFormed(op') /\ op'.kind = op.kind /\ handler' = handler
<1>1. op \in Operations /\ pc \in Pcs
  BY CallsArePcs DEF WellFormed, Operations
<1>2. Continues(pc) /\ op'.action = op.action /\ handler' = handler
  BY <1>1, GotoType
<1> QED
  BY <1>2, ContinuesWell DEF Continues

LEMMA ProceedWell ==
    ASSUME WellFormed(op), NEW pc \in CallsOf(op.kind), NEW f \in BOOLEAN, Proceed(pc, f)
    PROVE  WellFormed(op') /\ op'.kind = op.kind /\ handler' = handler
<1>1. op \in Operations /\ pc \in Pcs
  BY CallsArePcs DEF WellFormed, Operations
<1>2. Continues(pc) /\ op'.action = op.action /\ handler' = handler
  BY <1>1, ProceedType
<1> QED
  BY <1>2, ContinuesWell DEF Continues

LEMMA GoesOnWell ==
    ASSUME WellFormed(op), NEW pc \in CallsOf(op.kind), NEW failing, GoesOn(pc, failing)
    PROVE  WellFormed(op') /\ op'.kind = op.kind /\ handler' = handler
<1>1. op \in Operations /\ pc \in Pcs
  BY CallsArePcs DEF WellFormed, Operations
<1>2. Continues(pc) /\ op'.action = op.action /\ handler' = handler
  BY <1>1, GoesOnType
<1> QED
  BY <1>2, ContinuesWell DEF Continues

LEMMA FinishWell ==
    ASSUME TypeInv, op # None, NEW failed, Finish(failed)
    PROVE  op' = None /\ handler' \in [Ids -> Handlers]
BY FinishType DEF TypeInv, TypeOK, WellFormed

LEMMA CountType ==
    ASSUME faults \in Nat, NEW failing, Count(failing)
    PROVE  faults' \in Nat
BY DEF Count

(***************************************************************************)
(* The kind of operation that makes a call.                                *)
(***************************************************************************)
LEMMA KindOfCall ==
    ASSUME TypeInv, op # None
    PROVE  /\ WellFormed(op) /\ op \in Operations /\ op.ctx \in Contexts
           /\ op.kind \in Kinds /\ op.failed \in BOOLEAN
           /\ op.known \in Material \cup {None}
           /\ op.pc \in {"save vault", "save task", "arm alarm"} => op.kind = "activate"
           /\ op.pc \in {"save payload", "save material"} => op.kind \in {"activate", "commit"}
           /\ op.pc = "save snapshot" => op.kind = "persist"
           /\ op.pc = "restore snapshot" => op.kind = "rollback"
           /\ op.pc = "read tasks" => op.kind \in Cleanups \cup {"discard"}
           /\ op.pc = "remove vault" => op.kind \in Cleanups
           /\ op.pc = "discard vault" => op.kind \in {"activate", "discard"}
           /\ op.pc \in {"remove material", "remove payload"}
                  => op.kind \in Cleanups \cup {"revoke", "activate", "discard"}
           /\ op.pc \in {"remove task", "cancel alarm"}
                  => op.kind \in Cleanups \cup {"activate", "discard"}
<1>1. WellFormed(op) /\ op \in Operations
  BY DEF TypeInv, WellFormed
<1>2. /\ op.ctx \in Contexts /\ op.kind \in Kinds /\ op.failed \in BOOLEAN
      /\ op.known \in Material \cup {None}
  BY <1>1 DEF Operations
<1> QED
  BY <1>1, <1>2 DEF WellFormed, CallsOf, Kinds, Cleanups

LEMMA SaveContinues ==
    ASSUME TypeInv, op # None, op.kind \in {"activate", "commit"}, op.pc \in {"save payload", "save material"},
           Goto("save material") \/ AfterFailedSave
    PROVE  WellFormed(op') /\ op'.kind # "persist" /\ handler' = handler
<1>1. CASE \E pc \in CallsOf(op.kind) : Goto(pc)
  BY <1>1, KindOfCall, GotoWell
<1>2. CASE op' = Revocation(op.ctx, op.known) /\ handler' = handler
  BY <1>2, KindOfCall, RevocationType DEF IsOperation
<1>3. \/ \E pc \in CallsOf(op.kind) : Goto(pc)
      \/ op' = Revocation(op.ctx, op.known) /\ handler' = handler
  BY DEF AfterFailedSave, CallsOf
<1> QED
  BY <1>1, <1>2, <1>3

(***************************************************************************)
(* Every storage call keeps the types.                                     *)
(***************************************************************************)
LEMMA CallType ==
    ASSUME TypeInv, Call
    PROVE  TypeInv'
<1> USE DEF At
<1>1. CASE AdvanceEpoch
  <2>1. op # None /\ op.pc = "advance epoch"
    BY <1>1 DEF AdvanceEpoch
  <2>2. PICK failing : Count(failing) /\ epoch' = IF failing = None THEN epoch + 1 ELSE epoch
    BY <1>1 DEF AdvanceEpoch
  <2>3. faults' \in Nat /\ epoch' \in Nat
    BY <2>2, CountType DEF TypeInv, TypeOK
  <2>4. /\ handler' \in [Ids -> Handlers]
        /\ op' # None => WellFormed(op') /\ (op'.kind = "persist" => op.kind = "persist")
    <3>1. \/ \E f : Finish(f)
          \/ op' = Revocation(op.ctx, op.known) /\ handler' = handler
          \/ \E pc \in CallsOf(op.kind) : Goto(pc)
          \/ \E pc \in CallsOf(op.kind), f \in BOOLEAN : Proceed(pc, f)
      BY <1>1, <2>1, KindOfCall DEF AdvanceEpoch, CallsOf, Cleanups
    <3>2. handler \in [Ids -> Handlers]
      BY DEF TypeInv, TypeOK
    <3>3. CASE \E f : Finish(f)
      BY <2>1, <3>3, FinishWell
    <3>4. CASE op' = Revocation(op.ctx, op.known) /\ handler' = handler
      BY <2>1, <3>2, <3>4, KindOfCall, RevocationType DEF IsOperation
    <3>5. CASE \E pc \in CallsOf(op.kind) : Goto(pc)
      BY <2>1, <3>2, <3>5, KindOfCall, GotoWell
    <3>6. CASE \E pc \in CallsOf(op.kind), f \in BOOLEAN : Proceed(pc, f)
      BY <2>1, <3>2, <3>6, KindOfCall, ProceedWell
    <3> QED
      BY <3>1, <3>3, <3>4, <3>5, <3>6
  <2>5. captured' \subseteq Contexts /\ outdated' \subseteq Contexts
    BY <1>1 DEF AdvanceEpoch, Holders, TypeInv, TypeOK
  <2> QED
    BY <1>1, <2>1, <2>3, <2>4, <2>5 DEF AdvanceEpoch, TypeInv, TypeOK, WellFormed
<1>2. CASE SaveTask
  <2>1. op # None /\ op.pc = "save task"
    BY <1>2 DEF SaveTask
  <2>2. op.kind = "activate" /\ op.target.vault \in Vaults /\ op.action \in Ids
    BY <2>1, KindOfCall DEF WellFormed, Material
  <2>3. PICK failing : /\ Count(failing)
                       /\ task' = IF failing = None
                                  THEN [id |-> op.action, vault |-> op.target.vault] ELSE task
                       /\ Goto(IF failing = None THEN "arm alarm" ELSE AfterFailedInstall)
    BY <1>2 DEF SaveTask
  <2>4. faults' \in Nat /\ task' \in LockTask \cup {None}
    BY <2>2, <2>3, CountType DEF TypeInv, TypeOK, LockTask
  <2>5. \E pc \in CallsOf(op.kind) : Goto(pc)
    BY <2>2, <2>3 DEF CallsOf, AfterFailedInstall
  <2>6. WellFormed(op') /\ op'.kind = op.kind /\ handler' = handler
    BY <2>1, <2>5, KindOfCall, GotoWell
  <2> QED
    BY <1>2, <2>1, <2>2, <2>4, <2>6 DEF SaveTask, TypeInv, TypeOK, WellFormed, local
<1>3. CASE ArmAlarm
  <2>1. op # None /\ op.pc = "arm alarm"
    BY <1>3 DEF ArmAlarm
  <2>2. op.kind = "activate" /\ op.action \in Ids
    BY <2>1, KindOfCall DEF WellFormed
  <2>3. PICK failing : /\ Count(failing)
                       /\ alarms' = IF failing = None THEN alarms \cup {op.action} ELSE alarms
                       /\ Goto(IF failing = None THEN FirstSave ELSE AfterFailedInstall)
    BY <1>3 DEF ArmAlarm
  <2>4. faults' \in Nat /\ alarms' \subseteq Ids
    BY <2>2, <2>3, CountType DEF TypeInv, TypeOK
  <2>5. \E pc \in CallsOf(op.kind) : Goto(pc)
    BY <2>2, <2>3 DEF CallsOf, AfterFailedInstall, FirstSave
  <2>6. WellFormed(op') /\ op'.kind = op.kind /\ handler' = handler
    BY <2>1, <2>5, KindOfCall, GotoWell
  <2> QED
    BY <1>3, <2>1, <2>2, <2>4, <2>6 DEF ArmAlarm, TypeInv, TypeOK, WellFormed, local
<1>4. CASE SavePayload
  <2>1. op # None /\ op.pc = "save payload"
    BY <1>4 DEF SavePayload
  <2>2. op.kind \in {"activate", "commit"} /\ op.target \in Material
    BY <2>1, KindOfCall DEF WellFormed
  <2>3. PICK failing : /\ Count(failing)
                       /\ payload' = IF failing = None THEN op.target ELSE payload
                       /\ IF failing = None THEN Goto("save material") ELSE AfterFailedSave
    BY <1>4 DEF SavePayload
  <2>4. faults' \in Nat /\ payload' \in Material \cup {None}
    BY <2>2, <2>3, CountType DEF TypeInv, TypeOK
  <2>5. WellFormed(op') /\ op'.kind # "persist" /\ handler' = handler
    BY <2>1, <2>2, <2>3, SaveContinues
  <2> QED
    BY <1>4, <2>1, <2>4, <2>5 DEF SavePayload, TypeInv, TypeOK, WellFormed, local
<1>5. CASE SaveMaterial
  <2>1. op # None /\ op.pc = "save material"
    BY <1>5 DEF SaveMaterial
  <2>2. op.kind \in {"activate", "commit"} /\ op.target \in Material
    BY <2>1, KindOfCall DEF WellFormed
  <2>3. faults' \in Nat
    BY <1>5, CountType DEF SaveMaterial, TypeInv, TypeOK
  <2>4. handler' \in [Ids -> Handlers] /\ (op' # None => WellFormed(op') /\ op'.kind # "persist")
    <3>1. \/ op.kind = "commit" /\ Goto("advance epoch")
          \/ \E f : Finish(f)
          \/ AfterFailedSave
      BY <1>5 DEF SaveMaterial
    <3>2. CASE op.kind = "commit" /\ Goto("advance epoch")
      BY <2>1, <3>2, KindOfCall, GotoWell DEF CallsOf, TypeInv, TypeOK
    <3>3. CASE \E f : Finish(f)
      BY <2>1, <3>3, FinishWell
    <3>4. CASE AfterFailedSave
      BY <2>1, <2>2, <3>4, SaveContinues DEF TypeInv, TypeOK
    <3> QED
      BY <3>1, <3>2, <3>3, <3>4
  <2>5. /\ stored' \in Material \cup {None}
        /\ cache' \in [Contexts -> Material \cup {None, Unread}]
        /\ outdated' \subseteq Contexts
    BY <1>5, <2>2 DEF SaveMaterial, Holders, TypeInv, TypeOK, local
  <2>6. inval' \in [Contexts -> Invalidations] /\ opened' \in 0 .. MaxId
    <3>1. Valid \in Invalidations /\ op.target.sid \in 0 .. MaxId
      BY <2>2, ConstantsAssumption DEF Invalidations, Material, Ids
    <3> QED
      BY <1>5, <3>1 DEF SaveMaterial, TypeInv, TypeOK, local
  <2>7. captured' \subseteq Contexts
    <3>1. \/ captured' = captured
          \/ captured' = captured \cup {op.ctx}
          \/ captured' = captured \ {op.ctx}
      BY <1>5 DEF SaveMaterial, Activated, local
    <3> QED
      BY <2>1, <3>1, KindOfCall DEF TypeInv, TypeOK
  <2>8. client' \in [Contexts -> Clients]
    <3>1. [pc |-> "enrolled", session |-> op.target] \in Clients
      BY <2>2 DEF Clients
    <3> QED
      BY <1>5, <3>1 DEF SaveMaterial, Activated, TypeInv, TypeOK
  <2> QED
    BY <1>5, <2>1, <2>3, <2>4, <2>5, <2>6, <2>7, <2>8 DEF SaveMaterial, TypeInv, TypeOK, WellFormed
<1>6. CASE SaveSnapshot
  <2>1. op # None /\ op.pc = "save snapshot"
    BY <1>6 DEF SaveSnapshot
  <2>2. op.kind = "persist" /\ op.target \in Material /\ op.ctx \in Contexts
    BY <2>1, KindOfCall DEF WellFormed
  <2>3. nextVersion + 1 \in Versions
    <3>1. nextVersion \in Versions /\ nextVersion < MaxVersion
      BY <2>1, <2>2 DEF TypeInv, TypeOK
    <3>2. MaxVersion \in Nat
      BY ConstantsAssumption
    <3> QED
      BY <3>1, <3>2 DEF Versions
  <2>4. faults' \in Nat
    BY <1>6, CountType DEF SaveSnapshot, TypeInv, TypeOK
  <2>5. op' = None /\ handler' \in [Ids -> Handlers]
    BY <1>6, <2>1, FinishWell DEF SaveSnapshot
  <2>6. [pc |-> "persisted", session |-> op.target, ver |-> nextVersion + 1] \in Clients
    BY <2>2, <2>3 DEF Clients
  <2>7. /\ snapshot' \in [Vaults -> Versions \cup {None}]
        /\ client' \in [Contexts -> Clients]
        /\ nextVersion' \in Versions
        /\ outdated' \subseteq Contexts
    BY <1>6, <2>3, <2>6 DEF SaveSnapshot, Holders, TypeInv, TypeOK
  <2> QED
    BY <1>6, <2>4, <2>5, <2>7 DEF SaveSnapshot, TypeInv, TypeOK, local
<1>7. CASE RestoreSnapshot
  <2>1. op # None /\ op.pc = "restore snapshot"
    BY <1>7 DEF RestoreSnapshot
  <2>2. op.kind = "rollback" /\ op.base \in Versions
    BY <2>1, KindOfCall DEF WellFormed
  <2>3. faults' \in Nat
    BY <1>7, CountType DEF RestoreSnapshot, TypeInv, TypeOK
  <2>4. snapshot' \in [Vaults -> Versions \cup {None}]
    BY <1>7, <2>2 DEF RestoreSnapshot, TypeInv, TypeOK
  <2>5. handler' \in [Ids -> Handlers] /\ (op' # None => WellFormed(op') /\ op'.kind # "persist")
    <3>1. \/ \E f : Finish(f)
          \/ op' = None /\ handler' = handler
          \/ op' = Revocation(op.ctx, op.known) /\ handler' = handler
      BY <1>7 DEF RestoreSnapshot
    <3>2. CASE op' = Revocation(op.ctx, op.known) /\ handler' = handler
      BY <2>1, <3>2, KindOfCall, RevocationType DEF TypeInv, TypeOK, IsOperation
    <3> QED
      BY <2>1, <3>1, <3>2, FinishWell DEF TypeInv, TypeOK
  <2> QED
    BY <1>7, <2>3, <2>4, <2>5 DEF RestoreSnapshot, TypeInv, TypeOK, WellFormed, local
<1>8. CASE ReadTasks
  <2>1. op # None /\ op.pc = "read tasks"
    BY <1>8 DEF ReadTasks
  <2>2. op.kind \in Cleanups \cup {"discard"} /\ op \in Operations /\ WellFormed(op)
    BY <2>1, KindOfCall
  <2>3. faults' \in Nat
    BY <1>8, CountType DEF ReadTasks, TypeInv, TypeOK
  <2>4. handler' \in [Ids -> Handlers] /\ (op' # None => WellFormed(op') /\ op'.kind # "persist")
    <3>1. \/ \E f : Finish(f)
          \/ \E f : Looked(f) /\ handler' = handler
      BY <1>8 DEF ReadTasks
    <3>2. CASE \E f : Finish(f)
      BY <2>1, <3>2, FinishWell
    <3>3. CASE \E f : Looked(f) /\ handler' = handler
      <4>1. task \in LockTask \cup {None} /\ handler \in [Ids -> Handlers]
        BY DEF TypeInv, TypeOK
      <4>2. /\ Continues(AfterTasks)
            /\ op.kind = "alarm" => op'.action = op.action
        BY <2>2, <3>3, <4>1, LookedType
      <4> QED
        BY <2>2, <3>3, <4>1, <4>2 DEF Continues, WellFormed, CallsOf, Cleanups, AfterTasks
    <3> QED
      BY <3>1, <3>2, <3>3
  <2> QED
    BY <1>8, <2>3, <2>4 DEF ReadTasks, TypeInv, TypeOK, WellFormed, shared, local
<1>9. CASE RemoveMaterial
  <2>1. op # None /\ op.pc = "remove material"
    BY <1>9 DEF RemoveMaterial
  <2>2. /\ op.kind \in Cleanups \cup {"revoke", "activate", "discard"}
        /\ op \in Operations /\ WellFormed(op) /\ op.ctx \in Contexts
        /\ op.known \in Material \cup {None}
    BY <2>1, KindOfCall
  <2>3. faults' \in Nat
    BY <1>9, CountType DEF RemoveMaterial, TypeInv, TypeOK
  <2>4. WellFormed(op') /\ op'.kind # "persist"
    <3>1. Continues("remove payload") /\ op'.action = op.action
      BY <1>9, <2>2, MaterialRemovedType DEF RemoveMaterial
    <3>2. "remove payload" \in CallsOf(op.kind)
      BY <2>2 DEF CallsOf, Cleanups
    <3> QED
      BY <2>2, <3>1, <3>2, ContinuesWell DEF Continues, Cleanups
  <2>5. inval' \in [Contexts -> Invalidations]
    <3>1. Removing # None => Removing.sid \in Ids
      BY <2>2 DEF Removing, ReadThrough, TypeInv, TypeOK, Material
    <3>2. PICK failing :
            inval' = [inval EXCEPT ![op.ctx] =
                         IF Removing # None THEN Known(Removing.sid)
                         ELSE Unknown(failing = None)]
      BY <1>9 DEF RemoveMaterial
    <3>3. Unknown(failing = None) \in Invalidations
      BY Zenon DEF Invalidations
    <3>4. Removing # None => Known(Removing.sid) \in Invalidations
      BY <3>1 DEF Invalidations
    <3>5. inval \in [Contexts -> Invalidations]
      BY DEF TypeInv, TypeOK
    <3> QED
      BY <3>2, <3>3, <3>4, <3>5, Zenon
  <2>6. /\ stored' \in Material \cup {None}
        /\ cache' \in [Contexts -> Material \cup {None, Unread}]
        /\ captured' \subseteq Contexts /\ outdated' \subseteq Contexts
    BY <1>9 DEF RemoveMaterial, Holders, TypeInv, TypeOK
  <2> QED
    BY <1>9, <2>3, <2>4, <2>5, <2>6 DEF RemoveMaterial, TypeInv, TypeOK, WellFormed
<1>10. CASE RemovePayload
  <2>1. op # None /\ op.pc = "remove payload"
    BY <1>10 DEF RemovePayload
  <2>2. op.kind \in Cleanups \cup {"revoke", "activate", "discard"} /\ WellFormed(op) /\ op.failed \in BOOLEAN
    BY <2>1, KindOfCall
  <2>3. faults' \in Nat
    BY <1>10, CountType DEF RemovePayload, TypeInv, TypeOK
  <2>4. handler' \in [Ids -> Handlers] /\ (op' # None => WellFormed(op') /\ op'.kind # "persist")
    <3>1. \/ \E f : Finish(f)
          \/ \E pc \in CallsOf(op.kind) : Goto(pc)
          \/ \E pc \in CallsOf(op.kind), f \in BOOLEAN : Proceed(pc, f)
      BY <1>10, <2>2 DEF RemovePayload, CallsOf, Cleanups
    <3>2. handler \in [Ids -> Handlers] /\ op.kind # "persist"
      BY <2>2 DEF TypeInv, TypeOK, Cleanups
    <3>3. CASE \E f : Finish(f)
      BY <2>1, <3>3, FinishWell
    <3>4. CASE \E pc \in CallsOf(op.kind) : Goto(pc)
      BY <2>2, <3>2, <3>4, GotoWell
    <3>5. CASE \E pc \in CallsOf(op.kind), f \in BOOLEAN : Proceed(pc, f)
      BY <2>2, <3>2, <3>5, ProceedWell
    <3> QED
      BY <3>1, <3>3, <3>4, <3>5
  <2> QED
    BY <1>10, <2>3, <2>4 DEF RemovePayload, TypeInv, TypeOK, WellFormed, local
<1>11. CASE RemoveVault
  <2>1. op # None /\ op.pc = "remove vault"
    BY <1>11 DEF RemoveVault
  <2>2. op.kind \in Cleanups /\ WellFormed(op) /\ op.failed \in BOOLEAN
    BY <2>1, KindOfCall
  <2>3. faults' \in Nat
    BY <1>11, CountType DEF RemoveVault, TypeInv, TypeOK
  <2>4. WellFormed(op') /\ op'.kind # "persist" /\ handler' = handler
    <3>1. \E f \in BOOLEAN : Proceed("remove task", f)
      BY <1>11, <2>2 DEF RemoveVault
    <3>2. "remove task" \in CallsOf(op.kind) /\ op.kind # "persist"
      BY <2>2 DEF CallsOf, Cleanups
    <3> QED
      BY <2>2, <3>1, <3>2, ProceedWell
  <2> QED
    BY <1>11, <2>3, <2>4 DEF RemoveVault, TypeInv, TypeOK, WellFormed, local
<1>12. CASE RemoveTask
  <2>1. op # None /\ op.pc = "remove task"
    BY <1>12 DEF RemoveTask
  <2>2. op.kind \in Cleanups \cup {"activate", "discard"} /\ WellFormed(op)
    BY <2>1, KindOfCall
  <2>3. faults' \in Nat
    BY <1>12, CountType DEF RemoveTask, TypeInv, TypeOK
  <2>4. handler' \in [Ids -> Handlers] /\ (op' # None => WellFormed(op') /\ op'.kind # "persist")
    <3>1. \/ \E f : Finish(f)
          \/ \E pc \in CallsOf(op.kind) : Goto(pc)
          \/ \E pc \in CallsOf(op.kind) : \E f : GoesOn(pc, f)
      BY <1>12, <2>2 DEF RemoveTask, CallsOf, Cleanups
    <3>2. handler \in [Ids -> Handlers] /\ op.kind # "persist"
      BY <2>2 DEF TypeInv, TypeOK, Cleanups
    <3>3. CASE \E f : Finish(f)
      BY <2>1, <3>3, FinishWell
    <3>4. CASE \E pc \in CallsOf(op.kind) : Goto(pc)
      BY <2>2, <3>2, <3>4, GotoWell
    <3>5. CASE \E pc \in CallsOf(op.kind) : \E f : GoesOn(pc, f)
      BY <2>2, <3>2, <3>5, GoesOnWell
    <3> QED
      BY <3>1, <3>3, <3>4, <3>5
  <2> QED
    BY <1>12, <2>3, <2>4 DEF RemoveTask, TypeInv, TypeOK, WellFormed, local
<1>13. CASE CancelAlarm
  <2>1. op # None /\ op.pc = "cancel alarm"
    BY <1>13 DEF CancelAlarm
  <2>2. op.kind \in Cleanups \cup {"activate", "discard"} /\ WellFormed(op)
    BY <2>1, KindOfCall
  <2>3. faults' \in Nat
    BY <1>13, CountType DEF CancelAlarm, TypeInv, TypeOK
  <2>4. handler' \in [Ids -> Handlers] /\ (op' # None => WellFormed(op') /\ op'.kind # "persist")
    <3>1. \/ \E f : Finish(f)
          \/ \E pc \in CallsOf(op.kind) : Goto(pc)
          \/ \E pc \in CallsOf(op.kind) : \E f : GoesOn(pc, f)
      BY <1>13, <2>2 DEF CancelAlarm, CallsOf, Cleanups
    <3>2. handler \in [Ids -> Handlers] /\ op.kind # "persist"
      BY <2>2 DEF TypeInv, TypeOK, Cleanups
    <3>3. CASE \E f : Finish(f)
      BY <2>1, <3>3, FinishWell
    <3>4. CASE \E pc \in CallsOf(op.kind) : Goto(pc)
      BY <2>2, <3>2, <3>4, GotoWell
    <3>5. CASE \E pc \in CallsOf(op.kind) : \E f : GoesOn(pc, f)
      BY <2>2, <3>2, <3>5, GoesOnWell
    <3> QED
      BY <3>1, <3>3, <3>4, <3>5
  <2> QED
    BY <1>13, <2>3, <2>4 DEF CancelAlarm, TypeInv, TypeOK, WellFormed, local
<1>14. CASE SaveVault
  <2>1. op # None /\ op.pc = "save vault"
    BY <1>14 DEF SaveVault
  <2>2. op.kind = "activate" /\ op.target \in Material /\ op.target.ver \in Versions
    BY <2>1, KindOfCall DEF WellFormed, Material
  <2>3. faults' \in Nat /\ snapshot' \in [Vaults -> Versions \cup {None}]
    BY <1>14, <2>2, CountType DEF SaveVault, Goto, TypeInv, TypeOK
  <2>4. handler' = handler /\ (op' # None => WellFormed(op') /\ op'.kind # "persist")
    <3>1. \/ Goto("save task")
          \/ op' = None /\ handler' = handler
          \/ /\ op' = Removal(op.ctx, op.known)
             /\ handler' = handler
      BY <1>14 DEF SaveVault
    <3>2. CASE Goto("save task")
      <4>1. "save task" \in CallsOf(op.kind)
        BY <2>2 DEF CallsOf
      <4> QED
        BY <2>1, <2>2, <3>2, <4>1, KindOfCall, GotoWell
    <3>3. CASE /\ op' = Removal(op.ctx, op.known)
               /\ handler' = handler
      BY <2>1, <3>3, KindOfCall, RemovalType DEF IsOperation
    <3> QED
      BY <3>1, <3>2, <3>3
  <2> QED
    BY <1>14, <2>3, <2>4 DEF SaveVault, TypeInv, TypeOK, WellFormed, local
<1>15. CASE DiscardVault
  <2>1. op' = None /\ handler' \in [Ids -> Handlers]
    BY <1>15, FinishWell DEF DiscardVault
  <2>2. faults' \in Nat /\ snapshot' \in [Vaults -> Versions \cup {None}]
    BY <1>15, CountType DEF DiscardVault, TypeInv, TypeOK
  <2> QED
    BY <1>15, <2>1, <2>2 DEF DiscardVault, TypeInv, TypeOK, local
<1> QED
  BY <1>1, <1>2, <1>3, <1>4, <1>5, <1>6, <1>7, <1>8, <1>9, <1>10, <1>11, <1>12, <1>13,
     <1>14, <1>15
  DEF Call

LEMMA ReconciledType ==
    ASSUME TypeOK, NEW c \in Contexts
    PROVE  /\ Reconciled(c) => /\ cache' \in [Contexts -> Material \cup {None, Unread}]
                               /\ inval' \in [Contexts -> Invalidations]
           /\ Dropped(c) \subseteq Contexts
BY ReconcileType DEF Reconciled, TypeOK

(***************************************************************************)
(* Every other step keeps the types: first the ones of a page.             *)
(***************************************************************************)
LEMMA PageStepType ==
    ASSUME TypeInv, NEW c \in Pages, Unlock(c) \/ Arrive(c) \/ Mutate(c) \/ Close(c)
    PROVE  TypeInv'
<1> c \in Contexts
  BY DEF Contexts
<1> TypeOK
  BY DEF TypeInv
<1>1. ASSUME NEW v \in Vaults, Authorize(c, v)
      PROVE  TypeInv'
  <2>1. [pc |-> "authorized", vault |-> v, epoch |-> epoch] \in Clients
    BY DEF TypeOK, Clients
  <2> QED
    BY <1>1, <2>1, ReconciledType DEF Authorize, TypeInv, TypeOK, WellFormed, shared
<1>2. CASE LoadVault(c)
  <2>1. Loaded(c) \in Clients
    BY <1>2 DEF LoadVault, Loaded, TypeOK, Clients, Idle
  <2> QED
    BY <1>2, <2>1 DEF LoadVault, TypeInv, TypeOK, WellFormed, shared, local
<1>3. CASE BeginActivation(c)
  <2>1. WellFormed(op') /\ op'.kind = "activate"
    BY <1>3, ActivationType DEF BeginActivation, IsOperation
  <2>2. nextId' \in 0 .. MaxId
    BY <1>3, ConstantsAssumption DEF BeginActivation, TypeOK
  <2>3. Idle \in Clients
    BY DEF Clients
  <2> QED
    BY <1>3, <2>1, <2>2, <2>3, ReconciledType
    DEF BeginActivation, TypeInv, TypeOK, WellFormed, shared
<1>4. CASE RejectActivation(c)
  <2>1. Idle \in Clients
    BY DEF Clients
  <2> QED
    BY <1>4, <2>1, ReconciledType DEF RejectActivation, TypeInv, TypeOK, shared, local
<1>5. CASE Abandon(c)
  <2>1. Idle \in Clients
    BY DEF Clients
  <2> QED
    BY <1>5, <2>1 DEF Abandon, TypeInv, TypeOK, WellFormed, shared, local
<1>6. CASE BeginPersist(c)
  <2>1. op' # None => WellFormed(op')
    BY <1>6, PersistenceType DEF BeginPersist
  <2>2. Idle \in Clients
    BY DEF Clients
  <2> QED
    BY <1>6, <2>1, <2>2, ReconciledType DEF BeginPersist, TypeInv, TypeOK, WellFormed, shared
<1>7. CASE BeginCommit(c)
  <2>1. op' # None => WellFormed(op') /\ op'.kind # "persist"
    <3>1. op' = None \/ op' = Commitment(c)
      BY <1>7 DEF BeginCommit
    <3>2. op' = Commitment(c) => WellFormed(op') /\ (IsOperation(op', "commit", c, "save payload"))
      BY <1>7, CommitmentType DEF BeginCommit
    <3> QED
      BY <3>1, <3>2 DEF IsOperation
  <2>2. Idle \in Clients
    BY DEF Clients
  <2> QED
    BY <1>7, <2>1, <2>2, ReconciledType DEF BeginCommit, TypeInv, TypeOK, WellFormed, shared
<1>8. CASE BeginRollback(c)
  <2>1. op' # None => WellFormed(op') /\ op'.kind # "persist"
    <3>1. op' = None \/ op' = Restoration(c)
      BY <1>8 DEF BeginRollback
    <3>2. op' = Restoration(c) =>
             /\ WellFormed(op')
             /\ \/ IsOperation(op', "rollback", c, "advance epoch")
                \/ IsOperation(op', "rollback", c, "restore snapshot")
      BY <1>8, RestorationType DEF BeginRollback
    <3> QED
      BY <3>1, <3>2 DEF IsOperation
  <2>2. Idle \in Clients
    BY DEF Clients
  <2> QED
    BY <1>8, <2>1, <2>2, ReconciledType DEF BeginRollback, TypeInv, TypeOK, WellFormed, shared
<1>9. CASE BeginLock(c)
  <2>1. PICK failing \in Failing({"read"}) :
             /\ Count(failing)
             /\ op' = CleanupOf("lock", c, "advance epoch", failing)
             /\ ReconciledUnless(failing, c)
    BY <1>9 DEF BeginLock
  <2>2. failing \in Steps \cup {None} /\ faults' \in Nat
    BY <2>1, CountType DEF Failing, Steps, TypeOK
  <2>3. WellFormed(op') /\ op'.kind # "persist"
    BY <2>1, <2>2, LockType DEF IsOperation
  <2>4. /\ cache' \in [Contexts -> Material \cup {None, Unread}]
        /\ inval' \in [Contexts -> Invalidations]
        /\ captured' \subseteq Contexts
    BY <2>1, ReconciledType DEF ReconciledUnless, local, TypeOK
  <2> QED
    BY <1>9, <2>2, <2>3, <2>4 DEF BeginLock, TypeInv, TypeOK, WellFormed, shared
<1>10. ASSUME NEW v \in Vaults, BeginDelete(c, v)
       PROVE  TypeInv'
  <2>1. op' # None => WellFormed(op') /\ op'.kind # "persist"
    <3>1. op' = None \/ op' = DeletionOf(c, v)
      BY <1>10 DEF BeginDelete
    <3>2. op' = DeletionOf(c, v) => WellFormed(op') /\ (IsOperation(op', "delete", c, "advance epoch"))
      BY <1>10, DeletionType DEF BeginDelete
    <3> QED
      BY <3>1, <3>2 DEF IsOperation
  <2> QED
    BY <1>10, <2>1, ReconciledType DEF BeginDelete, TypeInv, TypeOK, WellFormed, shared
<1>11. CASE Prepare(c)
  <2>1. [client[c] EXCEPT !.pc = "prepared"] \in Clients
    BY <1>11 DEF Prepare, TypeOK, Clients, Idle
  <2> QED
    BY <1>11, <2>1 DEF Prepare, TypeInv, TypeOK, WellFormed, shared, local
<1>12. CASE BeginArrival(c)
  <2>1. WellFormed(op') /\ op'.kind = "activate"
    BY <1>12, ArrivalType DEF BeginArrival, IsOperation
  <2>2. nextId' \in 0 .. MaxId /\ nextVersion' \in Versions
    BY <1>12, ConstantsAssumption DEF BeginArrival, TypeOK, Versions
  <2>3. Idle \in Clients
    BY DEF Clients
  <2> QED
    BY <1>12, <2>1, <2>2, <2>3, ReconciledType
    DEF BeginArrival, TypeInv, TypeOK, WellFormed, shared
<1>13. CASE BeginDiscard(c)
  <2>1. op' # None => WellFormed(op') /\ op'.kind # "persist"
    <3>1. op' = None \/ op' = Discarding(c)
      BY <1>13 DEF BeginDiscard
    <3>2. op' = Discarding(c)
             => WellFormed(op') /\ IsOperation(op', "discard", c, "read tasks")
      BY <1>13, DiscardingType DEF BeginDiscard
    <3> QED
      BY <3>1, <3>2 DEF IsOperation
  <2>2. Idle \in Clients /\ faults' \in Nat
    BY <1>13, CountType DEF BeginDiscard, Clients, TypeOK
  <2>3. /\ cache' \in [Contexts -> Material \cup {None, Unread}]
        /\ inval' \in [Contexts -> Invalidations]
    BY <1>13, ReconciledType DEF BeginDiscard, TypeOK
  <2> QED
    BY <1>13, <2>1, <2>2, <2>3 DEF BeginDiscard, TypeInv, TypeOK, WellFormed, shared
<1> QED
  BY <1>1, <1>2, <1>3, <1>4, <1>5, <1>6, <1>7, <1>8, <1>9, <1>10, <1>11, <1>12, <1>13
  DEF Unlock, Arrive, Mutate, Close

LEMMA AlarmStepType ==
    ASSUME TypeInv, NEW i \in Ids, Alarm(i)
    PROVE  TypeInv'
<1> TypeOK
  BY DEF TypeInv
<1> Background \in Contexts
  BY DEF Contexts
<1>1. CASE FireAlarm(i)
  <2>1. handler' \in [Ids -> Handlers]
    BY <1>1, HandlerType DEF FireAlarm, TypeOK
  <2> QED
    BY <1>1, <2>1 DEF FireAlarm, TypeInv, TypeOK, WellFormed, local
<1>2. CASE CheckOwnership(i)
  <2>1. Resting \in Handlers
    BY DEF Resting, Handlers
  <2>2. handler' \in [Ids -> Handlers]
    BY <1>2, <2>1, HandlerType DEF CheckOwnership, TypeOK
  <2>3. faults' \in Nat /\ alarms' \subseteq Ids
    BY <1>2, CountType DEF CheckOwnership, TypeOK
  <2> QED
    BY <1>2, <2>2, <2>3 DEF CheckOwnership, TypeInv, TypeOK, WellFormed, local
<1>3. CASE ArmRetry(i)
  <2>1. \A b \in BOOLEAN : [pc |-> "lock", armed |-> b] \in Handlers
    BY DEF Handlers
  <2>2. handler' \in [Ids -> Handlers]
    BY <1>3, <2>1 DEF ArmRetry, TypeOK
  <2>3. faults' \in Nat /\ alarms' \subseteq Ids
    BY <1>3, CountType DEF ArmRetry, TypeOK
  <2> QED
    BY <1>3, <2>2, <2>3 DEF ArmRetry, TypeInv, TypeOK, WellFormed, local
<1>4. CASE BeginAlarmCleanup(i)
  <2>1. PICK failing \in Failing({"task", "read"}) :
             /\ Count(failing)
             /\ IF ~OwnsLock(i)
                THEN HandlerTo(i, "cleaned") /\ UNCHANGED <<op, local>>
                ELSE /\ HandlerTo(i, "locking")
                     /\ op' = AlarmCleanup(i, failing)
                     /\ ReconciledUnless(failing, Background)
    BY <1>4 DEF BeginAlarmCleanup
  <2>2. failing \in Steps \cup {None} /\ faults' \in Nat
    BY <2>1, CountType DEF Failing, Steps, TypeOK
  <2>3. handler' \in [Ids -> Handlers]
    BY <2>1, HandlerType DEF TypeOK
  <2>4. op' # None => WellFormed(op') /\ op'.kind # "persist"
    <3>1. CASE ~OwnsLock(i)
      BY <1>4, <2>1, <3>1 DEF BeginAlarmCleanup, TypeInv
    <3>2. CASE OwnsLock(i)
      BY <2>1, <2>2, <3>2, AlarmCleanupType DEF OwnsLock, IsOperation
    <3> QED
      BY <3>1, <3>2
  <2>5. /\ cache' \in [Contexts -> Material \cup {None, Unread}]
        /\ inval' \in [Contexts -> Invalidations]
        /\ captured' \subseteq Contexts
    BY <2>1, ReconciledType DEF ReconciledUnless, local, TypeOK
  <2> QED
    BY <1>4, <2>2, <2>3, <2>4, <2>5 DEF BeginAlarmCleanup, TypeInv, TypeOK, WellFormed, shared
<1>5. CASE SettleRetry(i)
  <2>1. Resting \in Handlers
    BY DEF Resting, Handlers
  <2>2. handler' \in [Ids -> Handlers]
    BY <1>5, <2>1 DEF SettleRetry, TypeOK
  <2>3. faults' \in Nat /\ alarms' \subseteq Ids
    BY <1>5, CountType DEF SettleRetry, TypeOK
  <2> QED
    BY <1>5, <2>2, <2>3 DEF SettleRetry, TypeInv, TypeOK, WellFormed, local
<1> QED
  BY <1>1, <1>2, <1>3, <1>4, <1>5 DEF Alarm

LEMMA ContextStepType ==
    ASSUME TypeInv,
           BrowserRestart \/ \E c \in Contexts : OpenSession(c) \/ GetStatus(c) \/ Die(c)
    PROVE  TypeInv'
<1> TypeOK
  BY DEF TypeInv
<1>1. ASSUME NEW c \in Contexts, OpenSession(c)
      PROVE  TypeInv'
  <2>1. op' # None => WellFormed(op') /\ op'.kind # "persist"
    <3>1. \/ op' = None
          \/ op' = Revocation(c, None)
          \/ op' = Revocation(c, Reconcile(c).material)
      BY <1>1 DEF OpenSession
    <3>2. \A m \in Material \cup {None} :
             op' = Revocation(c, m)
                => WellFormed(op') /\ IsOperation(op', "revoke", c, "advance epoch")
      BY RevocationType
    <3> QED
      BY <3>1, <3>2, ReconcileType DEF IsOperation
  <2>2. faults' \in Nat
    BY <1>1, CountType DEF OpenSession, TypeOK
  <2>3. /\ cache' \in [Contexts -> Material \cup {None, Unread}]
        /\ inval' \in [Contexts -> Invalidations]
        /\ captured' \subseteq Contexts
    BY <1>1, ReconciledType DEF OpenSession, local, TypeOK
  <2>4. client' \in [Contexts -> Clients]
    <3>1. \/ client' = client
          \/ /\ Reconcile(c).material # None
             /\ client' = [client EXCEPT ![c] =
                              [pc |-> "mutating", session |-> Reconcile(c).material]]
      BY <1>1 DEF OpenSession
    <3>2. Reconcile(c).material # None
            => [pc |-> "mutating", session |-> Reconcile(c).material] \in Clients
      BY ReconcileType DEF Clients
    <3> QED
      BY <3>1, <3>2 DEF TypeOK
  <2> QED
    BY <1>1, <2>1, <2>2, <2>3, <2>4 DEF OpenSession, TypeInv, TypeOK, WellFormed, shared
<1>2. ASSUME NEW c \in Contexts, GetStatus(c)
      PROVE  TypeInv'
  <2>1. /\ cache' \in [Contexts -> Material \cup {None, Unread}]
        /\ inval' \in [Contexts -> Invalidations]
        /\ captured' \subseteq Contexts
    BY <1>2, ReconcileType DEF GetStatus, Evict, TypeOK
  <2> QED
    BY <1>2, <2>1 DEF GetStatus, TypeInv, TypeOK, shared
<1>3. ASSUME NEW dying \in SUBSET Contexts, Forget(dying)
      PROVE  /\ cache' \in [Contexts -> Material \cup {None, Unread}]
             /\ inval' \in [Contexts -> Invalidations]
             /\ captured' \subseteq Contexts /\ outdated' \subseteq Contexts
             /\ client' \in [Contexts -> Clients]
             /\ op' = None \/ op' = op
             /\ handler' \in [Ids -> Handlers]
             /\ deaths' \in Nat
  <2>1. Valid \in Invalidations /\ Idle \in Clients /\ Resting \in Handlers
    BY DEF Invalidations, Clients, Resting, Handlers
  <2> QED
    BY <1>3, <2>1 DEF Forget, TypeOK
<1>4. ASSUME NEW c \in Contexts, Die(c)
      PROVE  TypeInv'
  BY <1>3, <1>4 DEF Die, TypeInv, TypeOK, WellFormed, shared
<1>5. CASE BrowserRestart
  BY <1>3, <1>5 DEF BrowserRestart, TypeInv, TypeOK, WellFormed
<1> QED
  BY <1>1, <1>2, <1>4, <1>5

LEMMA InitType ==
    ASSUME Init
    PROVE  TypeInv
<1>1. Valid \in Invalidations /\ Idle \in Clients /\ Resting \in Handlers
  BY DEF Invalidations, Clients, Resting, Handlers
<1>2. 1 \in Versions /\ 0 \in 0 .. MaxId
  BY ConstantsAssumption DEF Versions
<1> QED
  BY <1>1, <1>2 DEF Init, TypeInv, TypeOK

LEMMA TypeInduction == Spec => []TypeInv
<1>1. ASSUME TypeInv, [Next]_vars
      PROVE  TypeInv'
  <2>1. CASE UNCHANGED vars
    BY <1>1, <2>1 DEF vars, TypeInv, TypeOK, WellFormed
  <2> QED
    BY <1>1, <2>1, CallType, PageStepType, AlarmStepType, ContextStepType DEF Next
<1> QED
  BY <1>1, InitType, PTL DEF Spec

\* Every variable keeps its type, whatever fails and whoever dies.
THEOREM TypeCorrect == Spec => []TypeOK
BY TypeInduction, PTL DEF TypeInv

-----------------------------------------------------------------------------
(***************************************************************************)
(* Authority.  Who authorized before a transition has an older epoch than  *)
(* the one that is stored now; the operations that are past their epoch    *)
(* write are ahead of everyone who authorized, as nobody can authorize     *)
(* while they hold the lock.                                               *)
(***************************************************************************)
Holding(c) == client[c].pc \in {"authorized", "ready", "prepared"}

EpochAhead == \A c \in Contexts : Holding(c) => client[c].epoch < epoch

PastEpoch(o) ==
    \/ o.kind \in {"activate", "persist"} /\ o.pc # "advance epoch"
    \/ o.kind \in {"lock", "delete"} /\ o.pc = "read tasks" /\ ~o.failed
    \/ o.kind \in Cleanups \cup {"revoke", "discard"} /\ o.pc = "remove material" /\ ~o.failed

AuthorityInv ==
    /\ \A c \in Contexts : Holding(c) => client[c].epoch <= epoch
    /\ \A c \in outdated : Holding(c) => client[c].epoch < epoch
    /\ op # None /\ PastEpoch(op) => EpochAhead
    /\ op # None /\ op.kind = "activate" => op.ctx \notin outdated /\ ~Holding(op.ctx)

LEMMA HeldEpochs ==
    ASSUME TypeInv
    PROVE  \A c \in Contexts : Holding(c) => client[c].epoch \in Nat
BY DEF TypeInv, TypeOK, Holding, Clients, Idle

\* A step that neither authorizes, nor writes the epoch, nor marks anyone.
Quiet ==
    /\ epoch' = epoch /\ outdated' \subseteq outdated
    /\ \A c \in Contexts : Holding(c)' => Holding(c) /\ client'[c].epoch = client[c].epoch
    /\ op' # None /\ PastEpoch(op') => op # None /\ PastEpoch(op)
    /\ op' # None /\ op'.kind = "activate"
          => op # None /\ op.kind = "activate" /\ op'.ctx = op.ctx

LEMMA QuietKeepsAuthority ==
    ASSUME TypeInv, AuthorityInv, Quiet
    PROVE  AuthorityInv'
<1>1. /\ epoch \in Nat /\ outdated \subseteq Contexts
      /\ op # None => op.ctx \in Contexts
  BY KindOfCall DEF TypeInv, TypeOK
<1> QED
  BY <1>1 DEF AuthorityInv, Quiet, EpochAhead

LEMMA GotoCarries ==
    ASSUME TypeInv, op # None, NEW pc \in CallsOf(op.kind),
           \/ Goto(pc)
           \/ \E f \in BOOLEAN : Proceed(pc, f) /\ (op.failed => f)
           \/ \E f : GoesOn(pc, f)
    PROVE  /\ op'.pc = pc /\ op'.kind = op.kind /\ op'.ctx = op.ctx
           /\ op.failed => op'.failed
           /\ op'.action = op.action /\ op'.target = op.target
<1>1. op \in Operations /\ pc \in Pcs
  BY KindOfCall, CallsArePcs
<1>2. CASE Goto(pc)
  BY <1>1, <1>2, GotoType DEF Continues
<1>3. CASE \E f \in BOOLEAN : Proceed(pc, f) /\ (op.failed => f)
  BY <1>1, <1>3, ProceedType DEF Continues
<1>4. CASE \E f : GoesOn(pc, f)
  BY <1>1, <1>4, GoesOnType DEF Continues
<1> QED
  BY <1>2, <1>3, <1>4

LEMMA SaveCarries ==
    ASSUME TypeInv, op # None, op.pc \in {"save payload", "save material"},
           op.kind \in {"activate", "commit"},
           \/ Goto("save material")
           \/ op.kind = "commit" /\ Goto("advance epoch")
           \/ AfterFailedSave
    PROVE  op' # None => /\ op'.kind = "activate" => op.kind = "activate" /\ op'.ctx = op.ctx
                         /\ PastEpoch(op') => PastEpoch(op)
<1>1. CASE \E pc \in CallsOf(op.kind) : Goto(pc)
  <2>1. op'.kind = op.kind /\ op'.ctx = op.ctx
    BY <1>1, GotoCarries
  <2> QED
    BY <2>1 DEF PastEpoch, Cleanups
<1>2. CASE op' = Revocation(op.ctx, op.known)
  <2>1. IsOperation(op', "revoke", op.ctx, "advance epoch")
    BY <1>2, KindOfCall, RevocationType
  <2> QED
    BY <2>1 DEF IsOperation, PastEpoch
<1> QED
  BY <1>1, <1>2 DEF AfterFailedSave, CallsOf

LEMMA CallKeepsAuthority ==
    ASSUME TypeInv, AuthorityInv, Call
    PROVE  AuthorityInv'
<1> USE DEF At
<1> epoch \in Nat /\ outdated \subseteq Contexts
  BY DEF TypeInv, TypeOK
<1>1. CASE AdvanceEpoch
  <2>1. op # None /\ op.pc = "advance epoch"
    BY <1>1 DEF AdvanceEpoch
  <2>2. PICK failing :
          /\ epoch' = IF failing = None THEN epoch + 1 ELSE epoch
          /\ outdated' = IF failing = None /\ op.kind = "commit"
                         THEN outdated \cup Holders ELSE outdated
          /\ \/ op.kind = "commit" /\ Finish(FALSE)
             \/ op.kind = "commit" /\ failing # None /\ op' = Revocation(op.ctx, op.known)
             \/ op.kind \in {"activate", "persist", "rollback"} /\ failing # None /\ Finish(TRUE)
             \/ failing = None /\ \E pc \in CallsOf(op.kind) : Goto(pc)
             \/ /\ op.kind \in Cleanups \cup {"revoke", "discard"}
                /\ \E pc \in CallsOf(op.kind) : Proceed(pc, op.failed \/ failing # None)
    BY <1>1, <2>1, KindOfCall DEF AdvanceEpoch, CallsOf, Cleanups
  <2>3. client' = client
    BY <1>1 DEF AdvanceEpoch
  <2>4. failing = None => EpochAhead'
    BY <2>2, <2>3, HeldEpochs DEF AuthorityInv, EpochAhead, Holding
  <2>5. op' # None => /\ op'.kind = "activate" => op.kind = "activate" /\ op'.ctx = op.ctx
                      /\ PastEpoch(op') => failing = None
    <3>1. CASE \E f : Finish(f)
      BY <3>1 DEF Finish
    <3>2. CASE op' = Revocation(op.ctx, op.known)
      <4>1. IsOperation(op', "revoke", op.ctx, "advance epoch")
        BY <2>1, <3>2, KindOfCall, RevocationType
      <4> QED
        BY <4>1 DEF IsOperation, PastEpoch
    <3>3. CASE failing = None /\ \E pc \in CallsOf(op.kind) : Goto(pc)
      BY <2>1, <3>3, GotoCarries
    <3>4. CASE /\ op.kind \in Cleanups \cup {"revoke", "discard"}
               /\ \E pc \in CallsOf(op.kind) : Proceed(pc, op.failed \/ failing # None)
      <4>1. PICK f \in BOOLEAN : f = (op.failed \/ failing # None)
        BY Zenon
      <4>2. PICK pc \in CallsOf(op.kind) : Proceed(pc, f)
        BY <3>4, <4>1, Zenon
      <4>3. op \in Operations /\ pc \in Pcs
        BY <2>1, KindOfCall, CallsArePcs
      <4>4. op'.kind = op.kind /\ op'.ctx = op.ctx /\ op'.failed = f
        BY <4>2, <4>3, ProceedType DEF Continues
      <4> QED
        BY <3>4, <4>1, <4>4 DEF PastEpoch, Cleanups
    <3> QED
      BY <2>2, <3>1, <3>2, <3>3, <3>4
  <2>6. op' # None /\ op'.kind = "activate" => (op.ctx \notin outdated /\ ~Holding(op.ctx))'
    <3>1. SUFFICES ASSUME op' # None, op'.kind = "activate"
                   PROVE  (op.ctx \notin outdated /\ ~Holding(op.ctx))'
      OBVIOUS
    <3>2. op.kind = "activate" /\ op'.ctx = op.ctx
      BY <2>5, <3>1
    <3>3. outdated' = outdated
      BY <2>2, <3>2
    <3> QED
      BY <2>1, <2>3, <3>2, <3>3 DEF AuthorityInv, Holding
  <2>7. /\ \A c \in Contexts : Holding(c)' => client'[c].epoch <= epoch'
        /\ \A c \in outdated' : Holding(c)' => client'[c].epoch < epoch'
    <3>1. epoch' >= epoch /\ epoch' \in Nat
      BY <2>2
    <3>2. outdated' = outdated \/ EpochAhead'
      BY <2>2, <2>4
    <3>3. outdated' \subseteq Contexts
      BY <2>2 DEF Holders
    <3> QED
      BY <2>3, <3>1, <3>2, <3>3, HeldEpochs DEF AuthorityInv, Holding, EpochAhead
  <2>8. op' # None /\ PastEpoch(op') => EpochAhead'
    BY <2>4, <2>5
  <2> QED
    BY <2>6, <2>7, <2>8 DEF AuthorityInv
<1>2. CASE SaveTask
  <2>1. op # None /\ op.pc = "save task" /\ op.kind = "activate"
    BY <1>2, KindOfCall DEF SaveTask
  <2>2. \E pc \in CallsOf(op.kind) : Goto(pc)
    BY <1>2, <2>1 DEF SaveTask, CallsOf, AfterFailedInstall
  <2>3. op'.kind = op.kind /\ op'.ctx = op.ctx
    BY <2>1, <2>2, GotoCarries
  <2>4. Quiet
    BY <1>2, <2>1, <2>3 DEF SaveTask, Quiet, PastEpoch, Holding, Cleanups
  <2> QED
    BY <2>4, QuietKeepsAuthority
<1>3. CASE ArmAlarm
  <2>1. op # None /\ op.pc = "arm alarm" /\ op.kind = "activate"
    BY <1>3, KindOfCall DEF ArmAlarm
  <2>2. \E pc \in CallsOf(op.kind) : Goto(pc)
    BY <1>3, <2>1 DEF ArmAlarm, CallsOf, AfterFailedInstall, FirstSave
  <2>3. op'.kind = op.kind /\ op'.ctx = op.ctx
    BY <2>1, <2>2, GotoCarries
  <2>4. Quiet
    BY <1>3, <2>1, <2>3 DEF ArmAlarm, Quiet, PastEpoch, Holding, Cleanups
  <2> QED
    BY <2>4, QuietKeepsAuthority
<1>4. CASE SavePayload
  <2>1. op # None /\ op.pc = "save payload" /\ op.kind \in {"activate", "commit"}
    BY <1>4, KindOfCall DEF SavePayload
  <2>2. op' # None => /\ op'.kind = "activate" => op.kind = "activate" /\ op'.ctx = op.ctx
                      /\ PastEpoch(op') => PastEpoch(op)
    BY <1>4, <2>1, SaveCarries DEF SavePayload
  <2>3. Quiet
    BY <1>4, <2>1, <2>2 DEF SavePayload, Quiet, Holding
  <2> QED
    BY <2>3, QuietKeepsAuthority
<1>5. CASE SaveMaterial
  <2>1. op # None /\ op.pc = "save material" /\ op.kind \in {"activate", "commit"}
    BY <1>5, KindOfCall DEF SaveMaterial
  <2>2. CASE /\ outdated' = outdated /\ client' = client
             /\ (op.kind = "commit" /\ Goto("advance epoch")) \/ AfterFailedSave
    <3>1. op' # None => /\ op'.kind = "activate" => op.kind = "activate" /\ op'.ctx = op.ctx
                        /\ PastEpoch(op') => PastEpoch(op)
      BY <2>1, <2>2, SaveCarries
    <3>2. Quiet
      BY <1>5, <2>1, <2>2, <3>1 DEF SaveMaterial, Quiet, Holding
    <3> QED
      BY <3>2, QuietKeepsAuthority
  <2>3. CASE op.kind = "activate" /\ op' = None
    <3>1. EpochAhead
      BY <2>1, <2>3 DEF AuthorityInv, PastEpoch
    <3>2. epoch' = epoch /\ outdated' \subseteq Contexts
      BY <1>5 DEF SaveMaterial, Holders
    <3>3. \A c \in Contexts : Holding(c)' => Holding(c) /\ client'[c].epoch = client[c].epoch
      <4>1. \/ client' = client
            \/ client' = [client EXCEPT ![op.ctx] =
                  [pc |-> "enrolled", session |-> op.target]]
        BY <1>5 DEF SaveMaterial, Activated
      <4>2. client \in [Contexts -> Clients]
        BY DEF TypeInv, TypeOK
      <4> QED
        BY <4>1, <4>2 DEF Holding
    <3> QED
      BY <2>3, <3>1, <3>2, <3>3, HeldEpochs DEF AuthorityInv, EpochAhead
  <2> QED
    BY <1>5, <2>1, <2>2, <2>3 DEF SaveMaterial, Finish
<1>6. CASE SaveSnapshot
  <2>1. op # None /\ op.pc = "save snapshot" /\ op.kind = "persist" /\ op.ctx \in Contexts
    BY <1>6, KindOfCall DEF SaveSnapshot
  <2>2. EpochAhead
    BY <2>1 DEF AuthorityInv, PastEpoch
  <2>3. epoch' = epoch /\ op' = None /\ outdated' \subseteq Contexts
    BY <1>6 DEF SaveSnapshot, Finish, Holders
  <2>4. \A c \in Contexts : Holding(c)' => Holding(c) /\ client'[c].epoch = client[c].epoch
    <3>1. \/ client' = client
          \/ client' = [client EXCEPT ![op.ctx] =
                [pc |-> "persisted", session |-> op.target, ver |-> nextVersion + 1]]
      BY <1>6 DEF SaveSnapshot
    <3>2. client \in [Contexts -> Clients]
      BY DEF TypeInv, TypeOK
    <3> QED
      BY <3>1, <3>2 DEF Holding
  <2> QED
    BY <2>2, <2>3, <2>4, HeldEpochs DEF AuthorityInv, EpochAhead
<1>7. CASE RestoreSnapshot
  <2>1. op # None /\ op.pc = "restore snapshot"
    BY <1>7 DEF RestoreSnapshot
  <2>2. op' = None \/ op' = Revocation(op.ctx, op.known)
    BY <1>7 DEF RestoreSnapshot, Finish
  <2>3. op' # None => IsOperation(op', "revoke", op.ctx, "advance epoch")
    BY <2>1, <2>2, KindOfCall, RevocationType
  <2>4. Quiet
    BY <1>7, <2>3 DEF RestoreSnapshot, Quiet, Holding, IsOperation, PastEpoch
  <2> QED
    BY <2>4, QuietKeepsAuthority
<1>8. CASE ReadTasks
  <2>1. /\ op # None /\ op.pc = "read tasks" /\ op.kind \in Cleanups \cup {"discard"}
        /\ op \in Operations /\ task \in LockTask \cup {None}
    BY <1>8, KindOfCall DEF ReadTasks, TypeInv, TypeOK
  <2>2. CASE op' = None
    BY <1>8, <2>2, QuietKeepsAuthority DEF ReadTasks, Quiet, Holding, shared
  <2>3. CASE \E f : Looked(f)
    <3>1. /\ Continues(AfterTasks)
          /\ op'.failed = op.failed
      BY <2>1, <2>3, LookedType
    <3>2. Quiet
      BY <1>8, <2>1, <3>1 DEF ReadTasks, AfterTasks, Quiet, Continues, Holding, PastEpoch, Cleanups, shared
    <3> QED
      BY <3>2, QuietKeepsAuthority
  <2> QED
    BY <1>8, <2>2, <2>3 DEF ReadTasks, Finish
<1>9. CASE RemoveMaterial
  <2>1. /\ op # None /\ op.pc = "remove material" /\ op \in Operations
        /\ op.kind \in Cleanups \cup {"revoke", "activate", "discard"}
    BY <1>9, KindOfCall DEF RemoveMaterial
  <2>2. Continues("remove payload")
    BY <1>9, <2>1, MaterialRemovedType DEF RemoveMaterial
  <2>3. epoch' = epoch /\ client' = client
    BY <1>9 DEF RemoveMaterial
  <2>4. CASE op.failed /\ op.kind # "activate"
    <3>1. Quiet
      BY <1>9, <2>2, <2>3, <2>4 DEF RemoveMaterial, Quiet, Continues, Holding, PastEpoch
    <3> QED
      BY <3>1, QuietKeepsAuthority
  <2>5. CASE ~op.failed \/ op.kind = "activate"
    <3>1. EpochAhead
      BY <2>1, <2>5 DEF AuthorityInv, PastEpoch
    <3>2. outdated' \subseteq outdated \cup Holders
      BY <1>9 DEF RemoveMaterial
    <3>3. EpochAhead'
      BY <2>3, <3>1 DEF EpochAhead, Holding
    <3>4. op'.kind = "activate" => (op.ctx \notin outdated /\ ~Holding(op.ctx))'
      BY <2>1, <2>2, <2>3, <3>2 DEF AuthorityInv, Continues, Holding, Holders
    <3>5. outdated' \subseteq Contexts
      BY <3>2 DEF Holders
    <3> QED
      BY <2>3, <3>3, <3>4, <3>5, HeldEpochs DEF AuthorityInv, EpochAhead, Holding
  <2> QED
    BY <2>4, <2>5
<1>10. CASE RemovePayload
  <2>1. op # None /\ op.pc = "remove payload" /\ op.kind \in Cleanups \cup {"revoke", "activate", "discard"}
    BY <1>10, KindOfCall DEF RemovePayload
  <2>2. CASE op' = None
    BY <1>10, <2>2, QuietKeepsAuthority DEF RemovePayload, Quiet, Holding
  <2>3. CASE \E next \in CallsOf(op.kind) \ {"read tasks", "remove material"} :
                Goto(next) \/ \E f \in BOOLEAN : Proceed(next, f) /\ (op.failed => f)
    <3>1. /\ op'.pc \notin {"read tasks", "remove material"}
          /\ op'.kind = op.kind /\ op'.ctx = op.ctx
      BY <2>1, <2>3, GotoCarries
    <3>2. Quiet
      BY <1>10, <2>1, <3>1 DEF RemovePayload, Quiet, Holding, PastEpoch, Cleanups
    <3> QED
      BY <3>2, QuietKeepsAuthority
  <2>4. \/ op' = None
        \/ \E next \in CallsOf(op.kind) \ {"read tasks", "remove material"} :
               Goto(next) \/ \E f \in BOOLEAN : Proceed(next, f) /\ (op.failed => f)
    BY <1>10, <2>1, KindOfCall DEF RemovePayload, Finish, CallsOf, Cleanups
  <2> QED
    BY <2>2, <2>3, <2>4
<1>11. CASE RemoveVault
  <2>1. op # None /\ op.pc = "remove vault" /\ op.kind \in Cleanups
    BY <1>11, KindOfCall DEF RemoveVault
  <2>2. CASE op' = None
    BY <1>11, <2>2, QuietKeepsAuthority DEF RemoveVault, Quiet, Holding
  <2>3. CASE \E next \in CallsOf(op.kind) \ {"read tasks", "remove material"} :
                Goto(next) \/ \E f \in BOOLEAN : Proceed(next, f) /\ (op.failed => f)
    <3>1. /\ op'.pc \notin {"read tasks", "remove material"}
          /\ op'.kind = op.kind /\ op'.ctx = op.ctx
      BY <2>1, <2>3, GotoCarries
    <3>2. Quiet
      BY <1>11, <2>1, <3>1 DEF RemoveVault, Quiet, Holding, PastEpoch, Cleanups
    <3> QED
      BY <3>2, QuietKeepsAuthority
  <2>4. \/ op' = None
        \/ \E next \in CallsOf(op.kind) \ {"read tasks", "remove material"} :
               Goto(next) \/ \E f \in BOOLEAN : Proceed(next, f) /\ (op.failed => f)
    BY <1>11, <2>1, KindOfCall DEF RemoveVault, Finish, CallsOf, Cleanups
  <2> QED
    BY <2>2, <2>3, <2>4
<1>12. CASE RemoveTask
  <2>1. /\ op # None /\ op.pc = "remove task"
        /\ op.kind \in Cleanups \cup {"activate", "discard"}
    BY <1>12, KindOfCall DEF RemoveTask
  <2>2. CASE op' = None
    BY <1>12, <2>2, QuietKeepsAuthority DEF RemoveTask, Quiet, Holding
  <2>3. CASE \E next \in CallsOf(op.kind) \ {"read tasks", "remove material"} :
                Goto(next) \/ (\E f : GoesOn(next, f))
                  \/ \E f \in BOOLEAN : Proceed(next, f) /\ (op.failed => f)
    <3>1. /\ op'.pc \notin {"read tasks", "remove material"}
          /\ op'.kind = op.kind /\ op'.ctx = op.ctx
      BY <2>1, <2>3, GotoCarries
    <3>2. Quiet
      BY <1>12, <2>1, <3>1 DEF RemoveTask, Quiet, Holding, PastEpoch, Cleanups
    <3> QED
      BY <3>2, QuietKeepsAuthority
  <2>4. \/ op' = None
        \/ \E next \in CallsOf(op.kind) \ {"read tasks", "remove material"} :
               Goto(next) \/ (\E f : GoesOn(next, f))
                  \/ \E f \in BOOLEAN : Proceed(next, f) /\ (op.failed => f)
    BY <1>12, <2>1, KindOfCall DEF RemoveTask, Finish, CallsOf, Cleanups
  <2> QED
    BY <2>2, <2>3, <2>4
<1>13. CASE CancelAlarm
  <2>1. /\ op # None /\ op.pc = "cancel alarm"
        /\ op.kind \in Cleanups \cup {"activate", "discard"}
    BY <1>13, KindOfCall DEF CancelAlarm
  <2>2. CASE op' = None
    BY <1>13, <2>2, QuietKeepsAuthority DEF CancelAlarm, Quiet, Holding
  <2>3. CASE \E next \in CallsOf(op.kind) \ {"read tasks", "remove material"} :
                Goto(next) \/ (\E f : GoesOn(next, f))
                  \/ \E f \in BOOLEAN : Proceed(next, f) /\ (op.failed => f)
    <3>1. /\ op'.pc \notin {"read tasks", "remove material"}
          /\ op'.kind = op.kind /\ op'.ctx = op.ctx
      BY <2>1, <2>3, GotoCarries
    <3>2. Quiet
      BY <1>13, <2>1, <3>1 DEF CancelAlarm, Quiet, Holding, PastEpoch, Cleanups
    <3> QED
      BY <3>2, QuietKeepsAuthority
  <2>4. \/ op' = None
        \/ \E next \in CallsOf(op.kind) \ {"read tasks", "remove material"} :
               Goto(next) \/ (\E f : GoesOn(next, f))
                  \/ \E f \in BOOLEAN : Proceed(next, f) /\ (op.failed => f)
    BY <1>13, <2>1, KindOfCall DEF CancelAlarm, Finish, CallsOf, Cleanups
  <2> QED
    BY <2>2, <2>3, <2>4
<1>14. CASE SaveVault
  <2>1. op # None /\ op.pc = "save vault" /\ op.kind = "activate" /\ PastEpoch(op)
    BY <1>14, KindOfCall DEF SaveVault, PastEpoch
  <2>2. \/ Goto("save task")
        \/ op' = None
        \/ op' = Removal(op.ctx, op.known)
    BY <1>14 DEF SaveVault
  <2>3. "save task" \in CallsOf(op.kind)
    BY <2>1 DEF CallsOf
  <2>4. op' # None /\ op'.kind = "activate" => op'.ctx = op.ctx
    <3>1. op' = Removal(op.ctx, op.known)
            => op'.kind = "revoke"
      BY <2>1, KindOfCall, RemovalType DEF IsOperation
    <3> QED
      BY <2>1, <2>2, <2>3, <3>1, GotoCarries
  <2>5. Quiet
    BY <1>14, <2>1, <2>4 DEF SaveVault, Quiet, Holding
  <2> QED
    BY <2>5, QuietKeepsAuthority
<1>15. CASE DiscardVault
  BY <1>15, QuietKeepsAuthority DEF DiscardVault, Finish, Quiet, Holding
<1> QED
  BY <1>1, <1>2, <1>3, <1>4, <1>5, <1>6, <1>7, <1>8, <1>9, <1>10, <1>11, <1>12, <1>13,
     <1>14, <1>15
  DEF Call

LEMMA PageStepKeepsAuthority ==
    ASSUME TypeInv, AuthorityInv, NEW c \in Pages, Unlock(c) \/ Arrive(c) \/ Mutate(c) \/ Close(c)
    PROVE  AuthorityInv'
<1> c \in Contexts
  BY DEF Contexts
<1> /\ TypeOK /\ epoch \in Nat /\ outdated \subseteq Contexts
    /\ client \in [Contexts -> Clients]
  BY DEF TypeInv, TypeOK
<1>1. ASSUME NEW v \in Vaults, Authorize(c, v)
      PROVE  AuthorityInv'
  <2>1. op = None /\ op' = None /\ epoch' = epoch
    BY <1>1 DEF Authorize, shared
  <2>2. \/ client' = client /\ outdated' = outdated
        \/ /\ client' = [client EXCEPT ![c] = [pc |-> "authorized", vault |-> v, epoch |-> epoch]]
           /\ outdated' = outdated \ {c}
    BY <1>1 DEF Authorize
  <2> QED
    BY <2>1, <2>2, HeldEpochs DEF AuthorityInv, Holding
<1>2. CASE LoadVault(c)
  <2>1. /\ client[c].pc = "authorized" /\ client' = [client EXCEPT ![c] = Loaded(c)]
        /\ Loaded(c).pc = "ready" => Loaded(c).epoch = client[c].epoch
    BY <1>2 DEF LoadVault, Loaded, Idle
  <2>2. \A d \in Contexts : Holding(d)' => Holding(d) /\ client'[d].epoch = client[d].epoch
    BY <2>1 DEF Holding, Loaded, Idle
  <2>3. Quiet
    BY <1>2, <2>2 DEF LoadVault, Quiet, shared
  <2> QED
    BY <2>3, QuietKeepsAuthority
<1>3. CASE BeginActivation(c)
  <2>1. /\ op = None /\ client[c].pc = "ready" /\ client[c].epoch = epoch
        /\ epoch' = epoch /\ outdated' = outdated
        /\ client' = [client EXCEPT ![c] = Idle]
    BY <1>3 DEF BeginActivation, AuthorityIsCurrent, shared
  <2>2. IsOperation(op', "activate", c, "advance epoch")
    BY <1>3, ActivationType DEF BeginActivation
  <2>3. c \notin outdated
    BY <2>1 DEF AuthorityInv, Holding
  <2>4. \A d \in Contexts : Holding(d)' => Holding(d) /\ client'[d].epoch = client[d].epoch
    BY <2>1 DEF Holding, Idle
  <2>5. ~Holding(c)'
    BY <2>1 DEF Holding, Idle
  <2> QED
    BY <2>1, <2>2, <2>3, <2>4, <2>5, HeldEpochs
    DEF AuthorityInv, IsOperation, PastEpoch, Cleanups, Holding
<1>4. ASSUME client' = client \/ client' = [client EXCEPT ![c] = Idle],
             epoch' = epoch, outdated' \subseteq outdated,
             op' # None => (~PastEpoch(op') /\ op'.kind # "activate") \/ op' = op
      PROVE  AuthorityInv'
  <2>1. \A d \in Contexts : Holding(d)' => Holding(d) /\ client'[d].epoch = client[d].epoch
    BY <1>4 DEF Holding, Idle
  <2>2. Quiet
    BY <1>4, <2>1 DEF Quiet
  <2> QED
    BY <2>2, QuietKeepsAuthority
<1>5. CASE RejectActivation(c) \/ Abandon(c)
  <2>1. epoch' = epoch /\ outdated' \subseteq outdated /\ op' = op
    BY <1>5 DEF RejectActivation, Abandon, shared
  <2>2. client' = [client EXCEPT ![c] = Idle]
    BY <1>5 DEF RejectActivation, Abandon
  <2> QED
    BY <1>4, <2>1, <2>2
<1>6. CASE BeginPersist(c)
  <2>1. op' = Persistence(c) => IsOperation(op', "persist", c, "advance epoch")
    BY <1>6, PersistenceType DEF BeginPersist
  <2>2. op' # None => ~PastEpoch(op') /\ op'.kind # "activate"
    BY <1>6, <2>1 DEF BeginPersist, IsOperation, PastEpoch, Cleanups
  <2> QED
    BY <1>4, <1>6, <2>2 DEF BeginPersist, shared
<1>7. CASE BeginCommit(c)
  <2>1. op' = Commitment(c) => IsOperation(op', "commit", c, "save payload")
    BY <1>7, CommitmentType DEF BeginCommit
  <2>2. op' # None => ~PastEpoch(op') /\ op'.kind # "activate"
    BY <1>7, <2>1 DEF BeginCommit, IsOperation, PastEpoch, Cleanups
  <2> QED
    BY <1>4, <1>7, <2>2 DEF BeginCommit, shared
<1>8. CASE BeginRollback(c)
  <2>1. op' = Restoration(c) => \/ IsOperation(op', "rollback", c, "advance epoch")
                                \/ IsOperation(op', "rollback", c, "restore snapshot")
    BY <1>8, RestorationType DEF BeginRollback
  <2>2. op' # None => ~PastEpoch(op') /\ op'.kind # "activate"
    BY <1>8, <2>1 DEF BeginRollback, IsOperation, PastEpoch, Cleanups
  <2> QED
    BY <1>4, <1>8, <2>2 DEF BeginRollback, shared
<1>9. CASE BeginLock(c)
  <2>1. PICK failing \in Steps \cup {None} : op' = CleanupOf("lock", c, "advance epoch", failing)
    BY <1>9 DEF BeginLock, Failing, Steps
  <2>2. IsOperation(op', "lock", c, "advance epoch")
    BY <2>1, LockType
  <2>3. op' # None => ~PastEpoch(op') /\ op'.kind # "activate"
    BY <2>2 DEF IsOperation, PastEpoch
  <2> QED
    BY <1>4, <1>9, <2>3 DEF BeginLock, shared
<1>10. ASSUME NEW v \in Vaults, BeginDelete(c, v)
       PROVE  AuthorityInv'
  <2>1. op' = DeletionOf(c, v) => IsOperation(op', "delete", c, "advance epoch")
    BY <1>10, DeletionType
  <2>2. op' # None => ~PastEpoch(op') /\ op'.kind # "activate"
    BY <1>10, <2>1 DEF BeginDelete, IsOperation, PastEpoch
  <2> QED
    BY <1>4, <1>10, <2>2 DEF BeginDelete, shared
<1>11. CASE Prepare(c)
  <2>1. client[c].pc = "authorized" /\ client' = [client EXCEPT ![c].pc = "prepared"]
    BY <1>11 DEF Prepare
  <2>2. client[c] \in [pc : {"authorized", "prepared"}, vault : Vaults, epoch : Nat]
    BY <2>1 DEF Clients, Idle
  <2>3. \A d \in Contexts : Holding(d)' => Holding(d) /\ client'[d].epoch = client[d].epoch
    BY <2>1, <2>2 DEF Holding
  <2>4. Quiet
    BY <1>11, <2>3 DEF Prepare, Quiet, shared
  <2> QED
    BY <2>4, QuietKeepsAuthority
<1>12. CASE BeginArrival(c)
  <2>1. /\ op = None /\ client[c].pc = "prepared" /\ client[c].epoch = epoch
        /\ epoch' = epoch /\ outdated' = outdated
        /\ client' = [client EXCEPT ![c] = Idle]
    BY <1>12 DEF BeginArrival, AuthorityIsCurrent, shared
  <2>2. IsOperation(op', "activate", c, "advance epoch")
    BY <1>12, ArrivalType DEF BeginArrival
  <2>3. c \notin outdated
    BY <2>1 DEF AuthorityInv, Holding
  <2>4. \A d \in Contexts : Holding(d)' => Holding(d) /\ client'[d].epoch = client[d].epoch
    BY <2>1 DEF Holding, Idle
  <2>5. ~Holding(c)'
    BY <2>1 DEF Holding, Idle
  <2> QED
    BY <2>1, <2>2, <2>3, <2>4, <2>5, HeldEpochs
    DEF AuthorityInv, IsOperation, PastEpoch, Cleanups, Holding
<1>13. CASE BeginDiscard(c)
  <2>1. op' = Discarding(c) => IsOperation(op', "discard", c, "read tasks")
    BY <1>13, DiscardingType DEF BeginDiscard
  <2>2. op' # None => ~PastEpoch(op') /\ op'.kind # "activate"
    BY <1>13, <2>1 DEF BeginDiscard, IsOperation, PastEpoch, Cleanups
  <2> QED
    BY <1>4, <1>13, <2>2 DEF BeginDiscard, shared
<1> QED
  BY <1>1, <1>2, <1>3, <1>5, <1>6, <1>7, <1>8, <1>9, <1>10, <1>11, <1>12, <1>13
  DEF Unlock, Arrive, Mutate, Close

LEMMA OtherStepKeepsAuthority ==
    ASSUME TypeInv, AuthorityInv,
           \/ \E i \in Ids : Alarm(i)
           \/ \E c \in Contexts : OpenSession(c) \/ GetStatus(c) \/ Die(c)
           \/ BrowserRestart
    PROVE  AuthorityInv'
<1> /\ TypeOK /\ epoch \in Nat /\ outdated \subseteq Contexts
    /\ client \in [Contexts -> Clients]
  BY DEF TypeInv, TypeOK
<1>1. ASSUME epoch' = epoch, outdated' = outdated, client' = client,
             \/ op' = op
             \/ op' # None => ~PastEpoch(op') /\ op'.kind # "activate"
      PROVE  AuthorityInv'
  BY <1>1, QuietKeepsAuthority DEF Quiet, Holding
<1>2. ASSUME NEW i \in Ids, Alarm(i)
      PROVE  AuthorityInv'
  <2>1. CASE FireAlarm(i) \/ CheckOwnership(i) \/ ArmRetry(i) \/ SettleRetry(i)
    <3>1. epoch' = epoch /\ outdated' = outdated /\ client' = client /\ op' = op
      BY <2>1 DEF FireAlarm, CheckOwnership, ArmRetry, SettleRetry
    <3> QED
      BY <1>1, <3>1
  <2>2. CASE BeginAlarmCleanup(i)
    <3>1. PICK failing \in Steps \cup {None} :
            IF ~OwnsLock(i) THEN UNCHANGED op ELSE op' = AlarmCleanup(i, failing)
      BY <2>2 DEF BeginAlarmCleanup, Failing, Steps
    <3>2. OwnsLock(i) => IsOperation(op', "alarm", Background, "read tasks")
      BY <3>1, AlarmCleanupType DEF OwnsLock
    <3>3. epoch' = epoch /\ outdated' = outdated /\ client' = client
      BY <2>2 DEF BeginAlarmCleanup, shared
    <3>4. CASE OwnsLock(i)
      <4>1. ~PastEpoch(op') /\ op'.kind # "activate"
        BY <3>2, <3>4 DEF IsOperation, PastEpoch
      <4> QED
        BY <1>1, <3>3, <4>1
    <3>5. CASE ~OwnsLock(i)
      BY <1>1, <3>1, <3>3, <3>5
    <3> QED
      BY <3>4, <3>5
  <2> QED
    BY <1>2, <2>1, <2>2 DEF Alarm
<1>3. ASSUME NEW c \in Contexts, OpenSession(c)
      PROVE  AuthorityInv'
  <2>1. \/ op' = None
        \/ op' = Revocation(c, None)
        \/ op' = Revocation(c, Reconcile(c).material)
    BY <1>3 DEF OpenSession
  <2>2. op' # None => IsOperation(op', "revoke", c, "advance epoch")
    BY <2>1, ReconcileType, RevocationType
  <2>3. op' # None => ~PastEpoch(op') /\ op'.kind # "activate"
    BY <2>2 DEF IsOperation, PastEpoch
  <2>4. client' = client \/ client' = [client EXCEPT ![c] =
                               [pc |-> "mutating", session |-> Reconcile(c).material]]
    BY <1>3 DEF OpenSession
  <2>5. \A d \in Contexts : Holding(d)' => Holding(d) /\ client'[d].epoch = client[d].epoch
    BY <2>4 DEF Holding
  <2>6. Quiet
    BY <1>3, <2>3, <2>5 DEF OpenSession, Quiet, shared
  <2> QED
    BY <2>6, QuietKeepsAuthority
<1>4. ASSUME NEW c \in Contexts, GetStatus(c)
      PROVE  AuthorityInv'
  BY <1>1, <1>4 DEF GetStatus, shared
<1>5. ASSUME NEW c \in Contexts, Die(c)
      PROVE  AuthorityInv'
  <2>1. /\ epoch' = epoch /\ outdated' = outdated \ {c} /\ (op' = None \/ op' = op)
        /\ client' = [d \in Contexts |-> IF d = c THEN Idle ELSE client[d]]
    BY <1>5 DEF Die, Forget, shared
  <2>2. \A d \in Contexts : Holding(d)' => Holding(d) /\ client'[d].epoch = client[d].epoch
    BY <2>1 DEF Holding, Idle
  <2>3. op # None => op.ctx \in Contexts
    BY KindOfCall
  <2> QED
    BY <2>1, <2>2, <2>3, HeldEpochs DEF AuthorityInv, EpochAhead
<1>6. CASE BrowserRestart
  <2>1. /\ outdated' = {} /\ \A c \in Contexts : client'[c] = Idle
        /\ op' = None
    <3>1. op # None => op.ctx \in Contexts
      BY KindOfCall
    <3> QED
      BY <1>6, <3>1 DEF BrowserRestart, Forget
  <2> QED
    BY <2>1 DEF AuthorityInv, Holding, Idle
<1> QED
  BY <1>2, <1>3, <1>4, <1>5, <1>6

LEMMA AuthorityInduction == Spec => []AuthorityInv
<1>1. Init => AuthorityInv
  BY DEF Init, AuthorityInv, Holding, Idle
<1>2. ASSUME TypeInv, AuthorityInv, [Next]_vars
      PROVE  AuthorityInv'
  <2>1. CASE UNCHANGED vars
    BY <1>2, <2>1, QuietKeepsAuthority DEF vars, Quiet, Holding
  <2> QED
    BY <1>2, <2>1, CallKeepsAuthority, PageStepKeepsAuthority, OtherStepKeepsAuthority
    DEF Next
<1> QED
  BY <1>1, <1>2, TypeInduction, PTL DEF Spec

\* No activation ever goes ahead on authority that was captured before a lock,
\* a deletion, an activation, a persisted snapshot or a commit was carried
\* through: the epoch that activateWithinSessionOperation compares is newer.
THEOREM AuthorityIsFresh == Spec => []ActivationAuthorityFresh
BY AuthorityInduction, PTL DEF AuthorityInv, ActivationAuthorityFresh

-----------------------------------------------------------------------------
(***************************************************************************)
(* Sessions.  Ids grow; the session an activation replaces is older and of *)
(* the same vault; a commit still finds the session it is for; the lock    *)
(* task and a cleanup that runs for it are never older than the session.   *)
(***************************************************************************)
Installing == {"arm alarm", "save payload", "save material"}

SessionsInv ==
    /\ opened <= nextId
    /\ stored # None => stored.sid <= opened
    /\ stored # None /\ task # None => stored.sid <= task.id
    /\ op # None /\ op.kind = "activate" =>
          /\ op.target.sid = nextId /\ op.action = nextId /\ opened < nextId
          /\ stored # None => stored.vault = op.target.vault
          /\ op.pc \in Installing => task # None /\ task.id = op.action
    /\ op # None /\ op.kind = "commit" /\ op.pc \in Installing =>
          stored # None /\ stored.sid = op.target.sid /\ stored.vault = op.target.vault
    /\ op # None /\ op.kind = "alarm" /\ stored # None => stored.sid <= op.action

\* The operation goes on, at a call that no session has to be there for.
SameOperation ==
    /\ op # None /\ op'.kind = op.kind /\ op'.target = op.target
    /\ op.kind \in {"activate", "alarm"} => op'.action = op.action
    /\ op'.pc \in Installing => op.pc \in Installing /\ task' = task /\ stored' = stored

\* A step that opens no session: it may end one, or retire a lock task.
OpensNone ==
    /\ opened' = opened /\ nextId' = nextId
    /\ stored' = stored \/ stored' = None
    /\ task' = task \/ task' = None
    /\ op' # None => SameOperation \/ op'.kind \notin {"activate", "commit", "alarm"}

LEMMA SessionTypes ==
    ASSUME TypeInv
    PROVE  /\ opened \in Nat /\ nextId \in Nat
           /\ stored # None => stored \in Material /\ stored.sid \in Nat
           /\ task # None => task.id \in Nat
<1>1. Ids \subseteq Nat
  BY ConstantsAssumption DEF Ids
<1>2. opened \in Nat /\ nextId \in Nat
  BY ConstantsAssumption DEF TypeInv, TypeOK
<1>3. stored # None => stored \in Material /\ stored.sid \in Ids
  BY DEF TypeInv, TypeOK, Material
<1>4. task # None => task.id \in Ids
  BY DEF TypeInv, TypeOK, LockTask
<1> QED
  BY <1>1, <1>2, <1>3, <1>4

LEMMA OpensNoneKeepsSessions ==
    ASSUME TypeInv, SessionsInv, OpensNone
    PROVE  SessionsInv'
<1>1. CASE op' = None
  BY <1>1, SessionTypes DEF SessionsInv, OpensNone
<1>2. CASE op' # None /\ op'.kind \notin {"activate", "commit", "alarm"}
  BY <1>2, SessionTypes DEF SessionsInv, OpensNone
<1>3. CASE op' # None /\ SameOperation
  BY <1>3, SessionTypes DEF SessionsInv, OpensNone, SameOperation
<1> QED
  BY <1>1, <1>2, <1>3 DEF OpensNone

LEMMA CallKeepsSessions ==
    ASSUME TypeInv, SessionsInv, Call
    PROVE  SessionsInv' /\ (OpensNone \/ SaveTask \/ SaveMaterial)
<1> USE DEF At
<1>1. ASSUME op # None, opened' = opened, nextId' = nextId,
             stored' = stored \/ stored' = None, task' = task \/ task' = None,
             NEW next \in CallsOf(op.kind) \ Installing,
             \/ Goto(next)
             \/ \E f \in BOOLEAN : Proceed(next, f) /\ (op.failed => f)
             \/ \E f : GoesOn(next, f)
      PROVE  SessionsInv' /\ OpensNone
  <2>1. /\ op'.pc = next /\ op'.kind = op.kind
        /\ op'.action = op.action /\ op'.target = op.target
    BY <1>1, GotoCarries
  <2>2. OpensNone
    BY <1>1, <2>1 DEF OpensNone, SameOperation
  <2> QED
    BY <2>2, OpensNoneKeepsSessions
<1>2. ASSUME op # None, opened' = opened, nextId' = nextId,
             stored' = stored \/ stored' = None, task' = task \/ task' = None,
             op' = None \/ op' = Revocation(op.ctx, op.known)
      PROVE  SessionsInv' /\ OpensNone
  <2>1. op' # None => IsOperation(op', "revoke", op.ctx, "advance epoch")
    BY <1>2, KindOfCall, RevocationType
  <2>2. OpensNone
    BY <1>2, <2>1 DEF OpensNone, IsOperation
  <2> QED
    BY <2>2, OpensNoneKeepsSessions
<1>3. CASE AdvanceEpoch
  <2>1. /\ op # None /\ opened' = opened /\ nextId' = nextId
        /\ stored' = stored /\ task' = task
    BY <1>3 DEF AdvanceEpoch
  <2>2. \/ op' = None \/ op' = Revocation(op.ctx, op.known)
        \/ \E next \in CallsOf(op.kind) \ Installing : Goto(next)
        \/ \E next \in CallsOf(op.kind) \ Installing, b \in {TRUE, FALSE} :
              Proceed(next, op.failed \/ b)
    BY <1>3, KindOfCall DEF AdvanceEpoch, Finish, CallsOf, Cleanups, Installing
  <2>3. (\E next \in CallsOf(op.kind) \ Installing, b \in {TRUE, FALSE} :
            Proceed(next, op.failed \/ b))
        => \E next \in CallsOf(op.kind) \ Installing :
              \E f \in BOOLEAN : Proceed(next, f) /\ (op.failed => f)
    BY Zenon
  <2> QED
    BY <1>1, <1>2, <2>1, <2>2, <2>3
<1>4. CASE SaveTask
  <2>1. op # None /\ op.kind = "activate" /\ op.pc = "save task" /\ op.action \in Ids
    BY <1>4, KindOfCall DEF SaveTask, WellFormed
  <2>2. PICK failing :
          /\ task' = IF failing = None
                     THEN [id |-> op.action, vault |-> op.target.vault] ELSE task
          /\ Goto(IF failing = None THEN "arm alarm" ELSE AfterFailedInstall)
    BY <1>4 DEF SaveTask
  <2>3. opened' = opened /\ nextId' = nextId /\ stored' = stored
    BY <1>4 DEF SaveTask
  <2>4. CASE failing = None
    <3>1. "arm alarm" \in CallsOf(op.kind) /\ Goto("arm alarm")
      BY <2>1, <2>2, <2>4 DEF CallsOf
    <3>2. /\ op'.kind = "activate" /\ op'.action = op.action /\ op'.target = op.target
      BY <2>1, <3>1, GotoCarries
    <3>3. task' = [id |-> op.action, vault |-> op.target.vault]
      BY <2>2, <2>4
    <3>4. task'.id = op.action
      BY <3>3
    <3>5. task' # None
      BY <2>1, <3>3, MarkersAssumption, KindOfCall DEF WellFormed, LockTask, Material
    <3>6. op.action = nextId /\ op.target.sid = nextId /\ opened < nextId
      BY <2>1 DEF SessionsInv
    <3>7. (stored # None /\ task # None => stored.sid <= task.id)'
      BY <2>3, <3>4, <3>6, SessionTypes DEF SessionsInv
    <3> QED
      BY <1>4, <2>1, <2>3, <3>2, <3>4, <3>5, <3>6, <3>7, SessionTypes DEF SessionsInv
  <2>5. CASE failing # None
    <3>1. AfterFailedInstall \in CallsOf(op.kind) \ Installing /\ Goto(AfterFailedInstall)
      BY <2>1, <2>2, <2>5 DEF CallsOf, AfterFailedInstall, Installing
    <3> QED
      BY <1>1, <2>1, <2>2, <2>3, <2>5, <3>1
  <2> QED
    BY <2>4, <2>5
<1>5. CASE ArmAlarm
  <2>1. op # None /\ op.kind = "activate" /\ op.pc = "arm alarm"
    BY <1>5, KindOfCall DEF ArmAlarm
  <2>2. \E next \in CallsOf(op.kind) : Goto(next)
    BY <1>5, <2>1 DEF ArmAlarm, CallsOf, AfterFailedInstall, FirstSave
  <2>3. op'.kind = op.kind /\ op'.action = op.action /\ op'.target = op.target
    BY <2>1, <2>2, GotoCarries
  <2>4. OpensNone
    BY <1>5, <2>1, <2>3 DEF ArmAlarm, OpensNone, SameOperation, Installing
  <2> QED
    BY <2>4, OpensNoneKeepsSessions
<1>6. CASE SavePayload
  <2>1. op # None /\ op.pc = "save payload" /\ op.kind \in {"activate", "commit"}
    BY <1>6, KindOfCall DEF SavePayload
  <2>2. opened' = opened /\ nextId' = nextId /\ stored' = stored /\ task' = task
    BY <1>6 DEF SavePayload
  <2>3. \/ \E next \in CallsOf(op.kind) : Goto(next)
        \/ op' = Revocation(op.ctx, op.known)
    BY <1>6, <2>1 DEF SavePayload, AfterFailedSave, CallsOf
  <2>4. CASE \E next \in CallsOf(op.kind) : Goto(next)
    <3>1. op'.kind = op.kind /\ op'.action = op.action /\ op'.target = op.target
      BY <2>1, <2>4, GotoCarries
    <3>2. OpensNone
      BY <2>1, <2>2, <3>1 DEF OpensNone, SameOperation, Installing
    <3> QED
      BY <3>2, OpensNoneKeepsSessions
  <2> QED
    BY <1>2, <2>1, <2>2, <2>3, <2>4
<1>7. CASE SaveMaterial
  <2>1. op # None /\ op.pc = "save material" /\ op.kind \in {"activate", "commit"}
    BY <1>7, KindOfCall DEF SaveMaterial
  <2>2. nextId' = nextId /\ task' = task
    BY <1>7 DEF SaveMaterial
  <2>3. CASE AfterFailedSave /\ stored' = stored /\ opened' = opened
    <3>1. \/ \E next \in CallsOf(op.kind) \ Installing : Goto(next)
          \/ op' = Revocation(op.ctx, op.known)
      BY <2>1, <2>3 DEF AfterFailedSave, CallsOf, Installing
    <3> QED
      BY <1>1, <1>2, <2>1, <2>2, <2>3, <3>1
  <2>4. CASE op.kind = "activate" /\ stored' = op.target /\ opened' = op.target.sid /\ op' = None
    <3>1. op.target \in Material /\ op.target.sid = nextId /\ task # None /\ task.id = nextId
      BY <2>1, <2>4, KindOfCall DEF WellFormed, SessionsInv, Installing
    <3> QED
      BY <1>7, <2>2, <2>4, <3>1, SessionTypes DEF SessionsInv
  <2>5. CASE op.kind = "commit" /\ stored' = op.target /\ opened' = opened /\ Goto("advance epoch")
    <3>1. stored # None /\ stored.sid = op.target.sid
      BY <2>1, <2>5 DEF SessionsInv, Installing
    <3>2. "advance epoch" \in CallsOf(op.kind)
      BY <2>5 DEF CallsOf
    <3>3. op'.kind = "commit" /\ op'.pc = "advance epoch"
      BY <2>1, <2>5, <3>2, GotoCarries
    <3> QED
      BY <1>7, <2>2, <2>5, <3>1, <3>3, SessionTypes DEF SessionsInv, Installing
  <2> QED
    BY <1>7, <2>1, <2>3, <2>4, <2>5 DEF SaveMaterial, Finish
<1>8. CASE SaveSnapshot
  <2>1. /\ op # None /\ opened' = opened /\ nextId' = nextId
        /\ stored' = stored /\ task' = task /\ op' = None
    BY <1>8 DEF SaveSnapshot, Finish
  <2> QED
    BY <1>2, <2>1
<1>9. CASE RestoreSnapshot
  <2>1. /\ op # None /\ opened' = opened /\ nextId' = nextId
        /\ stored' = stored /\ task' = task
        /\ op' = None \/ op' = Revocation(op.ctx, op.known)
    BY <1>9 DEF RestoreSnapshot, Finish
  <2> QED
    BY <1>2, <2>1
<1>10. CASE ReadTasks
  <2>1. /\ op # None /\ op.kind \in Cleanups \cup {"discard"} /\ op \in Operations
        /\ task \in LockTask \cup {None}
    BY <1>10, KindOfCall DEF ReadTasks, TypeInv, TypeOK
  <2>2. /\ opened' = opened /\ nextId' = nextId /\ stored' = stored /\ task' = task
    BY <1>10 DEF ReadTasks, shared
  <2>3. CASE \E f : Looked(f)
    <3>1. /\ Continues(AfterTasks)
          /\ op.kind = "alarm" => op'.action = op.action
      BY <2>1, <2>3, LookedType
    <3>2. OpensNone
      BY <2>1, <2>2, <3>1 DEF OpensNone, AfterTasks, SameOperation, Continues, Installing, Cleanups
    <3> QED
      BY <3>2, OpensNoneKeepsSessions
  <2>4. op' = None \/ \E f : Looked(f)
    BY <1>10 DEF ReadTasks, Finish
  <2> QED
    BY <1>2, <2>1, <2>2, <2>3, <2>4
<1>11. CASE RemoveMaterial
  <2>1. op # None /\ op \in Operations
    BY <1>11, KindOfCall DEF RemoveMaterial
  <2>2. Continues("remove payload") /\ op'.action = op.action
    BY <1>11, <2>1, MaterialRemovedType DEF RemoveMaterial
  <2>3. OpensNone
    BY <1>11, <2>1, <2>2 DEF RemoveMaterial, OpensNone, SameOperation, Continues, Installing
  <2> QED
    BY <2>3, OpensNoneKeepsSessions
<1>12. CASE RemovePayload \/ RemoveVault \/ RemoveTask \/ CancelAlarm
  <2>1. /\ op # None /\ opened' = opened /\ nextId' = nextId
        /\ stored' = stored /\ (task' = task \/ task' = None)
    BY <1>12 DEF RemovePayload, RemoveVault, RemoveTask, CancelAlarm
  <2>2. \/ op' = None
        \/ \E next \in CallsOf(op.kind) \ Installing :
              Goto(next) \/ (\E f : GoesOn(next, f))
              \/ \E f \in BOOLEAN : Proceed(next, f) /\ (op.failed => f)
    BY <1>12, <2>1, KindOfCall
    DEF RemovePayload, RemoveVault, RemoveTask, CancelAlarm, Finish, CallsOf, Cleanups,
        Installing
  <2> QED
    BY <1>1, <1>2, <2>1, <2>2
<1>13. CASE SaveVault
  <2>1. /\ op # None /\ op.kind = "activate" /\ opened' = opened /\ nextId' = nextId
        /\ stored' = stored /\ task' = task
    BY <1>13, KindOfCall DEF SaveVault
  <2>2. \/ Goto("save task")
        \/ op' = None
        \/ op' = Removal(op.ctx, op.known)
    BY <1>13 DEF SaveVault
  <2>3. "save task" \in CallsOf(op.kind) \ Installing
    BY <2>1 DEF CallsOf, Installing
  <2>4. CASE Goto("save task")
    BY <1>1, <2>1, <2>3, <2>4
  <2>5. CASE op' = None
    BY <1>2, <2>1, <2>5
  <2>6. CASE op' = Removal(op.ctx, op.known)
    <3>1. IsOperation(op', "revoke", op.ctx, "remove material")
      BY <2>1, <2>6, KindOfCall, RemovalType
    <3>2. OpensNone
      BY <2>1, <3>1 DEF OpensNone, IsOperation
    <3> QED
      BY <3>2, OpensNoneKeepsSessions
  <2> QED
    BY <2>2, <2>4, <2>5, <2>6
<1>14. CASE DiscardVault
  <2>1. /\ op # None /\ opened' = opened /\ nextId' = nextId
        /\ stored' = stored /\ task' = task /\ op' = None
    BY <1>14 DEF DiscardVault, Finish
  <2> QED
    BY <1>2, <2>1
<1> QED
  BY <1>3, <1>4, <1>5, <1>6, <1>7, <1>8, <1>9, <1>10, <1>11, <1>12, <1>13,
     <1>14
  DEF Call

NoNewSession == opened' = opened /\ (stored' = stored \/ stored' = None)

\* An activation or an arrival begins.
Activates(c) ==
    /\ IsOperation(op', "activate", c, "advance epoch")
    /\ op'.action = nextId + 1 /\ op'.target.sid = nextId + 1
    /\ stored # None => stored.vault = op'.target.vault
    /\ opened' = opened /\ nextId' = nextId + 1
    /\ stored' = stored /\ task' = task

LEMMA ActivationKeepsSessions ==
    ASSUME TypeInv, SessionsInv, NEW c \in Contexts, Activates(c)
    PROVE  SessionsInv' /\ NoNewSession
<1>1. op'.kind = "activate" /\ op'.pc \notin Installing
  BY DEF Activates, IsOperation, Installing
<1>2. opened <= nextId /\ nextId \in Nat /\ opened \in Nat
  BY SessionTypes DEF SessionsInv
<1>3. opened' = opened /\ nextId' = nextId + 1 /\ stored' = stored /\ task' = task
  BY DEF Activates
<1>4. opened' < nextId' /\ opened' <= nextId'
  BY <1>2, <1>3
<1>5. /\ op'.target.sid = nextId' /\ op'.action = nextId'
      /\ stored' # None => stored'.vault = op'.target.vault
  BY DEF Activates
<1> QED
  BY <1>1, <1>3, <1>4, <1>5 DEF SessionsInv, NoNewSession

LEMMA OtherStepKeepsSessions ==
    ASSUME TypeInv, SessionsInv,
           \/ \E c \in Pages : Unlock(c) \/ Arrive(c) \/ Mutate(c) \/ Close(c)
           \/ \E i \in Ids : Alarm(i)
           \/ \E c \in Contexts : OpenSession(c) \/ GetStatus(c) \/ Die(c)
           \/ BrowserRestart
    PROVE  SessionsInv' /\ NoNewSession
<1> Pages \subseteq Contexts
  BY DEF Contexts
<1> TypeOK
  BY DEF TypeInv
<1>1. ASSUME opened' = opened, nextId' = nextId, stored' = stored, task' = task,
             op' = op \/ (op' # None => op'.kind \notin {"activate", "commit", "alarm"})
      PROVE  SessionsInv' /\ NoNewSession
  <2>1. CASE op' = op
    BY <1>1, <2>1 DEF SessionsInv, NoNewSession
  <2>2. CASE op' # None => op'.kind \notin {"activate", "commit", "alarm"}
    <3>1. OpensNone
      BY <1>1, <2>2 DEF OpensNone
    <3> QED
      BY <1>1, <3>1, OpensNoneKeepsSessions DEF NoNewSession
  <2> QED
    BY <1>1, <2>1, <2>2
<1>2. ASSUME NEW c \in Pages, Unlock(c)
      PROVE  SessionsInv' /\ NoNewSession
  <2>1. CASE \/ \E v \in Vaults : Authorize(c, v)
             \/ LoadVault(c) \/ RejectActivation(c) \/ Abandon(c)
    <3>1. /\ opened' = opened /\ nextId' = nextId /\ stored' = stored /\ task' = task /\ op' = op
      BY <2>1 DEF Authorize, LoadVault, RejectActivation, Abandon, shared
    <3> QED
      BY <1>1, <3>1
  <2>2. CASE BeginActivation(c)
    <3>1. /\ IsOperation(op', "activate", c, "advance epoch")
          /\ op'.action = nextId + 1 /\ op'.target.sid = nextId + 1
          /\ op'.target.vault = client[c].vault
      BY <2>2, ActivationType DEF BeginActivation
    <3>2. stored # None => stored.vault = client[c].vault
      BY <2>2 DEF BeginActivation, ActivationIsAllowed
    <3>3. opened' = opened /\ nextId' = nextId + 1 /\ stored' = stored /\ task' = task
      BY <2>2 DEF BeginActivation, shared
    <3> QED
      BY <3>1, <3>2, <3>3, ActivationKeepsSessions DEF Activates
  <2> QED
    BY <1>2, <2>1, <2>2 DEF Unlock
<1>3. ASSUME NEW c \in Pages, Mutate(c)
      PROVE  SessionsInv' /\ NoNewSession
  <2>1. opened' = opened /\ nextId' = nextId /\ stored' = stored /\ task' = task
    BY <1>3 DEF Mutate, BeginPersist, BeginCommit, BeginRollback, shared
  <2>2. CASE BeginPersist(c)
    <3>1. op' = None \/ op' = Persistence(c)
      BY <2>2 DEF BeginPersist
    <3>2. op' = Persistence(c) => IsOperation(op', "persist", c, "advance epoch")
      BY <2>2, PersistenceType DEF BeginPersist
    <3>3. op' # None => op'.kind \notin {"activate", "commit", "alarm"}
      BY <3>1, <3>2 DEF IsOperation
    <3> QED
      BY <1>1, <2>1, <3>3
  <2>3. CASE BeginRollback(c)
    <3>1. op' = None \/ op' = Restoration(c)
      BY <2>3 DEF BeginRollback
    <3>2. op' = Restoration(c) => \/ IsOperation(op', "rollback", c, "advance epoch")
                                  \/ IsOperation(op', "rollback", c, "restore snapshot")
      BY <2>3, RestorationType DEF BeginRollback
    <3>3. op' # None => op'.kind \notin {"activate", "commit", "alarm"}
      BY <3>1, <3>2 DEF IsOperation
    <3> QED
      BY <1>1, <2>1, <3>3
  <2>4. CASE BeginCommit(c) /\ op' = None
    BY <1>1, <2>1, <2>4
  <2>5. CASE BeginCommit(c) /\ op' = Commitment(c) /\ IsActiveSession(c, client[c].session)
    <3>1. /\ IsOperation(op', "commit", c, "save payload")
          /\ op'.target.sid = client[c].session.sid
          /\ op'.target.vault = client[c].session.vault
      BY <2>5, CommitmentType DEF BeginCommit
    <3>2. /\ stored # None
          /\ stored.sid = client[c].session.sid /\ stored.vault = client[c].session.vault
      BY <2>5, ReconcileType DEF IsActiveSession
    <3> QED
      BY <2>1, <3>1, <3>2 DEF SessionsInv, IsOperation, NoNewSession
  <2> QED
    BY <1>3, <2>2, <2>3, <2>4, <2>5 DEF Mutate, BeginCommit
<1>4. ASSUME NEW c \in Pages, Close(c)
      PROVE  SessionsInv' /\ NoNewSession
  <2>1. opened' = opened /\ nextId' = nextId /\ stored' = stored /\ task' = task
    BY <1>4 DEF Close, BeginLock, BeginDelete, shared
  <2>2. op' # None => \/ IsOperation(op', "lock", c, "advance epoch")
                      \/ IsOperation(op', "delete", c, "advance epoch")
    <3>1. CASE BeginLock(c)
      <4>1. \E failing \in Steps \cup {None} :
               op' = CleanupOf("lock", c, "advance epoch", failing)
        BY <3>1 DEF BeginLock, Failing, Steps
      <4> QED
        BY <4>1, LockType
    <3>2. CASE \E v \in Vaults : BeginDelete(c, v)
      <4>1. op' = None \/ \E v \in Vaults : op' = DeletionOf(c, v)
        BY <3>2 DEF BeginDelete
      <4> QED
        BY <4>1, DeletionType
    <3> QED
      BY <1>4, <3>1, <3>2 DEF Close
  <2>3. op' # None => op'.kind \notin {"activate", "commit", "alarm"}
    BY <2>2 DEF IsOperation
  <2> QED
    BY <1>1, <2>1, <2>3
<1>5. ASSUME NEW i \in Ids, Alarm(i)
      PROVE  SessionsInv' /\ NoNewSession
  <2>1. opened' = opened /\ nextId' = nextId /\ stored' = stored /\ task' = task
    BY <1>5 DEF Alarm, FireAlarm, CheckOwnership, ArmRetry, BeginAlarmCleanup, SettleRetry, shared
  <2>2. CASE op' = op
    BY <1>1, <2>1, <2>2
  <2>3. CASE BeginAlarmCleanup(i) /\ OwnsLock(i)
    <3>1. \E failing \in Steps \cup {None} : op' = AlarmCleanup(i, failing)
      BY <2>3 DEF BeginAlarmCleanup, Failing, Steps
    <3>2. IsOperation(op', "alarm", Background, "read tasks") /\ op'.action = i
      BY <2>3, <3>1, AlarmCleanupType DEF OwnsLock
    <3> QED
      BY <2>1, <2>3, <3>2 DEF SessionsInv, IsOperation, OwnsLock, NoNewSession
  <2> QED
    BY <1>5, <2>2, <2>3
    DEF Alarm, FireAlarm, CheckOwnership, ArmRetry, BeginAlarmCleanup, SettleRetry
<1>6. ASSUME NEW c \in Contexts, OpenSession(c)
      PROVE  SessionsInv' /\ NoNewSession
  <2>1. opened' = opened /\ nextId' = nextId /\ stored' = stored /\ task' = task
    BY <1>6 DEF OpenSession, shared
  <2>2. \/ op' = None
        \/ op' = Revocation(c, None)
        \/ op' = Revocation(c, Reconcile(c).material)
    BY <1>6 DEF OpenSession
  <2>3. op' # None => IsOperation(op', "revoke", c, "advance epoch")
    BY <2>2, ReconcileType, RevocationType
  <2>4. op' # None => op'.kind \notin {"activate", "commit", "alarm"}
    BY <2>3 DEF IsOperation
  <2> QED
    BY <1>1, <2>1, <2>4
<1>7. ASSUME NEW c \in Contexts, GetStatus(c)
      PROVE  SessionsInv' /\ NoNewSession
  BY <1>1, <1>7 DEF GetStatus, shared
<1>8. ASSUME NEW c \in Contexts, Die(c)
      PROVE  SessionsInv' /\ NoNewSession
  <2>1. /\ opened' = opened /\ nextId' = nextId /\ stored' = stored /\ task' = task
        /\ op' = None \/ op' = op
    BY <1>8 DEF Die, Forget, shared
  <2> QED
    BY <1>1, <2>1
<1>9. CASE BrowserRestart
  <2>1. /\ opened' = opened /\ nextId' = nextId /\ stored' = None /\ task' = None /\ op' = None
    <3>1. op # None => op.ctx \in Contexts
      BY KindOfCall
    <3> QED
      BY <1>9, <3>1 DEF BrowserRestart, Forget
  <2> QED
    BY <2>1 DEF SessionsInv, NoNewSession
<1>10. ASSUME NEW c \in Pages, Arrive(c)
       PROVE  SessionsInv' /\ NoNewSession
  <2>1. CASE Prepare(c)
    BY <1>1, <2>1 DEF Prepare, shared
  <2>2. CASE BeginArrival(c)
    <3>1. /\ IsOperation(op', "activate", c, "advance epoch")
          /\ op'.action = nextId + 1 /\ op'.target.sid = nextId + 1
          /\ op'.target.vault = client[c].vault
      BY <2>2, ArrivalType DEF BeginArrival
    <3>2. stored # None => stored.vault = client[c].vault
      BY <2>2 DEF BeginArrival, ActivationIsAllowed
    <3>3. opened' = opened /\ nextId' = nextId + 1 /\ stored' = stored /\ task' = task
      BY <2>2 DEF BeginArrival, shared
    <3> QED
      BY <3>1, <3>2, <3>3, ActivationKeepsSessions DEF Activates
  <2>3. CASE BeginDiscard(c)
    <3>1. op' = None \/ op' = Discarding(c)
      BY <2>3 DEF BeginDiscard
    <3>2. op' = Discarding(c) => IsOperation(op', "discard", c, "read tasks")
      BY <2>3, DiscardingType DEF BeginDiscard
    <3>3. op' # None => op'.kind \notin {"activate", "commit", "alarm"}
      BY <3>1, <3>2 DEF IsOperation
    <3>4. opened' = opened /\ nextId' = nextId /\ stored' = stored /\ task' = task
      BY <2>3 DEF BeginDiscard, shared
    <3> QED
      BY <1>1, <3>3, <3>4
  <2> QED
    BY <1>10, <2>1, <2>2, <2>3 DEF Arrive
<1> QED
  BY <1>2, <1>3, <1>4, <1>5, <1>6, <1>7, <1>8, <1>9, <1>10

LEMMA SessionsInduction == Spec => []SessionsInv
<1>1. Init => SessionsInv
  BY DEF Init, SessionsInv
<1>2. ASSUME TypeInv, SessionsInv, [Next]_vars
      PROVE  SessionsInv'
  <2>1. CASE UNCHANGED vars
    BY <1>2, <2>1 DEF vars, SessionsInv
  <2> QED
    BY <1>2, <2>1, CallKeepsSessions, OtherStepKeepsSessions DEF Next
<1> QED
  BY <1>1, <1>2, TypeInduction, PTL DEF Spec

\* The alarm of a lock action never removes a session that was activated after
\* it, although the cleanup reads the lock task before it removes anything.
THEOREM AlarmsSpareNewerSessions == Spec => StaleAlarmSparesNewerSession
<1>1. SessionsInv => (op # None /\ op.kind = "alarm" /\ stored # None /\ stored' = None
                        => stored.sid <= op.action)
  BY DEF SessionsInv
<1> QED
  BY <1>1, SessionsInduction, PTL DEF StaleAlarmSparesNewerSession

(***************************************************************************)
(* The refinement: Init maps to Init, and every step to Open, to Close or  *)
(* to a stutter.                                                           *)
(***************************************************************************)
LEMMA StepsImplementLifecycle ==
    ASSUME TypeInv, SessionsInv, [Next]_vars
    PROVE  [Lifecycle!Next]_Lifecycle!vars
<1>1. ASSUME NoNewSession
      PROVE  [Lifecycle!Next]_Lifecycle!vars
  BY <1>1 DEF NoNewSession, Lifecycle!Next, Lifecycle!Close, Lifecycle!vars
<1>2. CASE SaveMaterial
  <2>1. op # None /\ op.pc = "save material" /\ op.kind \in {"activate", "commit"}
    BY <1>2, KindOfCall DEF SaveMaterial, At
  <2>2. CASE stored' = stored /\ opened' = opened
    BY <1>1, <2>2 DEF NoNewSession
  <2>3. CASE op.kind = "commit" /\ stored' = op.target /\ opened' = opened
    <3>1. op.target \in Material /\ op.target # None
      BY <2>1, <2>3, KindOfCall, MarkersAssumption DEF WellFormed
    <3>2. stored # None /\ stored.sid = op.target.sid /\ stored.vault = op.target.vault
      BY <2>1, <2>3 DEF SessionsInv, Installing
    <3> QED
      BY <2>3, <3>1, <3>2 DEF Lifecycle!vars
  <2>4. CASE op.kind = "activate" /\ stored' = op.target /\ opened' = op.target.sid
    <3>1. op.target \in Material /\ op.target # None
      BY <2>1, <2>4, KindOfCall, MarkersAssumption DEF WellFormed
    <3>2. op.target.sid \in 1 .. MaxId /\ op.target.vault \in Vaults
      BY <3>1 DEF Material, Ids
    <3>3. op.target.sid > opened /\ (stored # None => stored.vault = op.target.vault)
      BY <2>1, <2>4, SessionTypes DEF SessionsInv
    <3>4. Lifecycle!Open(op.target.sid, op.target.vault)
      BY <2>4, <3>1, <3>3 DEF Lifecycle!Open
    <3> QED
      BY <3>2, <3>4 DEF Lifecycle!Next
  <2> QED
    BY <1>2, <2>1, <2>2, <2>3, <2>4 DEF SaveMaterial
<1>3. CASE SaveTask
  BY <1>1, <1>3 DEF SaveTask, NoNewSession
<1>4. CASE UNCHANGED vars
  BY <1>1, <1>4 DEF vars, NoNewSession
<1> QED
  BY <1>1, <1>2, <1>3, <1>4, CallKeepsSessions, OtherStepKeepsSessions
  DEF Next, OpensNone, NoNewSession

\* The protocol implements the session lifecycle: whatever the contexts hold
\* in memory, whatever fails and whoever dies, a session is opened under a
\* fresh id, over no session of another vault, and never comes back.
THEOREM SessionRefinement == Spec => ImplementsLifecycle
<1>1. Init => Lifecycle!Init
  BY DEF Init, Lifecycle!Init
<1>2. TypeInv /\ SessionsInv /\ [Next]_vars => [Lifecycle!Next]_Lifecycle!vars
  BY StepsImplementLifecycle
<1> QED
  BY <1>1, <1>2, TypeInduction, SessionsInduction, PTL
  DEF Spec, ImplementsLifecycle, Lifecycle!Spec

-----------------------------------------------------------------------------
(***************************************************************************)
(* The payload.  A commit saves the payload before the material, so what   *)
(* has to be known is that its version is newer than the session's.  The   *)
(* versions of a vault are not simply ordered in time: a rollback brings a *)
(* snapshot back, and a mutation that was begun over it may then go on.    *)
(* What makes it hold is that a session that was committed stands for a    *)
(* snapshot that is retired: it is not local, and nothing brings it back.  *)
(***************************************************************************)

\* An arrival that has not stored its vault alone knows the newest version.
Storing == /\ op # None /\ op.kind = "activate" /\ op.vault # None
           /\ op.pc \in {"advance epoch", "save vault"}

Issued == IF Storing THEN nextVersion - 1 ELSE nextVersion

\* A mutation that is persisted may be rolled back; a rollback is under way.
Owes(c, v, n) == /\ client[c].pc = "persisted"
                 /\ client[c].session.vault = v /\ client[c].session.ver = n

Restores(v, n) == /\ op # None /\ op.kind = "rollback"
                  /\ op.target.vault = v /\ op.base = n

Retired(v, n) ==
    /\ n <= Issued /\ snapshot[v] # n
    /\ ~Restores(v, n)
    /\ \A c \in Contexts : ~Owes(c, v, n)

\* Every version in use was issued; no snapshot is owed that is local, and
\* none is owed twice.
SnapshotsInv ==
    /\ \A v \in Vaults : snapshot[v] # None => snapshot[v] <= Issued
    /\ Storing => op.target.ver = nextVersion
    /\ \A v \in Vaults, n \in Versions :
          /\ Restores(v, n) => n <= Issued /\ snapshot[v] # n
          /\ \A c \in Contexts : Owes(c, v, n) =>
                /\ n <= Issued /\ snapshot[v] # n /\ ~Restores(v, n)
                /\ \A d \in Contexts \ {c} : ~Owes(d, v, n)

\* The session a context read is the one stored, unless it was replaced or was
\* committed since.
Follows(m) == /\ m.sid <= opened
              /\ stored # None /\ stored.sid = m.sid =>
                    stored = m \/ Retired(m.vault, m.ver)

ClientInv(c) ==
    /\ client[c].pc = "mutating" => Follows(client[c].session)
    /\ client[c].pc = "persisted" =>
          /\ client[c].session.ver < client[c].ver
          /\ client[c].session.sid <= opened
          /\ stored # None /\ stored.sid = client[c].session.sid =>
                stored = client[c].session

MutationsInv ==
    /\ \A c \in Contexts : ClientInv(c)
    /\ op # None /\ op.kind = "persist" => Follows(op.target)

Saving == op # None /\ op.pc \in {"save payload", "save material"}

PayloadInv ==
    /\ Saving /\ op.kind = "commit" =>
          /\ stored # None /\ stored.sid = op.target.sid /\ stored.vault = op.target.vault
          /\ stored.ver < op.target.ver
          /\ Retired(stored.vault, stored.ver)
    /\ At("save material") => payload = op.target
    /\ PayloadNotOlder

VersionsInv == SnapshotsInv /\ MutationsInv /\ PayloadInv

LEMMA VersionTypes ==
    ASSUME TypeInv
    PROVE  /\ nextVersion \in Nat /\ Issued \in Int /\ Issued <= nextVersion
           /\ opened \in Nat /\ Versions \subseteq Nat /\ None \notin Versions
           /\ \A v \in Vaults : snapshot[v] \in Versions \cup {None}
           /\ \A c \in Contexts : client[c].pc \in {"mutating", "persisted"} =>
                 /\ client[c].session \in Material
                 /\ client[c].session.sid \in Nat /\ client[c].session.ver \in Versions
                 /\ client[c].session.vault \in Vaults
           /\ \A c \in Contexts : client[c].pc = "persisted" => client[c].ver \in Versions
           /\ op # None => op \in Operations
           /\ op # None /\ op.kind \in {"activate", "commit", "persist", "rollback"} =>
                 /\ op.target \in Material /\ op.target # None
                 /\ op.target.sid \in Nat /\ op.target.ver \in Versions
                 /\ op.target.vault \in Vaults
           /\ op # None /\ op.kind = "rollback" => op.base \in Versions
           /\ stored # None => /\ stored \in Material /\ stored.sid \in Nat
                               /\ stored.ver \in Versions /\ stored.vault \in Vaults
           /\ payload # None => payload \in Material /\ payload.ver \in Versions
<1>1. Versions \subseteq Nat /\ Ids \subseteq Nat
  BY DEF Versions, Ids
<1>2. \A m \in Material : /\ m # None /\ m.sid \in Ids /\ m.ver \in Versions
                          /\ m.vault \in Vaults
  BY MarkersAssumption DEF Material
<1>3. nextVersion \in Nat /\ Issued \in Int /\ Issued <= nextVersion /\ opened \in Nat
  BY <1>1, ConstantsAssumption DEF TypeInv, TypeOK, Issued
<1>4. None \notin Versions
  BY MarkersAssumption
<1>5. \A v \in Vaults : snapshot[v] \in Versions \cup {None}
  BY DEF TypeInv, TypeOK
<1>6. \A c \in Contexts : client[c] \in Clients
  BY DEF TypeInv, TypeOK
<1>7. \A c \in Contexts : /\ client[c].pc \in {"mutating", "persisted"}
                                => client[c].session \in Material
                          /\ client[c].pc = "persisted" => client[c].ver \in Versions
  BY <1>6 DEF Clients, Idle
<1>8. /\ stored # None => stored \in Material
      /\ payload # None => payload \in Material
  BY DEF TypeInv, TypeOK
<1>9. op # None => WellFormed(op)
  BY DEF TypeInv
<1>10. op # None =>
          /\ op \in Operations
          /\ op.kind \in {"activate", "commit", "persist", "rollback"} => op.target \in Material
          /\ op.kind = "rollback" => op.base \in Versions
  BY <1>9 DEF WellFormed
<1> QED
  BY <1>1, <1>2, <1>3, <1>4, <1>5, <1>7, <1>8, <1>10

\* A step that brings no snapshot in but a new one, and owes none that was not
\* owed.
Settled ==
    /\ Issued' >= Issued
    /\ Storing' => op'.target.ver = nextVersion'
    /\ \A v \in Vaults : \/ snapshot'[v] \in {snapshot[v], None}
                         \/ Issued < snapshot'[v] /\ snapshot'[v] <= Issued'
    /\ \A c \in Contexts, v \in Vaults, n \in Versions : Owes(c, v, n)' => Owes(c, v, n)
    /\ \A v \in Vaults, n \in Versions : Restores(v, n)' => Restores(v, n)

\* What is retired stays retired.
Steady == \A v \in Vaults, n \in Versions : Retired(v, n) => Retired(v, n)'

LEMMA SettledKeepsSnapshots ==
    ASSUME TypeInv, TypeInv', SnapshotsInv, Settled
    PROVE  SnapshotsInv' /\ Steady
<1>1. /\ Issued \in Int /\ Issued' \in Int /\ Issued <= Issued'
      /\ Versions \subseteq Nat /\ None \notin Versions
  <2>1. nextVersion' \in Versions
    BY DEF TypeInv, TypeOK
  <2>2. Issued' \in Int
    BY <2>1 DEF Issued, Versions
  <2> QED
    BY <2>2, VersionTypes DEF Settled
<1>2. \A n \in Versions : n <= Issued => n <= Issued'
  BY <1>1
<1>3. ASSUME NEW v \in Vaults, NEW n \in Versions, snapshot[v] # n, n <= Issued
      PROVE  snapshot'[v] # n
  BY <1>1, <1>3 DEF Settled
<1>4. ASSUME NEW v \in Vaults, snapshot'[v] # None
      PROVE  snapshot'[v] <= Issued'
  BY <1>2, <1>4, VersionTypes DEF Settled, SnapshotsInv
<1>5. ASSUME NEW v \in Vaults, NEW n \in Versions, Restores(v, n)'
      PROVE  n <= Issued' /\ snapshot'[v] # n
  BY <1>2, <1>3, <1>5 DEF Settled, SnapshotsInv
<1>6. ASSUME NEW v \in Vaults, NEW n \in Versions, NEW c \in Contexts, Owes(c, v, n)'
      PROVE  /\ n <= Issued' /\ snapshot'[v] # n /\ ~Restores(v, n)'
             /\ \A d \in Contexts \ {c} : ~Owes(d, v, n)'
  BY <1>2, <1>3, <1>6 DEF Settled, SnapshotsInv
<1>7. SnapshotsInv'
  BY <1>4, <1>5, <1>6 DEF SnapshotsInv, Settled
<1>8. ASSUME NEW v \in Vaults, NEW n \in Versions, Retired(v, n)
      PROVE  Retired(v, n)'
  BY <1>2, <1>3, <1>8 DEF Settled, Retired
<1> QED
  BY <1>7, <1>8 DEF Steady

\* A step after which every mutation goes on, if at all, over what it had.
Undisturbed ==
    /\ opened' = opened /\ (stored' = stored \/ stored' = None)
    /\ \A c \in Contexts : client'[c].pc \in {"mutating", "persisted"}
                              => client'[c] = client[c]

LEMMA FollowsOn ==
    ASSUME Steady, opened' = opened, stored' = stored \/ stored' = None,
           NEW m \in Material, Follows(m)
    PROVE  m.sid <= opened' /\ (stored' # None /\ stored'.sid = m.sid =>
                                   stored' = m \/ Retired(m.vault, m.ver)')
<1>1. m.vault \in Vaults /\ m.ver \in Versions
  BY DEF Material
<1> QED
  BY <1>1 DEF Follows, Steady

LEMMA ClientStays ==
    ASSUME TypeInv, Steady, opened' = opened, stored' = stored \/ stored' = None,
           NEW c \in Contexts, ClientInv(c), client'[c] = client[c]
    PROVE  ClientInv(c)'
<1>1. ASSUME client'[c].pc = "mutating"
      PROVE  Follows(client[c].session)'
  <2>1. PICK m \in Material : Follows(m) /\ client'[c].session = m
    BY <1>1, VersionTypes DEF ClientInv
  <2>2. m.sid <= opened' /\ (stored' # None /\ stored'.sid = m.sid =>
                                stored' = m \/ Retired(m.vault, m.ver)')
    BY <2>1, FollowsOn
  <2> QED
    BY <2>1, <2>2 DEF Follows, Retired, Owes, Restores
<1>2. ASSUME client'[c].pc = "persisted"
      PROVE  /\ client'[c].session.ver < client'[c].ver
             /\ client'[c].session.sid <= opened'
             /\ stored' # None /\ stored'.sid = client'[c].session.sid =>
                   stored' = client'[c].session
  BY <1>2 DEF ClientInv
<1> QED
  BY <1>1, <1>2 DEF ClientInv

LEMMA MutationsStay ==
    ASSUME TypeInv, MutationsInv, Steady, Undisturbed,
           op' # None /\ op'.kind = "persist" =>
              \/ op # None /\ op.kind = "persist" /\ op'.target = op.target
              \/ \E c \in Contexts : /\ client[c].pc = "mutating"
                                     /\ op'.target = client[c].session
    PROVE  MutationsInv'
<1>1. opened' = opened /\ (stored' = stored \/ stored' = None)
  BY DEF Undisturbed
<1>2. ASSUME NEW c \in Contexts
      PROVE  ClientInv(c)'
  <2>1. CASE client'[c].pc \in {"mutating", "persisted"}
    <3>1. client'[c] = client[c] /\ ClientInv(c)
      BY <2>1 DEF Undisturbed, MutationsInv
    <3> QED
      BY <1>1, <3>1, ClientStays
  <2>2. CASE client'[c].pc \notin {"mutating", "persisted"}
    BY <2>2 DEF ClientInv
  <2> QED
    BY <2>1, <2>2
<1>3. ASSUME op' # None, op'.kind = "persist"
      PROVE  Follows(op.target)'
  <2>1. PICK m \in Material : Follows(m) /\ op'.target = m
    BY <1>3, VersionTypes DEF MutationsInv, ClientInv
  <2>2. m.sid <= opened' /\ (stored' # None /\ stored'.sid = m.sid =>
                                stored' = m \/ Retired(m.vault, m.ver)')
    BY <1>1, <2>1, FollowsOn
  <2> QED
    BY <2>1, <2>2 DEF Follows, Retired, Owes, Restores
<1> QED
  BY <1>2, <1>3 DEF MutationsInv


(***************************************************************************)
(* A calm step neither saves anything nor begins a mutation: its operation *)
(* ends, goes on before its saves, or becomes one that only removes.       *)
(***************************************************************************)
OpCalm ==
    \/ op' = None
    \/ op' = op /\ stored' = stored /\ payload' = payload
    \/ op'.kind \notin {"commit", "persist", "rollback"} /\ op'.pc # "save material" /\ ~Storing'
    \/ /\ op # None /\ op'.kind = op.kind /\ op'.target = op.target /\ op'.base = op.base
       /\ op'.pc # "save material" /\ (op.kind = "commit" => op'.pc # "save payload")
       /\ Storing' => Storing

Calm ==
    /\ nextVersion' = nextVersion /\ Undisturbed
    /\ payload' = payload \/ payload' = None
    /\ \A v \in Vaults : snapshot'[v] \in {snapshot[v], None}
    /\ OpCalm

LEMMA CalmKeepsVersions ==
    ASSUME TypeInv, TypeInv', VersionsInv, Calm
    PROVE  VersionsInv'
<1>1. Storing' => Storing /\ op'.target = op.target
  BY DEF Calm, OpCalm, Storing
<1>2. Issued' >= Issued
  BY <1>1, VersionTypes DEF Calm, Issued
<1>3. Storing' => op'.target.ver = nextVersion'
  BY <1>1 DEF Calm, VersionsInv, SnapshotsInv
<1>4. \A c \in Contexts, v \in Vaults, n \in Versions : Owes(c, v, n)' => Owes(c, v, n)
  BY DEF Calm, Undisturbed, Owes
<1>5. \A v \in Vaults, n \in Versions : Restores(v, n)' => Restores(v, n)
  BY DEF Calm, OpCalm, Restores
<1>6. Settled
  BY <1>2, <1>3, <1>4, <1>5 DEF Calm, Settled
<1>7. SnapshotsInv' /\ Steady
  BY <1>6, SettledKeepsSnapshots DEF VersionsInv
<1>8. MutationsInv'
  <2>1. op' # None /\ op'.kind = "persist" =>
           op # None /\ op.kind = "persist" /\ op'.target = op.target
    BY DEF Calm, OpCalm
  <2>2. MutationsInv /\ Undisturbed
    BY DEF VersionsInv, Calm
  <2> QED
    BY <1>7, <2>1, <2>2, MutationsStay
<1>9. PayloadInv'
  <2>1. ASSUME op' # None, \/ op'.pc = "save material"
                           \/ op'.kind = "commit" /\ op'.pc = "save payload"
        PROVE  op' = op /\ stored' = stored /\ payload' = payload
    BY <2>1 DEF Calm, OpCalm
  <2>2. ASSUME Saving', op'.kind = "commit"
        PROVE  /\ stored' # None /\ stored'.sid = op'.target.sid
               /\ stored'.vault = op'.target.vault
               /\ stored'.ver < op'.target.ver
               /\ Retired(stored.vault, stored.ver)'
    <3>1. op' = op /\ stored' = stored /\ Saving
      BY <2>1, <2>2 DEF Saving
    <3>2. /\ stored # None /\ stored.sid = op.target.sid /\ stored.vault = op.target.vault
          /\ stored.ver < op.target.ver
          /\ Retired(stored.vault, stored.ver)
      BY <2>2, <3>1 DEF VersionsInv, PayloadInv
    <3>3. stored.vault \in Vaults /\ stored.ver \in Versions
      BY <3>2, VersionTypes
    <3>4. \A v \in Vaults, n \in Versions : Retired(v, n) => Retired(v, n)'
      BY <1>7 DEF Steady
    <3>5. Retired(stored.vault, stored.ver)'
      BY <3>1, <3>2, <3>3, <3>4 DEF Retired, Restores, Owes
    <3> QED
      BY <3>1, <3>2, <3>5
  <2>3. At("save material")' => payload' = op'.target
    BY <2>1 DEF At, VersionsInv, PayloadInv
  <2>4. PayloadNotOlder'
    BY DEF Calm, Undisturbed, VersionsInv, PayloadInv, PayloadNotOlder
  <2> QED
    BY <2>2, <2>3, <2>4 DEF PayloadInv
<1> QED
  BY <1>7, <1>8, <1>9 DEF VersionsInv

\* An operation that goes on to a call that is not one of its saves.
LEMMA ContinuesCalmly ==
    ASSUME op # None, NEW pc, Continues(pc),
           pc \notin {"save material", "save vault"},
           pc = "save payload" => op.kind # "commit",
           pc = "advance epoch" => op.kind # "activate"
    PROVE  OpCalm
BY DEF Continues, OpCalm, Storing

LEMMA GoesOnCalmly ==
    ASSUME TypeInv, op # None, NEW pc \in CallsOf(op.kind),
           \/ Goto(pc) \/ (\E f \in BOOLEAN : Proceed(pc, f)) \/ (\E f : GoesOn(pc, f)),
           pc \notin {"save material", "save vault"},
           pc = "save payload" => op.kind # "commit",
           pc = "advance epoch" => op.kind # "activate"
    PROVE  OpCalm
<1>1. op \in Operations /\ pc \in Pcs
  BY KindOfCall, CallsArePcs
<1>2. Continues(pc)
  BY <1>1, GotoType, ProceedType, GoesOnType
<1> QED
  BY <1>2, ContinuesCalmly

LEMMA RevokesCalmly ==
    ASSUME TypeInv, op # None,
           op' = Revocation(op.ctx, op.known) \/ op' = Removal(op.ctx, op.known)
    PROVE  OpCalm
<1>1. op.ctx \in Contexts /\ op.known \in Material \cup {None}
  BY KindOfCall
<1>2. \/ IsOperation(op', "revoke", op.ctx, "advance epoch")
      \/ IsOperation(op', "revoke", op.ctx, "remove material")
  BY <1>1, RevocationType, RemovalType
<1> QED
  BY <1>2 DEF IsOperation, OpCalm, Storing


\* A call that saves neither the payload, nor the material, nor a snapshot.
LEMMA CalmCall ==
    ASSUME nextVersion' = nextVersion, opened' = opened, client' = client,
           stored' = stored \/ stored' = None, payload' = payload \/ payload' = None,
           \A v \in Vaults : snapshot'[v] \in {snapshot[v], None}, OpCalm
    PROVE  Calm
BY DEF Calm, Undisturbed

LEMMA ActivationCallIsCalm ==
    ASSUME TypeInv, AdvanceEpoch \/ SaveTask \/ ArmAlarm
    PROVE  Calm
<1> USE DEF At
<1>1. /\ nextVersion' = nextVersion /\ opened' = opened /\ client' = client
      /\ stored' = stored /\ payload' = payload /\ snapshot' = snapshot
  BY DEF AdvanceEpoch, SaveTask, ArmAlarm
<1>2. CASE AdvanceEpoch
  <2>1. op # None /\ op.pc = "advance epoch"
    BY <1>2 DEF AdvanceEpoch
  <2> DEFINE Nexts == {"save task", "save snapshot", "restore snapshot", "read tasks",
                       "remove material"}
  <2>2. \/ op' = None \/ op' = Revocation(op.ctx, op.known)
        \/ Goto("save vault") /\ op.kind = "activate" /\ op.vault # None
        \/ \E next \in CallsOf(op.kind) \cap Nexts : Goto(next)
        \/ \E next \in CallsOf(op.kind) \cap Nexts, b \in {TRUE, FALSE} :
              Proceed(next, op.failed \/ b)
    BY <1>2, <2>1, KindOfCall DEF AdvanceEpoch, Finish, CallsOf, Cleanups
  <2>3. ASSUME op' = None \/ op' = Revocation(op.ctx, op.known)
        PROVE  OpCalm
    BY <2>1, <2>3, RevokesCalmly DEF OpCalm
  <2>4. ASSUME Goto("save vault"), op.kind = "activate", op.vault # None
        PROVE  OpCalm
    <3>1. op \in Operations
      BY <2>1, KindOfCall
    <3>2. op' = [op EXCEPT !.pc = "save vault"]
      BY <2>4 DEF Goto
    <3>3. /\ op'.kind = op.kind /\ op'.target = op.target /\ op'.base = op.base
          /\ op'.pc = "save vault"
      BY <3>1, <3>2 DEF Operations
    <3> QED
      BY <2>1, <2>4, <3>3 DEF OpCalm, Storing
  <2>5. ASSUME \/ \E next \in CallsOf(op.kind) \cap Nexts : Goto(next)
               \/ \E next \in CallsOf(op.kind) \cap Nexts, b \in {TRUE, FALSE} :
                     Proceed(next, op.failed \/ b)
        PROVE  OpCalm
    <3>1. PICK next \in CallsOf(op.kind) :
             /\ next \in Nexts
             /\ Goto(next) \/ \E f \in BOOLEAN : Proceed(next, f)
      <4>1. \A b \in {TRUE, FALSE} : (op.failed \/ b) \in BOOLEAN
        OBVIOUS
      <4> QED
        BY <2>5, <4>1, Zenon
    <3>2. next \notin {"save material", "save vault", "save payload", "advance epoch"}
      BY <3>1
    <3> QED
      BY <2>1, <3>1, <3>2, GoesOnCalmly
  <2>6. OpCalm
    BY <2>2, <2>3, <2>4, <2>5
  <2> QED
    BY <1>1, <2>6, CalmCall
<1>3. CASE SaveTask
  <2>1. op # None /\ op.kind = "activate"
    BY <1>3, KindOfCall DEF SaveTask
  <2>2. \E next \in CallsOf(op.kind) \cap {"arm alarm", "cancel alarm", "remove material"} :
           Goto(next)
    BY <1>3, <2>1 DEF SaveTask, AfterFailedInstall, CallsOf
  <2>3. OpCalm
    BY <2>1, <2>2, GoesOnCalmly
  <2> QED
    BY <1>1, <2>3, CalmCall
<1>4. CASE ArmAlarm
  <2>1. op # None /\ op.kind = "activate"
    BY <1>4, KindOfCall DEF ArmAlarm
  <2>2. \E next \in CallsOf(op.kind) \cap {"save payload", "cancel alarm", "remove material"} :
           Goto(next)
    BY <1>4, <2>1 DEF ArmAlarm, AfterFailedInstall, FirstSave, CallsOf
  <2>3. OpCalm
    BY <2>1, <2>2, GoesOnCalmly
  <2> QED
    BY <1>1, <2>3, CalmCall
<1> QED
  BY <1>2, <1>3, <1>4

LEMMA CleanupCallIsCalm ==
    ASSUME TypeInv, \/ ReadTasks \/ RemoveMaterial \/ RemovePayload \/ RemoveVault
                    \/ RemoveTask \/ CancelAlarm \/ DiscardVault
    PROVE  Calm
<1> USE DEF At
<1>1. /\ op # None
      /\ nextVersion' = nextVersion /\ opened' = opened /\ client' = client
      /\ stored' = stored \/ stored' = None
      /\ payload' = payload \/ payload' = None
  BY DEF ReadTasks, RemoveMaterial, RemovePayload, RemoveVault, RemoveTask, CancelAlarm,
         DiscardVault, shared
<1>2. \A v \in Vaults : snapshot'[v] \in {snapshot[v], None}
  <2>1. \/ snapshot' = snapshot
        \/ snapshot' = [snapshot EXCEPT ![op.vault] = None]
    BY DEF ReadTasks, RemoveMaterial, RemovePayload, RemoveVault, RemoveTask, CancelAlarm,
           DiscardVault, shared
  <2>2. snapshot \in [Vaults -> Versions \cup {None}]
    BY DEF TypeInv, TypeOK
  <2> QED
    BY <2>1, <2>2
<1>3. CASE ReadTasks
  <2>1. /\ op.kind \in Cleanups \cup {"discard"} /\ op \in Operations
        /\ task \in LockTask \cup {None}
    BY <1>1, <1>3, KindOfCall DEF ReadTasks, TypeInv, TypeOK
  <2>2. op' = None \/ \E f : Looked(f)
    BY <1>3 DEF ReadTasks, Finish
  <2>3. (\E f : Looked(f)) => Continues(AfterTasks)
    BY <2>1, LookedType
  <2>4. /\ AfterTasks \notin {"save material", "save vault", "save payload"}
        /\ op.kind # "activate"
    BY <2>1 DEF AfterTasks, Cleanups
  <2>5. OpCalm
    BY <1>1, <2>2, <2>3, <2>4, ContinuesCalmly DEF OpCalm
  <2> QED
    BY <1>1, <1>2, <2>5, CalmCall
<1>4. CASE RemoveMaterial
  <2>1. Continues("remove payload")
    BY <1>1, <1>4, KindOfCall, MaterialRemovedType DEF RemoveMaterial
  <2>2. OpCalm
    BY <1>1, <2>1, ContinuesCalmly
  <2> QED
    BY <1>1, <1>2, <2>2, CalmCall
<1>5. CASE RemovePayload \/ RemoveVault \/ RemoveTask \/ CancelAlarm
  <2> DEFINE Nexts == {"remove vault", "remove task", "cancel alarm", "discard vault",
                       "advance epoch"}
  <2>1. \/ op' = None
        \/ \E next \in CallsOf(op.kind) \cap Nexts :
              /\ next = "advance epoch" => op.kind # "activate"
              /\ \/ Goto(next) \/ (\E f : GoesOn(next, f))
                 \/ \E f \in BOOLEAN : Proceed(next, f)
    BY <1>1, <1>5, KindOfCall
    DEF RemovePayload, RemoveVault, RemoveTask, CancelAlarm, Finish, CallsOf, Cleanups
  <2>2. ASSUME NEW next \in CallsOf(op.kind), next \in Nexts,
               next = "advance epoch" => op.kind # "activate",
               \/ Goto(next) \/ (\E f : GoesOn(next, f))
               \/ \E f \in BOOLEAN : Proceed(next, f)
        PROVE  OpCalm
    <3>1. next \notin {"save material", "save vault", "save payload"}
      BY <2>2
    <3> QED
      BY <1>1, <2>2, <3>1, GoesOnCalmly
  <2>3. OpCalm
    BY <2>1, <2>2 DEF OpCalm
  <2> QED
    BY <1>1, <1>2, <2>3, CalmCall
<1>6. CASE DiscardVault
  <2>1. OpCalm
    BY <1>6 DEF DiscardVault, Finish, OpCalm
  <2> QED
    BY <1>1, <1>2, <2>1, CalmCall
<1> QED
  BY <1>3, <1>4, <1>5, <1>6


\* The saves of an activation: the vault that arrives gets the newest version.
LEMMA SaveVaultKeepsVersions ==
    ASSUME TypeInv, TypeInv', VersionsInv, SaveVault
    PROVE  VersionsInv'
<1> USE DEF At
<1>1. /\ op # None /\ op.kind = "activate" /\ op.pc = "save vault" /\ op \in Operations
      /\ nextVersion' = nextVersion /\ opened' = opened /\ client' = client
      /\ stored' = stored /\ payload' = payload
  BY KindOfCall DEF SaveVault
<1>2. ASSUME OpCalm, \A v \in Vaults : snapshot'[v] = snapshot[v]
      PROVE  VersionsInv'
  BY <1>1, <1>2, CalmCall, CalmKeepsVersions
<1>3. CASE (op' = None \/ op' = Removal(op.ctx, op.known)) /\ snapshot' = snapshot
  <2>1. OpCalm
    BY <1>1, <1>3, RevokesCalmly DEF OpCalm
  <2> QED
    BY <1>2, <1>3, <2>1
<1>4. CASE Goto("save task") /\ snapshot' = [snapshot EXCEPT ![op.vault] = op.target.ver]
  <2>1. "save task" \in CallsOf(op.kind)
    BY <1>1 DEF CallsOf
  <2>2. op'.kind = "activate" /\ op'.pc = "save task"
    BY <1>1, <1>4, <2>1, GotoCarries
  <2>3. OpCalm
    BY <1>1, <1>4, <2>1, GoesOnCalmly
  <2>4. snapshot \in [Vaults -> Versions \cup {None}]
    BY DEF TypeInv, TypeOK
  <2>5. CASE op.vault = None
    <3>1. op.vault \notin Vaults
      BY <2>5, MarkersAssumption
    <3>2. \A v \in Vaults : snapshot'[v] = snapshot[v]
      BY <1>4, <2>4, <3>1
    <3> QED
      BY <1>2, <2>3, <3>2
  <2>6. CASE op.vault # None
    <3>1. Storing /\ ~Storing'
      BY <1>1, <2>2, <2>6 DEF Storing
    <3>2. op.target.ver = nextVersion
      BY <3>1 DEF VersionsInv, SnapshotsInv
    <3>3. Issued = nextVersion - 1 /\ Issued' = nextVersion /\ nextVersion \in Nat
      BY <1>1, <3>1, VersionTypes DEF Issued
    <3>4. \A v \in Vaults : snapshot'[v] \in {snapshot[v], nextVersion}
      BY <1>4, <2>4, <3>2
    <3>5. \A c \in Contexts, v \in Vaults, n \in Versions : Owes(c, v, n)' => Owes(c, v, n)
      BY <1>1 DEF Owes
    <3>6. \A v \in Vaults, n \in Versions : Restores(v, n)' => Restores(v, n)
      BY <2>2 DEF Restores
    <3>7. Settled
      BY <3>1, <3>3, <3>4, <3>5, <3>6 DEF Settled
    <3>8. SnapshotsInv' /\ Steady
      BY <3>7, SettledKeepsSnapshots DEF VersionsInv
    <3>9. MutationsInv'
      <4>1. Undisturbed /\ MutationsInv
        BY <1>1 DEF Undisturbed, VersionsInv
      <4>2. ~(op' # None /\ op'.kind = "persist")
        BY <2>2
      <4> QED
        BY <3>8, <4>1, <4>2, MutationsStay
    <3>10. PayloadInv'
      <4>1. PayloadNotOlder'
        BY <1>1 DEF PayloadNotOlder, VersionsInv, PayloadInv
      <4> QED
        BY <2>2, <4>1 DEF PayloadInv, Saving
    <3> QED
      BY <3>8, <3>9, <3>10 DEF VersionsInv
  <2> QED
    BY <2>5, <2>6
<1> QED
  BY <1>3, <1>4 DEF SaveVault

\* A save that fails takes the operation to the removal of what is there.
LEMMA FailedSaveIsCalm ==
    ASSUME TypeInv, op # None, op.pc \in {"save payload", "save material"}, AfterFailedSave
    PROVE  OpCalm
<1>1. op.kind \in {"activate", "commit"}
  BY KindOfCall
<1>2. CASE op.kind = "commit"
  BY <1>2, RevokesCalmly DEF AfterFailedSave
<1>3. CASE op.kind = "activate"
  <2>1. "remove material" \in CallsOf(op.kind)
    BY <1>3 DEF CallsOf
  <2>2. Goto("remove material")
    BY <1>3 DEF AfterFailedSave
  <2> QED
    BY <2>1, <2>2, GoesOnCalmly
<1> QED
  BY <1>1, <1>2, <1>3

LEMMA SavePayloadKeepsVersions ==
    ASSUME TypeInv, TypeInv', SessionsInv, VersionsInv, SavePayload
    PROVE  VersionsInv'
<1> USE DEF At
<1>1. /\ op # None /\ op.kind \in {"activate", "commit"} /\ op.pc = "save payload"
      /\ nextVersion' = nextVersion /\ opened' = opened /\ client' = client
      /\ stored' = stored /\ snapshot' = snapshot
  BY KindOfCall DEF SavePayload
<1>2. CASE AfterFailedSave /\ payload' = payload
  <2>1. OpCalm
    BY <1>1, <1>2, FailedSaveIsCalm
  <2> QED
    BY <1>1, <1>2, <2>1, CalmCall, CalmKeepsVersions
<1>3. CASE Goto("save material") /\ payload' = op.target
  <2>1. "save material" \in CallsOf(op.kind)
    BY <1>1 DEF CallsOf
  <2>2. op'.kind = op.kind /\ op'.pc = "save material" /\ op'.target = op.target
    BY <1>1, <1>3, <2>1, GotoCarries
  <2>3. ~Storing /\ ~Storing'
    BY <1>1, <2>2 DEF Storing
  <2>4. Issued' = Issued /\ Issued' >= Issued
    BY <1>1, <2>3, VersionTypes DEF Issued
  <2>5. \A c \in Contexts, v \in Vaults, n \in Versions : Owes(c, v, n)' => Owes(c, v, n)
    BY <1>1 DEF Owes
  <2>6. \A v \in Vaults, n \in Versions : Restores(v, n)' => Restores(v, n)
    BY <1>1, <2>2 DEF Restores
  <2>7. Settled
    BY <1>1, <2>3, <2>4, <2>5, <2>6 DEF Settled
  <2>8. SnapshotsInv' /\ Steady
    BY <2>7, SettledKeepsSnapshots DEF VersionsInv
  <2>9. MutationsInv'
    <3>1. Undisturbed /\ MutationsInv
      BY <1>1 DEF Undisturbed, VersionsInv
    <3>2. ~(op' # None /\ op'.kind = "persist")
      BY <1>1, <2>2
    <3> QED
      BY <2>8, <3>1, <3>2, MutationsStay
  <2>10. ASSUME op.kind = "commit"
         PROVE  /\ stored # None /\ stored.sid = op.target.sid
                /\ stored.vault = op.target.vault
                /\ stored.ver < op.target.ver
                /\ Retired(stored.vault, stored.ver)'
    <3>1. /\ stored # None /\ stored.sid = op.target.sid
          /\ stored.vault = op.target.vault
          /\ stored.ver < op.target.ver
          /\ Retired(stored.vault, stored.ver)
      BY <1>1, <2>10 DEF VersionsInv, PayloadInv, Saving
    <3>2. stored.vault \in Vaults /\ stored.ver \in Versions
      BY <3>1, VersionTypes
    <3>3. \A v \in Vaults, n \in Versions : Retired(v, n) => Retired(v, n)'
      BY <2>8 DEF Steady
    <3>4. Retired(stored.vault, stored.ver)'
      BY <1>1, <3>1, <3>2, <3>3 DEF Retired, Restores, Owes
    <3> QED
      BY <3>1, <3>4
  <2>11. ASSUME op.kind = "activate", stored # None
         PROVE  stored.sid # op.target.sid
    <3>1. op.target.sid = nextId /\ opened < nextId /\ stored.sid <= opened
      BY <1>1, <2>11 DEF SessionsInv
    <3> QED
      BY <2>11, <3>1, SessionTypes
  <2>12. PayloadNotOlder'
    <3>1. ASSUME stored # None, op.target.sid = stored.sid
          PROVE  op.target.vault = stored.vault /\ op.target.ver >= stored.ver
      <4>1. op.kind = "commit"
        BY <1>1, <2>11, <3>1
      <4>2. stored.vault = op.target.vault /\ stored.ver < op.target.ver
        BY <2>10, <4>1
      <4>3. stored.ver \in Nat /\ op.target.ver \in Nat
        BY <1>1, <3>1, VersionTypes
      <4> QED
        BY <4>2, <4>3
    <3> QED
      BY <1>1, <1>3, <3>1 DEF PayloadNotOlder
  <2>13. PayloadInv'
    BY <1>1, <1>3, <2>2, <2>10, <2>12 DEF PayloadInv
  <2> QED
    BY <2>8, <2>9, <2>13 DEF VersionsInv
<1> QED
  BY <1>2, <1>3 DEF SavePayload

LEMMA SaveMaterialKeepsVersions ==
    ASSUME TypeInv, TypeInv', SessionsInv, VersionsInv, SaveMaterial
    PROVE  VersionsInv'
<1> USE DEF At
<1>1. /\ op # None /\ op.kind \in {"activate", "commit"} /\ op.pc = "save material"
      /\ nextVersion' = nextVersion /\ snapshot' = snapshot /\ payload' = payload
      /\ payload = op.target
  BY KindOfCall DEF SaveMaterial, VersionsInv, PayloadInv
<1>2. CASE AfterFailedSave /\ stored' = stored /\ opened' = opened /\ client' = client
  <2>1. OpCalm
    BY <1>1, <1>2, FailedSaveIsCalm
  <2> QED
    BY <1>1, <1>2, <2>1, CalmCall, CalmKeepsVersions
<1>3. ~Storing
  BY <1>1 DEF Storing
<1>4. ASSUME stored' = op.target,
             op' # None => op'.kind = "commit" /\ op'.pc = "advance epoch",
             \A c \in Contexts : client'[c].pc \in {"mutating", "persisted"}
                                     => client'[c] = client[c],
             \A c \in Contexts : ClientInv(c)'
      PROVE  VersionsInv'
  <2>1. ~Storing' /\ \A v \in Vaults, n \in Versions : ~Restores(v, n)'
    BY <1>4 DEF Storing, Restores
  <2>2. Issued' = Issued /\ Issued' >= Issued
    BY <1>1, <1>3, <2>1, VersionTypes DEF Issued
  <2>3. \A c \in Contexts, v \in Vaults, n \in Versions : Owes(c, v, n)' => Owes(c, v, n)
    BY <1>4 DEF Owes
  <2>4. Settled
    BY <1>1, <2>1, <2>2, <2>3 DEF Settled
  <2>5. SnapshotsInv'
    BY <2>4, SettledKeepsSnapshots DEF VersionsInv
  <2>6. MutationsInv'
    BY <1>4 DEF MutationsInv
  <2>7. PayloadNotOlder'
    <3>1. op.target.ver \in Nat
      BY <1>1, VersionTypes
    <3>2. op.target.ver >= op.target.ver
      BY <3>1
    <3> QED
      BY <1>1, <1>4, <3>2 DEF PayloadNotOlder
  <2>8. PayloadInv'
    BY <1>4, <2>7 DEF PayloadInv, Saving
  <2> QED
    BY <2>5, <2>6, <2>8 DEF VersionsInv
<1>5. CASE /\ op.kind = "commit" /\ stored' = op.target /\ Goto("advance epoch")
           /\ opened' = opened /\ client' = client
  <2>1. "advance epoch" \in CallsOf(op.kind)
    BY <1>5 DEF CallsOf
  <2>2. op'.kind = "commit" /\ op'.pc = "advance epoch"
    BY <1>1, <1>5, <2>1, GotoCarries
  <2>3. /\ stored # None /\ stored.sid = op.target.sid
        /\ Retired(stored.vault, stored.ver)
    BY <1>1, <1>5 DEF VersionsInv, PayloadInv, Saving
  <2>4. stored.vault \in Vaults /\ stored.ver \in Versions
    BY <2>3, VersionTypes
  <2>5. ~Storing' /\ \A v \in Vaults, n \in Versions : ~Restores(v, n)'
    BY <2>2 DEF Storing, Restores
  <2>6. Issued' = Issued /\ Issued' >= Issued
    BY <1>1, <1>3, <2>5, VersionTypes DEF Issued
  <2>7. \A c \in Contexts, v \in Vaults, n \in Versions : Owes(c, v, n)' => Owes(c, v, n)
    BY <1>5 DEF Owes
  <2>8. Steady
    <3>1. Settled
      BY <1>1, <2>5, <2>6, <2>7 DEF Settled
    <3> QED
      BY <3>1, SettledKeepsSnapshots DEF VersionsInv
  <2>9. ASSUME NEW c \in Contexts
        PROVE  ClientInv(c)'
    <3>1. ClientInv(c) /\ client'[c] = client[c]
      BY <1>5 DEF VersionsInv, MutationsInv
    <3>2. ASSUME client'[c].pc = "mutating"
          PROVE  Follows(client[c].session)'
      <4>1. PICK m \in Material : Follows(m) /\ client'[c].session = m
        BY <3>1, <3>2, VersionTypes DEF ClientInv
      <4>2. m.vault \in Vaults /\ m.ver \in Versions
        BY DEF Material
      <4>3. stored.sid = m.sid => Retired(m.vault, m.ver)
        BY <2>3, <4>1 DEF Follows
      <4>4. stored.sid = m.sid => Retired(m.vault, m.ver)'
        BY <2>8, <4>2, <4>3 DEF Steady
      <4>5. m.sid <= opened' /\ (stored'.sid = m.sid => Retired(m.vault, m.ver)')
        BY <1>5, <2>3, <4>1, <4>4 DEF Follows
      <4> QED
        BY <4>1, <4>5 DEF Follows, Retired, Owes, Restores
    <3>3. ASSUME client'[c].pc = "persisted"
          PROVE  /\ client'[c].session.ver < client'[c].ver
                 /\ client'[c].session.sid <= opened'
                 /\ stored'.sid # client'[c].session.sid
      <4>1. /\ client[c].session.ver < client[c].ver /\ client[c].session.sid <= opened
            /\ stored.sid = client[c].session.sid => stored = client[c].session
        BY <2>3, <3>1, <3>3 DEF ClientInv
      <4>2. ~Owes(c, stored.vault, stored.ver)
        BY <2>3 DEF Retired
      <4>3. stored # client[c].session
        BY <3>1, <3>3, <4>2 DEF Owes
      <4> QED
        BY <1>5, <2>3, <3>1, <4>1, <4>3
    <3> QED
      BY <3>2, <3>3 DEF ClientInv
  <2> QED
    BY <1>4, <1>5, <2>2, <2>9
<1>6. CASE /\ op.kind = "activate" /\ stored' = op.target /\ op' = None
           /\ opened' = op.target.sid
           /\ \A c \in Contexts : client'[c].pc \in {"mutating", "persisted"}
                                     => client'[c] = client[c]
  <2>1. op.target.sid = nextId /\ opened < nextId /\ opened \in Nat /\ nextId \in Nat
    BY <1>1, <1>6, SessionTypes DEF SessionsInv
  <2>2. opened < opened' /\ stored'.sid = opened' /\ opened' \in Nat
    BY <1>6, <2>1
  <2>3. ASSUME NEW c \in Contexts
        PROVE  ClientInv(c)'
    <3>1. ASSUME client'[c].pc \in {"mutating", "persisted"}
          PROVE  /\ client'[c] = client[c] /\ ClientInv(c)
                 /\ client[c].session.sid \in Nat
                 /\ client[c].session.sid <= opened
      <4>1. client'[c] = client[c] /\ ClientInv(c)
        BY <1>6, <3>1 DEF VersionsInv, MutationsInv
      <4> QED
        BY <3>1, <4>1, VersionTypes DEF ClientInv, Follows
    <3>2. ASSUME client'[c].pc \in {"mutating", "persisted"}
          PROVE  client'[c].session.sid <= opened' /\ stored'.sid # client'[c].session.sid
      BY <2>1, <2>2, <3>1, <3>2
    <3>3. ASSUME client'[c].pc = "persisted"
          PROVE  client'[c].session.ver < client'[c].ver
      BY <3>1, <3>3 DEF ClientInv
    <3> QED
      BY <3>2, <3>3 DEF ClientInv, Follows
  <2> QED
    BY <1>4, <1>6, <2>3
<1>7. Activated => \A c \in Contexts : client'[c].pc \in {"mutating", "persisted"}
                                          => client'[c] = client[c]
  <2>1. client \in [Contexts -> Clients]
    BY DEF TypeInv, TypeOK
  <2> QED
    BY <2>1 DEF Activated
<1> QED
  BY <1>1, <1>2, <1>5, <1>6, <1>7 DEF SaveMaterial, Finish


\* The compare-and-set of a mutation: it finds the snapshot it was begun over,
\* so no session stands for a later one, and that snapshot is owed from now on.
LEMMA SaveSnapshotKeepsVersions ==
    ASSUME TypeInv, TypeInv', VersionsInv, SaveSnapshot
    PROVE  VersionsInv'
<1> USE DEF At
<1>1. /\ op # None /\ op.kind = "persist" /\ op' = None
      /\ opened' = opened /\ stored' = stored /\ payload' = payload
  BY KindOfCall DEF SaveSnapshot, Finish
<1>2. CASE UNCHANGED <<snapshot, nextVersion, client>>
  <2>1. Calm
    BY <1>1, <1>2 DEF Calm, Undisturbed, OpCalm
  <2> QED
    BY <2>1, CalmKeepsVersions
<1>3. CASE /\ snapshot[op.target.vault] = op.target.ver /\ nextVersion' = nextVersion + 1
           /\ snapshot' = [snapshot EXCEPT ![op.target.vault] = nextVersion + 1]
           /\ client' = [client EXCEPT ![op.ctx] =
                 [pc |-> "persisted", session |-> op.target, ver |-> nextVersion + 1]]
  <2>1. PICK m \in Material, v0 \in Vaults, b \in Versions, x \in Contexts :
           /\ m = op.target /\ v0 = m.vault /\ b = m.ver /\ x = op.ctx
           /\ m.sid \in Nat
    BY <1>1, KindOfCall, VersionTypes
  <2>2. Follows(m)
    BY <1>1, <2>1 DEF VersionsInv, MutationsInv
  <2>3. /\ snapshot \in [Vaults -> Versions \cup {None}] /\ client \in [Contexts -> Clients]
        /\ nextVersion \in Nat /\ Versions \subseteq Nat /\ None \notin Versions
    BY VersionTypes DEF TypeInv, TypeOK
  <2>4. /\ snapshot[v0] = b /\ snapshot'[v0] = nextVersion + 1
        /\ \A v \in Vaults \ {v0} : snapshot'[v] = snapshot[v]
    BY <1>3, <2>1, <2>3
  <2>5. /\ client'[x].pc = "persisted" /\ client'[x].session = m
        /\ client'[x].ver = nextVersion + 1
        /\ \A c \in Contexts \ {x} : client'[c] = client[c]
    BY <1>3, <2>1, <2>3
  <2>6. ~Storing /\ ~Storing'
    BY <1>1 DEF Storing
  <2>7. Issued = nextVersion /\ Issued' = nextVersion + 1
    BY <1>3, <2>6 DEF Issued
  <2>8. b <= nextVersion
    BY <2>1, <2>3, <2>4, <2>7 DEF VersionsInv, SnapshotsInv
  <2>9. \A c \in Contexts, v \in Vaults, n \in Versions :
           Owes(c, v, n)' => Owes(c, v, n) \/ (c = x /\ v = v0 /\ n = b)
    BY <2>1, <2>5 DEF Owes
  <2>10. \A c \in Contexts : ~Owes(c, v0, b)
    BY <2>1, <2>4 DEF VersionsInv, SnapshotsInv
  <2>11. \A v \in Vaults, n \in Versions : ~Restores(v, n)'
    BY <1>1 DEF Restores
  <2>12. \A v \in Vaults, n \in Versions :
            n <= nextVersion /\ snapshot[v] # n => snapshot'[v] # n
    BY <2>3, <2>4
  <2>13. SnapshotsInv'
    <3>1. ASSUME NEW v \in Vaults, snapshot'[v] # None
          PROVE  snapshot'[v] <= Issued'
      <4>1. snapshot[v] # None => snapshot[v] <= nextVersion /\ snapshot[v] \in Nat
        BY <2>3, <2>7 DEF VersionsInv, SnapshotsInv
      <4> QED
        BY <2>3, <2>4, <2>7, <3>1, <4>1
    <3>2. ASSUME NEW c \in Contexts, NEW v \in Vaults, NEW n \in Versions, Owes(c, v, n)'
          PROVE  /\ n <= Issued' /\ snapshot'[v] # n
                 /\ \A d \in Contexts \ {c} : ~Owes(d, v, n)'
      <4>1. CASE Owes(c, v, n)
        <5>1. /\ n <= nextVersion /\ snapshot[v] # n
              /\ \A d \in Contexts \ {c} : ~Owes(d, v, n)
          BY <2>7, <4>1 DEF VersionsInv, SnapshotsInv
        <5>2. ~(v = v0 /\ n = b)
          BY <2>4, <5>1
        <5>3. n <= nextVersion + 1
          BY <2>3, <5>1
        <5> QED
          BY <2>7, <2>9, <2>12, <5>1, <5>2, <5>3
      <4>2. CASE c = x /\ v = v0 /\ n = b
        <5>1. b <= nextVersion + 1 /\ b # nextVersion + 1
          BY <2>1, <2>3, <2>8
        <5> QED
          BY <2>4, <2>7, <2>9, <2>10, <4>2, <5>1
      <4> QED
        BY <2>9, <3>2, <4>1, <4>2
    <3> QED
      BY <2>6, <2>11, <3>1, <3>2 DEF SnapshotsInv
  <2>14. Steady
    <3>1. ASSUME NEW v \in Vaults, NEW n \in Versions, Retired(v, n)
          PROVE  Retired(v, n)'
      <4>1. n <= nextVersion /\ snapshot[v] # n /\ \A c \in Contexts : ~Owes(c, v, n)
        BY <2>7, <3>1 DEF Retired
      <4>2. ~(v = v0 /\ n = b)
        BY <2>4, <4>1
      <4>3. n <= nextVersion + 1
        BY <2>3, <4>1
      <4> QED
        BY <2>7, <2>9, <2>11, <2>12, <4>1, <4>2, <4>3 DEF Retired
    <3> QED
      BY <3>1 DEF Steady
  <2>15. ASSUME NEW c \in Contexts
         PROVE  ClientInv(c)'
    <3>1. CASE c # x
      <4>1. client'[c] = client[c] /\ ClientInv(c)
        BY <2>5, <3>1 DEF VersionsInv, MutationsInv
      <4> QED
        BY <1>1, <2>14, <4>1, ClientStays
    <3>2. CASE c = x
      <4>1. m.ver < nextVersion + 1
        BY <2>1, <2>3, <2>8
      <4>2. ~Retired(v0, b)
        BY <2>4 DEF Retired
      <4>3. m.sid <= opened /\ (stored # None /\ stored.sid = m.sid => stored = m)
        BY <2>1, <2>2, <4>2 DEF Follows
      <4> QED
        BY <1>1, <2>5, <3>2, <4>1, <4>3 DEF ClientInv
    <3> QED
      BY <3>1, <3>2
  <2>16. MutationsInv'
    BY <1>1, <2>15 DEF MutationsInv
  <2>17. PayloadInv'
    BY <1>1 DEF VersionsInv, PayloadInv, PayloadNotOlder, Saving
  <2> QED
    BY <2>13, <2>16, <2>17 DEF VersionsInv
<1> QED
  BY <1>2, <1>3 DEF SaveSnapshot

\* A rollback brings back what it owes, and nobody else owes it.
LEMMA RestoreSnapshotKeepsVersions ==
    ASSUME TypeInv, TypeInv', VersionsInv, RestoreSnapshot
    PROVE  VersionsInv'
<1> USE DEF At
<1>1. /\ op # None /\ op.kind = "rollback" /\ nextVersion' = nextVersion
      /\ opened' = opened /\ stored' = stored /\ payload' = payload /\ client' = client
  BY KindOfCall DEF RestoreSnapshot
<1>2. CASE /\ op' = None \/ op' = Revocation(op.ctx, op.known)
           /\ snapshot' = snapshot
  <2>1. OpCalm
    BY <1>1, <1>2, RevokesCalmly DEF OpCalm
  <2> QED
    BY <1>1, <1>2, <2>1, CalmCall, CalmKeepsVersions
<1>3. CASE op' = None /\ snapshot' = [snapshot EXCEPT ![op.target.vault] = op.base]
  <2>1. PICK v0 \in Vaults, b \in Versions : v0 = op.target.vault /\ b = op.base
    BY <1>1, VersionTypes
  <2>2. snapshot \in [Vaults -> Versions \cup {None}]
    BY DEF TypeInv, TypeOK
  <2>3. snapshot'[v0] = b /\ \A v \in Vaults \ {v0} : snapshot'[v] = snapshot[v]
    BY <1>3, <2>1, <2>2
  <2>4. Restores(v0, b)
    BY <1>1, <2>1 DEF Restores
  <2>5. b <= Issued /\ \A c \in Contexts : ~Owes(c, v0, b)
    BY <2>4 DEF VersionsInv, SnapshotsInv
  <2>6. ~Storing /\ ~Storing' /\ \A v \in Vaults, n \in Versions : ~Restores(v, n)'
    BY <1>1, <1>3 DEF Storing, Restores
  <2>7. Issued' = Issued
    BY <1>1, <2>6 DEF Issued
  <2>8. \A c \in Contexts, v \in Vaults, n \in Versions : Owes(c, v, n)' = Owes(c, v, n)
    BY <1>1 DEF Owes
  <2>9. SnapshotsInv'
    <3>1. \A v \in Vaults : snapshot'[v] # None => snapshot'[v] <= Issued'
      BY <2>3, <2>5, <2>7 DEF VersionsInv, SnapshotsInv
    <3>2. ASSUME NEW c \in Contexts, NEW v \in Vaults, NEW n \in Versions, Owes(c, v, n)'
          PROVE  /\ n <= Issued' /\ snapshot'[v] # n
                 /\ \A d \in Contexts \ {c} : ~Owes(d, v, n)'
      <4>1. /\ Owes(c, v, n) /\ n <= Issued /\ snapshot[v] # n
            /\ \A d \in Contexts \ {c} : ~Owes(d, v, n)
        BY <2>8, <3>2 DEF VersionsInv, SnapshotsInv
      <4>2. ~(v = v0 /\ n = b)
        BY <2>5, <4>1
      <4> QED
        BY <2>3, <2>7, <2>8, <4>1, <4>2
    <3> QED
      BY <2>6, <3>1, <3>2 DEF SnapshotsInv
  <2>10. Steady
    <3>1. ASSUME NEW v \in Vaults, NEW n \in Versions, Retired(v, n)
          PROVE  Retired(v, n)'
      <4>1. /\ n <= Issued /\ snapshot[v] # n /\ ~Restores(v, n)
            /\ \A c \in Contexts : ~Owes(c, v, n)
        BY <3>1 DEF Retired
      <4>2. snapshot'[v] # n
        BY <2>3, <2>4, <4>1
      <4> QED
        BY <2>6, <2>7, <2>8, <4>1, <4>2 DEF Retired
    <3> QED
      BY <3>1 DEF Steady
  <2>11. MutationsInv'
    <3>1. Undisturbed /\ MutationsInv
      BY <1>1 DEF Undisturbed, VersionsInv
    <3>2. ~(op' # None /\ op'.kind = "persist")
      BY <1>3
    <3> QED
      BY <2>10, <3>1, <3>2, MutationsStay
  <2>12. PayloadInv'
    BY <1>1, <1>3 DEF VersionsInv, PayloadInv, PayloadNotOlder, Saving
  <2> QED
    BY <2>9, <2>11, <2>12 DEF VersionsInv
<1> QED
  BY <1>2, <1>3 DEF RestoreSnapshot, Finish

LEMMA CallKeepsVersions ==
    ASSUME TypeInv, TypeInv', SessionsInv, VersionsInv, Call
    PROVE  VersionsInv'
<1>1. CASE AdvanceEpoch \/ SaveTask \/ ArmAlarm
  BY <1>1, ActivationCallIsCalm, CalmKeepsVersions
<1>2. CASE \/ ReadTasks \/ RemoveMaterial \/ RemovePayload \/ RemoveVault
           \/ RemoveTask \/ CancelAlarm \/ DiscardVault
  BY <1>2, CleanupCallIsCalm, CalmKeepsVersions
<1> QED
  BY <1>1, <1>2, SaveVaultKeepsVersions, SavePayloadKeepsVersions,
     SaveMaterialKeepsVersions, SaveSnapshotKeepsVersions, RestoreSnapshotKeepsVersions
  DEF Call


(***************************************************************************)
(* The steps that begin an operation, and the ones outside of any.         *)
(***************************************************************************)

\* A step outside the storage calls: what is shared stays, or the browser
\* restarts.
LEMMA OutsideIsCalm ==
    ASSUME nextVersion' = nextVersion, opened' = opened, snapshot' = snapshot,
           payload' = payload, stored' = stored \/ stored' = None,
           \A c \in Contexts : client'[c].pc \in {"mutating", "persisted"}
                                   => client'[c] = client[c],
           \/ op' = None
           \/ op' = op /\ stored' = stored
           \/ /\ op'.kind \notin {"commit", "persist", "rollback"}
              /\ op'.pc # "save material" /\ ~Storing'
    PROVE  Calm
<1>1. OpCalm
  BY DEF OpCalm
<1>2. \A v \in Vaults : snapshot'[v] \in {snapshot[v], None}
  OBVIOUS
<1> QED
  BY <1>1, <1>2 DEF Calm, Undisturbed

\* The client of one context becomes idle, or comes to a state without session.
LEMMA OneClient ==
    ASSUME TypeInv, NEW x \in Contexts, NEW y,
           client' = [client EXCEPT ![x] = y], y.pc \notin {"mutating", "persisted"}
    PROVE  \A c \in Contexts : client'[c].pc \in {"mutating", "persisted"}
                                   => client'[c] = client[c]
<1>1. client \in [Contexts -> Clients]
  BY DEF TypeInv, TypeOK
<1> QED
  BY <1>1

LEMMA UnlockIsCalm ==
    ASSUME TypeInv, NEW c \in Pages, Unlock(c)
    PROVE  Calm
<1> c \in Contexts
  BY DEF Contexts
<1> TypeOK
  BY DEF TypeInv
<1>1. /\ nextVersion' = nextVersion /\ opened' = opened /\ snapshot' = snapshot
      /\ payload' = payload /\ stored' = stored
  BY DEF Unlock, Authorize, LoadVault, BeginActivation, RejectActivation, Abandon, shared
<1>2. \/ client' = client
      \/ \E y : y.pc \notin {"mutating", "persisted"} /\ client' = [client EXCEPT ![c] = y]
  <2>1. Idle.pc = "idle"
    BY DEF Idle
  <2>2. CASE \E v \in Vaults : Authorize(c, v)
    BY <2>2 DEF Authorize
  <2>3. CASE LoadVault(c)
    BY <2>1, <2>3 DEF LoadVault, Loaded
  <2>4. CASE BeginActivation(c) \/ RejectActivation(c) \/ Abandon(c)
    BY <2>1, <2>4 DEF BeginActivation, RejectActivation, Abandon
  <2> QED
    BY <2>2, <2>3, <2>4 DEF Unlock
<1>3. \A d \in Contexts : client'[d].pc \in {"mutating", "persisted"}
                              => client'[d] = client[d]
  BY <1>2, OneClient
<1>4. CASE BeginActivation(c)
  <2>1. IsOperation(op', "activate", c, "advance epoch") /\ op'.vault = None
    BY <1>4, ActivationType DEF BeginActivation
  <2>2. /\ op'.kind \notin {"commit", "persist", "rollback"}
        /\ op'.pc # "save material" /\ ~Storing'
    BY <2>1 DEF IsOperation, Storing
  <2> QED
    BY <1>1, <1>3, <2>2, OutsideIsCalm
<1>5. CASE op' = op
  BY <1>1, <1>3, <1>5, OutsideIsCalm
<1> QED
  BY <1>4, <1>5 DEF Unlock, Authorize, LoadVault, RejectActivation, Abandon

\* An arrival takes the newest version, and nothing else has it.
LEMMA ArriveKeepsVersions ==
    ASSUME TypeInv, TypeInv', VersionsInv, NEW c \in Pages, Arrive(c)
    PROVE  VersionsInv'
<1> c \in Contexts
  BY DEF Contexts
<1> TypeOK
  BY DEF TypeInv
<1>1. opened' = opened /\ snapshot' = snapshot /\ payload' = payload /\ stored' = stored
  BY DEF Arrive, Prepare, BeginArrival, BeginDiscard, shared
<1>2. \E y : y.pc \notin {"mutating", "persisted"} /\ client' = [client EXCEPT ![c] = y]
  <2>1. Idle.pc = "idle"
    BY DEF Idle
  <2>2. CASE Prepare(c)
    <3>1. client[c] \in Clients /\ client[c].pc = "authorized"
      BY <2>2 DEF Prepare, TypeOK
    <3>2. [client[c] EXCEPT !.pc = "prepared"].pc = "prepared"
      BY <3>1 DEF Clients, Idle
    <3>3. client' = [client EXCEPT ![c] = [client[c] EXCEPT !.pc = "prepared"]]
      BY <2>2 DEF Prepare
    <3> QED
      BY <3>2, <3>3
  <2>3. CASE BeginArrival(c) \/ BeginDiscard(c)
    BY <2>1, <2>3 DEF BeginArrival, BeginDiscard
  <2> QED
    BY <2>2, <2>3 DEF Arrive
<1>3. \A d \in Contexts : client'[d].pc \in {"mutating", "persisted"}
                              => client'[d] = client[d]
  BY <1>2, OneClient
<1>4. CASE Prepare(c)
  <2>1. nextVersion' = nextVersion /\ op' = op
    BY <1>4 DEF Prepare
  <2>2. Calm
    BY <1>1, <1>3, <2>1, OutsideIsCalm
  <2> QED
    BY <2>2, CalmKeepsVersions
<1>5. CASE BeginDiscard(c)
  <2>1. op' = None \/ op' = Discarding(c)
    BY <1>5 DEF BeginDiscard
  <2>2. op' = Discarding(c) => IsOperation(op', "discard", c, "read tasks")
    BY <1>5, DiscardingType DEF BeginDiscard
  <2>3. nextVersion' = nextVersion
    BY <1>5 DEF BeginDiscard
  <2>4. \/ op' = None
        \/ /\ op'.kind \notin {"commit", "persist", "rollback"}
           /\ op'.pc # "save material" /\ ~Storing'
    BY <2>1, <2>2 DEF IsOperation, Storing
  <2>5. Calm
    BY <1>1, <1>3, <2>3, <2>4, OutsideIsCalm
  <2> QED
    BY <2>5, CalmKeepsVersions
<1>6. CASE BeginArrival(c)
  <2>1. /\ IsOperation(op', "activate", c, "advance epoch")
        /\ op'.target.ver = nextVersion + 1
    BY <1>6, ArrivalType DEF BeginArrival
  <2>2. op = None /\ nextVersion' = nextVersion + 1 /\ nextVersion \in Nat
    BY <1>6, VersionTypes DEF BeginArrival
  <2>3. Issued = nextVersion
    BY <2>2 DEF Issued, Storing
  <2>4. Issued' >= Issued
    BY <2>2, <2>3 DEF Issued
  <2>5. \A d \in Contexts, v \in Vaults, n \in Versions : Owes(d, v, n)' => Owes(d, v, n)
    BY <1>3 DEF Owes
  <2>6. \A v \in Vaults, n \in Versions : Restores(v, n)' => Restores(v, n)
    BY <2>1 DEF IsOperation, Restores
  <2>7. Settled
    BY <1>1, <2>1, <2>2, <2>4, <2>5, <2>6 DEF Settled
  <2>8. SnapshotsInv' /\ Steady
    BY <2>7, SettledKeepsSnapshots DEF VersionsInv
  <2>9. MutationsInv'
    <3>1. Undisturbed /\ MutationsInv
      BY <1>1, <1>3 DEF Undisturbed, VersionsInv
    <3>2. ~(op' # None /\ op'.kind = "persist")
      BY <2>1 DEF IsOperation
    <3> QED
      BY <2>8, <3>1, <3>2, MutationsStay
  <2>10. PayloadInv'
    <3>1. ~Saving' /\ ~At("save material")'
      BY <2>1 DEF IsOperation, Saving, At
    <3> QED
      BY <1>1, <3>1 DEF PayloadInv, PayloadNotOlder, VersionsInv
  <2> QED
    BY <2>8, <2>9, <2>10 DEF VersionsInv
<1> QED
  BY <1>4, <1>5, <1>6 DEF Arrive


LEMMA IdleClient ==
    ASSUME TypeInv, NEW x \in Contexts, client' = [client EXCEPT ![x] = Idle]
    PROVE  /\ client'[x].pc = "idle"
           /\ \A c \in Contexts : client'[c].pc \in {"mutating", "persisted"}
                                      => client'[c] = client[c]
<1>1. client \in [Contexts -> Clients] /\ Idle.pc = "idle"
  BY DEF TypeInv, TypeOK, Idle
<1> QED
  BY <1>1

LEMMA BeginPersistKeepsVersions ==
    ASSUME TypeInv, TypeInv', VersionsInv, NEW c \in Contexts, BeginPersist(c)
    PROVE  VersionsInv'
<1> TypeOK
  BY DEF TypeInv
<1>1. /\ op = None /\ client[c].pc = "mutating" /\ nextVersion' = nextVersion
      /\ opened' = opened /\ snapshot' = snapshot /\ payload' = payload
      /\ stored' = stored /\ client' = [client EXCEPT ![c] = Idle]
  BY DEF BeginPersist, shared
<1>2. \A d \in Contexts : client'[d].pc \in {"mutating", "persisted"}
                              => client'[d] = client[d]
  BY <1>1, IdleClient
<1>3. CASE op' = None
  <2>1. Calm
    BY <1>1, <1>2, <1>3, OutsideIsCalm
  <2> QED
    BY <2>1, CalmKeepsVersions
<1>4. CASE op' = Persistence(c)
  <2>1. /\ IsOperation(op', "persist", c, "advance epoch")
        /\ op'.target = client[c].session
    BY <1>1, <1>4, PersistenceType
  <2>2. ~Storing /\ ~Storing' /\ \A v \in Vaults, n \in Versions : ~Restores(v, n)'
    BY <1>1, <2>1 DEF IsOperation, Storing, Restores
  <2>3. Issued' = Issued /\ Issued' >= Issued
    BY <1>1, <2>2, VersionTypes DEF Issued
  <2>4. \A d \in Contexts, v \in Vaults, n \in Versions : Owes(d, v, n)' => Owes(d, v, n)
    BY <1>2 DEF Owes
  <2>5. Settled
    BY <1>1, <2>2, <2>3, <2>4 DEF Settled
  <2>6. SnapshotsInv' /\ Steady
    BY <2>5, SettledKeepsSnapshots DEF VersionsInv
  <2>7. MutationsInv'
    <3>1. Undisturbed /\ MutationsInv
      BY <1>1, <1>2 DEF Undisturbed, VersionsInv
    <3> QED
      BY <1>1, <2>1, <2>6, <3>1, MutationsStay
  <2>8. PayloadInv'
    <3>1. ~Saving' /\ ~At("save material")'
      BY <2>1 DEF IsOperation, Saving, At
    <3> QED
      BY <1>1, <3>1 DEF PayloadInv, PayloadNotOlder, VersionsInv
  <2> QED
    BY <2>6, <2>7, <2>8 DEF VersionsInv
<1> QED
  BY <1>3, <1>4 DEF BeginPersist

\* A commit finds the session its mutation was begun over, and the snapshot of
\* that session is retired: its own context alone owed it.
LEMMA BeginCommitKeepsVersions ==
    ASSUME TypeInv, TypeInv', VersionsInv, NEW c \in Contexts, BeginCommit(c)
    PROVE  VersionsInv'
<1> TypeOK
  BY DEF TypeInv
<1>1. /\ op = None /\ client[c].pc = "persisted" /\ nextVersion' = nextVersion
      /\ opened' = opened /\ snapshot' = snapshot /\ payload' = payload
      /\ stored' = stored /\ client' = [client EXCEPT ![c] = Idle]
  BY DEF BeginCommit, shared
<1>2. /\ client'[c].pc = "idle"
      /\ \A d \in Contexts : client'[d].pc \in {"mutating", "persisted"}
                                => client'[d] = client[d]
  BY <1>1, IdleClient
<1>3. CASE op' = None
  <2>1. Calm
    BY <1>1, <1>2, <1>3, OutsideIsCalm
  <2> QED
    BY <2>1, CalmKeepsVersions
<1>4. CASE op' = Commitment(c) /\ IsActiveSession(c, client[c].session)
  <2>1. /\ IsOperation(op', "commit", c, "save payload")
        /\ op'.target.sid = client[c].session.sid
        /\ op'.target.vault = client[c].session.vault
        /\ op'.target.ver = client[c].ver
    BY <1>1, <1>4, CommitmentType
  <2>2. stored # None /\ stored.sid = client[c].session.sid
    BY <1>4, ReconcileType DEF IsActiveSession
  <2>3. stored = client[c].session /\ client[c].session.ver < client[c].ver
    BY <1>1, <2>2 DEF VersionsInv, MutationsInv, ClientInv
  <2>4. stored.vault \in Vaults /\ stored.ver \in Versions
    BY <2>2, VersionTypes
  <2>5. ~Storing /\ ~Storing' /\ \A v \in Vaults, n \in Versions : ~Restores(v, n)'
    BY <1>1, <2>1 DEF IsOperation, Storing, Restores
  <2>6. Issued' = Issued /\ Issued' >= Issued
    BY <1>1, <2>5, VersionTypes DEF Issued
  <2>7. \A d \in Contexts, v \in Vaults, n \in Versions :
           Owes(d, v, n)' => Owes(d, v, n) /\ d # c
    BY <1>2 DEF Owes
  <2>8. Settled
    BY <1>1, <2>5, <2>6, <2>7 DEF Settled
  <2>9. SnapshotsInv' /\ Steady
    BY <2>8, SettledKeepsSnapshots DEF VersionsInv
  <2>10. MutationsInv'
    <3>1. Undisturbed /\ MutationsInv
      BY <1>1, <1>2 DEF Undisturbed, VersionsInv
    <3>2. ~(op' # None /\ op'.kind = "persist")
      BY <2>1 DEF IsOperation
    <3> QED
      BY <2>9, <3>1, <3>2, MutationsStay
  <2>11. Retired(stored.vault, stored.ver)'
    <3>1. PICK v \in Vaults, n \in Versions : v = stored.vault /\ n = stored.ver
      BY <2>4
    <3>2. Owes(c, v, n)
      BY <1>1, <2>3, <3>1 DEF Owes
    <3>3. /\ n <= Issued /\ snapshot[v] # n
          /\ \A d \in Contexts \ {c} : ~Owes(d, v, n)
      BY <3>2 DEF VersionsInv, SnapshotsInv
    <3>4. Retired(v, n)'
      BY <1>1, <2>5, <2>6, <2>7, <3>3 DEF Retired
    <3> QED
      BY <1>1, <3>1, <3>4 DEF Retired, Owes, Restores
  <2>12. PayloadInv'
    <3>1. stored'.ver < op'.target.ver
      BY <1>1, <2>1, <2>3
    <3>2. ~At("save material")'
      BY <2>1 DEF IsOperation, At
    <3>3. PayloadNotOlder'
      BY <1>1 DEF PayloadInv, PayloadNotOlder, VersionsInv
    <3> QED
      BY <1>1, <2>1, <2>2, <2>3, <2>11, <3>1, <3>2, <3>3 DEF PayloadInv
  <2> QED
    BY <2>9, <2>10, <2>12 DEF VersionsInv
<1> QED
  BY <1>3, <1>4 DEF BeginCommit

\* A rollback takes over what its context owed.
LEMMA BeginRollbackKeepsVersions ==
    ASSUME TypeInv, TypeInv', VersionsInv, NEW c \in Contexts, BeginRollback(c)
    PROVE  VersionsInv'
<1> TypeOK
  BY DEF TypeInv
<1>1. /\ op = None /\ client[c].pc = "persisted" /\ nextVersion' = nextVersion
      /\ opened' = opened /\ snapshot' = snapshot /\ payload' = payload
      /\ stored' = stored /\ client' = [client EXCEPT ![c] = Idle]
  BY DEF BeginRollback, shared
<1>2. /\ client'[c].pc = "idle"
      /\ \A d \in Contexts : client'[d].pc \in {"mutating", "persisted"}
                                => client'[d] = client[d]
  BY <1>1, IdleClient
<1>3. CASE op' = None
  <2>1. Calm
    BY <1>1, <1>2, <1>3, OutsideIsCalm
  <2> QED
    BY <2>1, CalmKeepsVersions
<1>4. CASE op' = Restoration(c)
  <2>1. /\ \/ IsOperation(op', "rollback", c, "advance epoch")
           \/ IsOperation(op', "rollback", c, "restore snapshot")
        /\ op'.target.vault = client[c].session.vault
        /\ op'.base = client[c].session.ver
    BY <1>1, <1>4, RestorationType
  <2>2. ~Storing /\ ~Storing' /\ \A v \in Vaults, n \in Versions : ~Restores(v, n)
    BY <1>1, <2>1 DEF IsOperation, Storing, Restores
  <2>3. Issued' = Issued
    BY <1>1, <2>2 DEF Issued
  <2>4. \A d \in Contexts, v \in Vaults, n \in Versions :
           Owes(d, v, n)' => Owes(d, v, n) /\ d # c
    BY <1>2 DEF Owes
  <2>5. \A v \in Vaults, n \in Versions : Restores(v, n)' => Owes(c, v, n)
    BY <1>1, <2>1 DEF Restores, Owes
  <2>6. \A d \in Contexts, v \in Vaults, n \in Versions :
           Owes(d, v, n) => /\ n <= Issued /\ snapshot[v] # n
                            /\ \A e \in Contexts \ {d} : ~Owes(e, v, n)
    BY DEF VersionsInv, SnapshotsInv
  <2>7. SnapshotsInv'
    <3>1. \A v \in Vaults : snapshot'[v] # None => snapshot'[v] <= Issued'
      BY <1>1, <2>3 DEF VersionsInv, SnapshotsInv
    <3>2. ASSUME NEW v \in Vaults, NEW n \in Versions, Restores(v, n)'
          PROVE  n <= Issued' /\ snapshot'[v] # n
      BY <1>1, <2>3, <2>5, <2>6, <3>2
    <3>3. ASSUME NEW d \in Contexts, NEW v \in Vaults, NEW n \in Versions, Owes(d, v, n)'
          PROVE  /\ n <= Issued' /\ snapshot'[v] # n /\ ~Restores(v, n)'
                 /\ \A e \in Contexts \ {d} : ~Owes(e, v, n)'
      BY <1>1, <2>3, <2>4, <2>5, <2>6, <3>3
    <3> QED
      BY <2>2, <3>1, <3>2, <3>3 DEF SnapshotsInv
  <2>8. Steady
    <3>1. ASSUME NEW v \in Vaults, NEW n \in Versions, Retired(v, n)
          PROVE  Retired(v, n)'
      BY <1>1, <2>3, <2>4, <2>5, <3>1 DEF Retired
    <3> QED
      BY <3>1 DEF Steady
  <2>9. MutationsInv'
    <3>1. Undisturbed /\ MutationsInv
      BY <1>1, <1>2 DEF Undisturbed, VersionsInv
    <3>2. ~(op' # None /\ op'.kind = "persist")
      BY <2>1 DEF IsOperation
    <3> QED
      BY <2>8, <3>1, <3>2, MutationsStay
  <2>10. PayloadInv'
    <3>1. ~Saving' /\ ~At("save material")'
      BY <2>1 DEF IsOperation, Saving, At
    <3> QED
      BY <1>1, <3>1 DEF PayloadInv, PayloadNotOlder, VersionsInv
  <2> QED
    BY <2>7, <2>9, <2>10 DEF VersionsInv
<1> QED
  BY <1>3, <1>4 DEF BeginRollback

LEMMA CloseIsCalm ==
    ASSUME TypeInv, NEW c \in Pages, Close(c)
    PROVE  Calm
<1> c \in Contexts
  BY DEF Contexts
<1> TypeOK
  BY DEF TypeInv
<1>1. /\ nextVersion' = nextVersion /\ opened' = opened /\ snapshot' = snapshot
      /\ payload' = payload /\ stored' = stored /\ client' = client
  BY DEF Close, BeginLock, BeginDelete, shared
<1>2. op' # None => \/ IsOperation(op', "lock", c, "advance epoch")
                    \/ IsOperation(op', "delete", c, "advance epoch")
  <2>1. CASE BeginLock(c)
    <3>1. \E failing \in Steps \cup {None} :
             op' = CleanupOf("lock", c, "advance epoch", failing)
      BY <2>1 DEF BeginLock, Failing, Steps
    <3> QED
      BY <3>1, LockType
  <2>2. CASE \E v \in Vaults : BeginDelete(c, v)
    <3>1. op' = None \/ \E v \in Vaults : op' = DeletionOf(c, v)
      BY <2>2 DEF BeginDelete
    <3> QED
      BY <3>1, DeletionType
  <2> QED
    BY <2>1, <2>2 DEF Close
<1>3. \/ op' = None
      \/ /\ op'.kind \notin {"commit", "persist", "rollback"}
         /\ op'.pc # "save material" /\ ~Storing'
  BY <1>2 DEF IsOperation, Storing
<1> QED
  BY <1>1, <1>3, OutsideIsCalm

LEMMA AlarmIsCalm ==
    ASSUME TypeInv, NEW i \in Ids, Alarm(i)
    PROVE  Calm
<1> TypeOK
  BY DEF TypeInv
<1>1. /\ nextVersion' = nextVersion /\ opened' = opened /\ snapshot' = snapshot
      /\ payload' = payload /\ stored' = stored /\ client' = client
  BY DEF Alarm, FireAlarm, CheckOwnership, ArmRetry, BeginAlarmCleanup, SettleRetry, shared,
         local
<1>2. CASE op' = op
  BY <1>1, <1>2, OutsideIsCalm
<1>3. CASE BeginAlarmCleanup(i) /\ OwnsLock(i)
  <2>1. \E failing \in Steps \cup {None} : op' = AlarmCleanup(i, failing)
    BY <1>3 DEF BeginAlarmCleanup, Failing, Steps
  <2>2. IsOperation(op', "alarm", Background, "read tasks")
    BY <1>3, <2>1, AlarmCleanupType DEF OwnsLock
  <2>3. /\ op'.kind \notin {"commit", "persist", "rollback"}
        /\ op'.pc # "save material" /\ ~Storing'
    BY <2>2 DEF IsOperation, Storing
  <2> QED
    BY <1>1, <2>3, OutsideIsCalm
<1> QED
  BY <1>2, <1>3
  DEF Alarm, FireAlarm, CheckOwnership, ArmRetry, BeginAlarmCleanup, SettleRetry

\* A mutation begins over the session that is stored.
LEMMA OpenSessionKeepsVersions ==
    ASSUME TypeInv, TypeInv', SessionsInv, VersionsInv, NEW c \in Contexts, OpenSession(c)
    PROVE  VersionsInv'
<1> TypeOK
  BY DEF TypeInv
<1>1. /\ op = None /\ nextVersion' = nextVersion /\ opened' = opened
      /\ snapshot' = snapshot /\ payload' = payload /\ stored' = stored
  BY DEF OpenSession, shared
<1>2. op' # None => IsOperation(op', "revoke", c, "advance epoch")
  <2>1. \/ op' = None
        \/ op' = Revocation(c, None)
        \/ op' = Revocation(c, Reconcile(c).material)
    BY DEF OpenSession
  <2> QED
    BY <2>1, ReconcileType, RevocationType
<1>3. \/ op' = None
      \/ /\ op'.kind \notin {"commit", "persist", "rollback"}
         /\ op'.pc # "save material" /\ ~Storing'
  BY <1>2 DEF IsOperation, Storing
<1>4. CASE client' = client
  <2>1. Calm
    BY <1>1, <1>3, <1>4, OutsideIsCalm
  <2> QED
    BY <2>1, CalmKeepsVersions
<1>5. CASE /\ Reconcile(c).material # None
           /\ client' = [client EXCEPT ![c] =
                            [pc |-> "mutating", session |-> Reconcile(c).material]]
  <2>1. stored # None /\ Reconcile(c).material = stored
    BY <1>5, ReconcileType
  <2>2. /\ client'[c].pc = "mutating" /\ client'[c].session = stored
        /\ \A d \in Contexts \ {c} : client'[d] = client[d]
    BY <1>5, <2>1 DEF TypeOK
  <2>3. ~Storing /\ ~Storing' /\ \A v \in Vaults, n \in Versions : ~Restores(v, n)'
    BY <1>1, <1>2 DEF Storing, Restores, IsOperation
  <2>4. Issued' = Issued /\ Issued' >= Issued
    BY <1>1, <2>3, VersionTypes DEF Issued
  <2>5. \A d \in Contexts, v \in Vaults, n \in Versions : Owes(d, v, n)' => Owes(d, v, n)
    BY <2>2 DEF Owes
  <2>6. Settled
    BY <1>1, <2>3, <2>4, <2>5 DEF Settled
  <2>7. SnapshotsInv' /\ Steady
    BY <2>6, SettledKeepsSnapshots DEF VersionsInv
  <2>8. ASSUME NEW d \in Contexts
        PROVE  ClientInv(d)'
    <3>1. CASE d # c
      <4>1. client'[d] = client[d] /\ ClientInv(d)
        BY <2>2, <3>1 DEF VersionsInv, MutationsInv
      <4> QED
        BY <1>1, <2>7, <4>1, ClientStays
    <3>2. CASE d = c
      <4>1. stored.sid <= opened
        BY <2>1 DEF SessionsInv
      <4> QED
        BY <1>1, <2>2, <3>2, <4>1 DEF ClientInv, Follows
    <3> QED
      BY <3>1, <3>2
  <2>9. MutationsInv'
    BY <1>2, <2>8 DEF MutationsInv, IsOperation
  <2>10. PayloadInv'
    <3>1. ~Saving' /\ ~At("save material")'
      BY <1>2 DEF IsOperation, Saving, At
    <3> QED
      BY <1>1, <3>1 DEF PayloadInv, PayloadNotOlder, VersionsInv
  <2> QED
    BY <2>7, <2>9, <2>10 DEF VersionsInv
<1> QED
  BY <1>4, <1>5 DEF OpenSession, local

LEMMA LossIsCalm ==
    ASSUME TypeInv, BrowserRestart \/ \E c \in Contexts : GetStatus(c) \/ Die(c)
    PROVE  Calm
<1>1. ASSUME NEW dying \in SUBSET Contexts, Forget(dying)
      PROVE  /\ \A d \in Contexts : client'[d].pc \in {"mutating", "persisted"}
                                        => client'[d] = client[d]
             /\ op' = None \/ op' = op
  <2>1. Idle.pc = "idle"
    BY DEF Idle
  <2> QED
    BY <1>1, <2>1 DEF Forget
<1>2. ASSUME NEW c \in Contexts, GetStatus(c)
      PROVE  Calm
  BY <1>2, OutsideIsCalm DEF GetStatus, shared
<1>3. ASSUME NEW c \in Contexts, Die(c)
      PROVE  Calm
  <2>1. {c} \in SUBSET Contexts /\ Forget({c})
    BY <1>3 DEF Die
  <2>2. /\ nextVersion' = nextVersion /\ opened' = opened /\ snapshot' = snapshot
        /\ payload' = payload /\ stored' = stored
    BY <1>3 DEF Die, shared
  <2> QED
    BY <1>1, <2>1, <2>2, OutsideIsCalm
<1>4. CASE BrowserRestart
  <2>1. Contexts \in SUBSET Contexts /\ Forget(Contexts)
    BY <1>4 DEF BrowserRestart
  <2>2. op' = None
    BY <2>1, KindOfCall DEF Forget
  <2>3. /\ nextVersion' = nextVersion /\ opened' = opened /\ snapshot' = snapshot
        /\ payload' = payload /\ stored' = None
    BY <1>4 DEF BrowserRestart
  <2> QED
    BY <1>1, <2>1, <2>2, <2>3, OutsideIsCalm
<1> QED
  BY <1>2, <1>3, <1>4

LEMMA VersionsInduction == Spec => []VersionsInv
<1>1. Init => VersionsInv
  <2>1. ASSUME Init
        PROVE  /\ op = None /\ stored = None
               /\ \A c \in Contexts : client[c].pc = "idle"
               /\ nextVersion = 1
               /\ \A v \in Vaults : snapshot[v] \in {1, None}
    BY <2>1 DEF Init, Idle
  <2>2. ASSUME Init
        PROVE  SnapshotsInv
    <3>1. ~Storing /\ \A v \in Vaults, n \in Versions : ~Restores(v, n)
      BY <2>1, <2>2 DEF Storing, Restores
    <3>2. Issued = 1
      BY <2>1, <2>2, <3>1 DEF Issued
    <3>3. \A v \in Vaults : snapshot[v] # None => snapshot[v] <= Issued
      BY <2>1, <2>2, <3>2
    <3>4. \A c \in Contexts, v \in Vaults, n \in Versions : ~Owes(c, v, n)
      BY <2>1, <2>2 DEF Owes
    <3> QED
      BY <3>1, <3>3, <3>4 DEF SnapshotsInv
  <2>3. ASSUME Init
        PROVE  MutationsInv /\ PayloadInv
    BY <2>1, <2>3 DEF MutationsInv, ClientInv, PayloadInv, Saving, At, PayloadNotOlder
  <2> QED
    BY <2>2, <2>3 DEF VersionsInv
<1>2. ASSUME TypeInv, TypeInv', SessionsInv, VersionsInv, [Next]_vars
      PROVE  VersionsInv'
  <2> Pages \subseteq Contexts
    BY DEF Contexts
  <2>1. CASE Call
    BY <1>2, <2>1, CallKeepsVersions
  <2>2. CASE \E i \in Ids : Alarm(i)
    BY <1>2, <2>2, AlarmIsCalm, CalmKeepsVersions
  <2>3. ASSUME NEW c \in Pages, Unlock(c) \/ Close(c)
        PROVE  VersionsInv'
    BY <1>2, <2>3, UnlockIsCalm, CloseIsCalm, CalmKeepsVersions
  <2>4. ASSUME NEW c \in Pages, Arrive(c)
        PROVE  VersionsInv'
    BY <1>2, <2>4, ArriveKeepsVersions
  <2>5. ASSUME NEW c \in Pages, Mutate(c)
        PROVE  VersionsInv'
    BY <1>2, <2>5, BeginPersistKeepsVersions, BeginCommitKeepsVersions,
       BeginRollbackKeepsVersions DEF Mutate
  <2>6. ASSUME NEW c \in Contexts, OpenSession(c)
        PROVE  VersionsInv'
    BY <1>2, <2>6, OpenSessionKeepsVersions
  <2>7. CASE BrowserRestart \/ \E c \in Contexts : GetStatus(c) \/ Die(c)
    BY <1>2, <2>7, LossIsCalm, CalmKeepsVersions
  <2>8. CASE UNCHANGED vars
    <3>1. Calm
      BY <2>8 DEF vars, Calm, Undisturbed, OpCalm
    <3> QED
      BY <1>2, <3>1, CalmKeepsVersions
  <2> QED
    BY <1>2, <2>1, <2>2, <2>3, <2>4, <2>5, <2>6, <2>7, <2>8 DEF Next
<1> QED
  BY <1>1, <1>2, TypeInduction, SessionsInduction, PTL DEF Spec

\* A context that reads the session is never given a payload of the stored
\* session that a commit had replaced, although the two are stored by separate
\* calls, rollbacks bring older snapshots back, calls fail and contexts die.
THEOREM PayloadIsNotOlder == Spec => []PayloadNotOlder
<1>1. VersionsInv => PayloadNotOlder
  BY DEF VersionsInv, PayloadInv
<1> QED
  BY <1>1, VersionsInduction, PTL


-----------------------------------------------------------------------------
(***************************************************************************)
(* The records.  Who unlocked a vault that was deleted since authorized    *)
(* before the deletion wrote the epoch.  The deletion goes on when that    *)
(* write failed, and authority captured before then stays good; so this    *)
(* part is about the behaviours in which every deletion writes its epoch.  *)
(***************************************************************************)
DeletionsAdvance == [][ AdvanceEpoch /\ op.kind = "delete" => epoch' = epoch + 1 ]_vars

\* An operation installs a session over records that were there, or came.
Installs ==
    /\ op # None
    /\ \/ op.kind \in {"activate", "commit"} /\ op.pc \in Installing \cup {"save task"}
       \/ op.kind = "activate" /\ op.vault = None /\ op.pc = "advance epoch"

\* It is on its way to remove records, or about to.
Removes ==
    /\ op # None
    /\ \/ /\ op.kind = "delete"
          /\ op.pc \in {"read tasks", "remove material", "remove payload"}
       \/ /\ op.kind = "discard" /\ ~op.failed
          /\ op.pc \in {"remove material", "remove payload"}
       \/ op.pc \in {"remove vault", "discard vault"}

\* Records are removed when no session is left.
Bare ==
    /\ op.kind = "activate" =>
          /\ op.vault \in {None, op.target.vault}
          /\ op.pc \in {"save vault", "discard vault"} => op.vault # None
          /\ op.vault # None /\ op.pc \notin {"advance epoch", "save vault"} => stored = None
    /\ op.pc \in {"remove vault", "discard vault"} => stored = None
    /\ op.pc = "remove payload" => /\ op.failed \/ stored = None
                                   /\ op.removed => stored = None

ReadyInv ==
    \A c \in Contexts : client[c].pc = "ready" /\ client[c].epoch = epoch
                            => snapshot[client[c].vault] # None

RecordsInv ==
    /\ NoSessionOverDeletedVault
    /\ Installs => snapshot[op.target.vault] # None
    /\ ReadyInv
    /\ Removes => EpochAhead
    /\ op # None => Bare

\* No storage call lets anyone authorize or load; the epoch does not go back.
LEMMA CallHolders ==
    ASSUME TypeInv, TypeInv', Call
    PROVE  /\ epoch \in Nat /\ epoch' \in Nat /\ epoch' >= epoch
           /\ \A c \in Contexts : Holding(c)' => client'[c] = client[c]
<1>1. client \in [Contexts -> Clients] /\ epoch \in Nat /\ epoch' \in Nat
  BY DEF TypeInv, TypeOK
<1>2. epoch' = epoch \/ epoch' = epoch + 1
  BY DEF Call, AdvanceEpoch, SaveTask, ArmAlarm, SavePayload, SaveMaterial, SaveSnapshot,
         RestoreSnapshot, ReadTasks, RemoveMaterial, RemovePayload, RemoveVault, RemoveTask,
         CancelAlarm, SaveVault, DiscardVault, shared
<1>3. epoch' >= epoch
  BY <1>1, <1>2
<1>4. \/ client' = client
      \/ \E y : client' = [client EXCEPT ![op.ctx] = y] /\ y.pc \in {"enrolled", "persisted"}
  <2>1. CASE SaveMaterial
    <3>1. \/ client' = client
          \/ client' = [client EXCEPT ![op.ctx] = [pc |-> "enrolled", session |-> op.target]]
      BY <2>1 DEF SaveMaterial, Activated
    <3> QED
      BY <3>1
  <2>2. CASE SaveSnapshot
    <3>1. \/ client' = client
          \/ client' = [client EXCEPT ![op.ctx] =
                [pc |-> "persisted", session |-> op.target, ver |-> nextVersion + 1]]
      BY <2>2 DEF SaveSnapshot
    <3> QED
      BY <3>1
  <2> QED
    BY <2>1, <2>2
    DEF Call, AdvanceEpoch, SaveTask, ArmAlarm, SavePayload, RestoreSnapshot, ReadTasks,
        RemoveMaterial, RemovePayload, RemoveVault, RemoveTask, CancelAlarm, SaveVault,
        DiscardVault, shared
<1>5. \A c \in Contexts : Holding(c)' => client'[c] = client[c]
  BY <1>1, <1>4 DEF Holding
<1> QED
  BY <1>1, <1>3, <1>5

LEMMA HoldersStay ==
    ASSUME TypeInv, TypeInv', AuthorityInv, epoch' >= epoch,
           \A c \in Contexts : Holding(c)' => client'[c] = client[c]
    PROVE  /\ EpochAhead => EpochAhead'
           /\ ReadyInv /\ (\A v \in Vaults : snapshot[v] # None => snapshot'[v] # None)
                => ReadyInv'
           /\ EpochAhead => ReadyInv'
<1>1. epoch \in Nat /\ epoch' \in Nat
  BY DEF TypeInv, TypeOK
<1>2. \A c \in Contexts : Holding(c) => client[c].epoch \in Nat /\ client[c].epoch <= epoch
  BY HeldEpochs DEF AuthorityInv
<1>3. EpochAhead => EpochAhead'
  BY <1>1, <1>2 DEF EpochAhead, Holding
<1>4. ASSUME NEW c \in Contexts, client'[c].pc = "ready", client'[c].epoch = epoch'
      PROVE  /\ client[c].pc = "ready" /\ client[c].epoch = epoch
             /\ client'[c] = client[c] /\ client[c].vault \in Vaults
  <2>1. client'[c] = client[c] /\ Holding(c)
    BY <1>4 DEF Holding
  <2>2. client[c].epoch = epoch
    BY <1>1, <1>2, <1>4, <2>1
  <2>3. client[c] \in Clients
    BY DEF TypeInv, TypeOK
  <2>4. client[c].vault \in Vaults
    BY <1>4, <2>1, <2>3 DEF Clients, Idle
  <2> QED
    BY <1>4, <2>1, <2>2, <2>4
<1>5. ReadyInv /\ (\A v \in Vaults : snapshot[v] # None => snapshot'[v] # None) => ReadyInv'
  BY <1>4 DEF ReadyInv
<1>6. ASSUME EpochAhead PROVE ReadyInv'
  <2>1. ASSUME NEW c \in Contexts, client'[c].pc = "ready", client'[c].epoch = epoch'
        PROVE  FALSE
    <3>1. client[c].epoch < epoch /\ client[c].epoch = epoch
      BY <1>4, <1>6, <2>1 DEF EpochAhead, Holding
    <3> QED
      BY <1>1, <3>1
  <2> QED
    BY <2>1 DEF ReadyInv
<1> QED
  BY <1>3, <1>5, <1>6

LEMMA RecordsCarry ==
    ASSUME TypeInv, op # None, NEW next \in CallsOf(op.kind),
           \/ Goto(next)
           \/ \E f \in BOOLEAN : Proceed(next, f) /\ (op.failed => f)
           \/ \E f : GoesOn(next, f)
    PROVE  /\ op'.pc = next /\ op'.kind = op.kind /\ op'.target = op.target
           /\ op'.vault = op.vault /\ op'.removed = op.removed /\ (op.failed => op'.failed)
<1>1. op \in Operations /\ next \in Pcs
  BY KindOfCall, CallsArePcs
<1>2. op'.vault = op.vault /\ op'.removed = op.removed
  BY <1>1 DEF Goto, Proceed, GoesOn, Operations
<1> QED
  BY <1>2, GotoCarries


\* What a storage call has to leave behind.
Leaves == op' # None => /\ Bare' /\ (Removes' => EpochAhead \/ EpochAhead')
                        /\ Installs' => snapshot'[op'.target.vault] # None

LEMMA LeavesRecords ==
    ASSUME TypeInv, TypeInv', AuthorityInv, RecordsInv, Call, Leaves,
           NoSessionOverDeletedVault',
           \/ \A v \in Vaults : snapshot[v] # None => snapshot'[v] # None
           \/ EpochAhead
    PROVE  RecordsInv'
<1>1. epoch' >= epoch /\ \A c \in Contexts : Holding(c)' => client'[c] = client[c]
  BY CallHolders
<1>2. ReadyInv' /\ (EpochAhead => EpochAhead')
  BY <1>1, HoldersStay DEF RecordsInv
<1>3. Installs' => op' # None
  BY DEF Installs
<1>4. Removes' => op' # None
  BY DEF Removes
<1> QED
  BY <1>2, <1>3, <1>4 DEF RecordsInv, Leaves

LEMMA RevokesLeaves ==
    ASSUME TypeInv, op # None,
           op' = Revocation(op.ctx, op.known) \/ op' = Removal(op.ctx, op.known)
    PROVE  Leaves
<1>1. op.ctx \in Contexts /\ op.known \in Material \cup {None}
  BY KindOfCall
<1>2. \/ IsOperation(op', "revoke", op.ctx, "advance epoch")
      \/ IsOperation(op', "revoke", op.ctx, "remove material")
  BY <1>1, RevocationType, RemovalType
<1>3. op'.kind = "revoke" /\ op'.pc \in {"advance epoch", "remove material"}
  BY <1>2 DEF IsOperation
<1> QED
  BY <1>3 DEF Leaves, Bare, Removes, Installs, Installing

\* A call that goes on to one before which nothing has to hold.
Plain == {"save snapshot", "restore snapshot", "read tasks", "remove material",
          "remove task", "cancel alarm", "advance epoch"}

LEMMA PlainLeaves ==
    ASSUME TypeInv, AuthorityInv, RecordsInv, op # None, NEW next \in CallsOf(op.kind) \cap Plain,
           op.kind = "activate" => /\ op.pc \notin {"advance epoch", "save vault"}
                                   /\ next # "advance epoch",
           op.kind \in {"delete", "discard"} /\ next \in {"read tasks", "remove material"}
               => Removes,
           \/ Goto(next)
           \/ \E f \in BOOLEAN : Proceed(next, f) /\ (op.failed => f)
           \/ \E f : GoesOn(next, f),
           stored' \in {stored, None}
    PROVE  Leaves
<1>1. /\ op'.pc = next /\ op'.kind = op.kind /\ op'.target = op.target
      /\ op'.vault = op.vault /\ (op.failed => op'.failed)
  BY RecordsCarry
<1>2. Bare
  BY DEF RecordsInv
<1>3. Bare'
  BY <1>1, <1>2 DEF Bare, Plain
<1>4. ~Installs'
  BY <1>1 DEF Installs, Plain, Installing
<1>5. Removes' => Removes
  BY <1>1 DEF Removes, Plain
<1> QED
  BY <1>3, <1>4, <1>5 DEF Leaves, RecordsInv


LEMMA InstallingCallKeepsRecords ==
    ASSUME TypeInv, TypeInv', AuthorityInv, SessionsInv, RecordsInv,
           SaveVault \/ SaveTask \/ ArmAlarm \/ SavePayload
    PROVE  RecordsInv'
<1> USE DEF At
<1>1. /\ op # None /\ op.kind \in {"activate", "commit"} /\ op \in Operations /\ Call
      /\ op.pc \in {"save vault", "save task", "arm alarm", "save payload"}
      /\ stored' = stored
  BY KindOfCall DEF SaveVault, SaveTask, ArmAlarm, SavePayload, Call
<1>2. ASSUME Leaves, \A v \in Vaults : snapshot[v] # None => snapshot'[v] # None
      PROVE  RecordsInv'
  <2>1. NoSessionOverDeletedVault'
    BY <1>1, <1>2, SessionTypes DEF RecordsInv, NoSessionOverDeletedVault, Material
  <2> QED
    BY <1>1, <1>2, <2>1, LeavesRecords
<1>3. Bare
  BY <1>1 DEF RecordsInv
<1>4. CASE SaveVault
  <2>1. op.kind = "activate" /\ op.vault # None /\ op.vault = op.target.vault
    BY <1>1, <1>3, <1>4, KindOfCall DEF SaveVault, Bare
  <2>2. CASE (op' = None \/ op' = Removal(op.ctx, op.known)) /\ snapshot' = snapshot
    BY <1>1, <1>2, <2>2, RevokesLeaves DEF Leaves
  <2>3. CASE /\ Goto("save task") /\ snapshot[op.vault] = None
             /\ snapshot' = [snapshot EXCEPT ![op.vault] = op.target.ver]
    <3>1. /\ op'.kind = op.kind /\ op'.pc = "save task" /\ op'.target = op.target
          /\ op'.vault = op.vault
      BY <1>1, <2>1, <2>3, RecordsCarry DEF CallsOf
    <3>2. /\ snapshot \in [Vaults -> Versions \cup {None}] /\ op.target.vault \in Vaults
          /\ op.target.ver # None
      BY <1>1, <2>1, VersionTypes DEF TypeInv, TypeOK
    <3>3. /\ snapshot'[op'.target.vault] # None
          /\ \A v \in Vaults : snapshot[v] # None => snapshot'[v] # None
      BY <2>1, <2>3, <3>1, <3>2
    <3>4. stored = None
      <4>1. stored # None => stored.vault = op.vault
        BY <1>1, <2>1 DEF SessionsInv
      <4> QED
        BY <2>3, <4>1 DEF RecordsInv, NoSessionOverDeletedVault
    <3>5. Leaves
      BY <1>1, <1>3, <2>1, <3>1, <3>3, <3>4 DEF Leaves, Bare, Removes
    <3> QED
      BY <1>2, <3>3, <3>5
  <2> QED
    BY <1>4, <2>2, <2>3 DEF SaveVault
<1>5. CASE SaveTask \/ ArmAlarm \/ SavePayload
  <2>1. snapshot' = snapshot
    BY <1>5 DEF SaveTask, ArmAlarm, SavePayload
  <2>2. Installs
    BY <1>1, <1>5 DEF Installs, Installing, SaveTask, ArmAlarm, SavePayload
  <2>3. CASE \E next \in CallsOf(op.kind) \cap Installing : Goto(next)
    <3>1. PICK next \in CallsOf(op.kind) : next \in Installing /\ Goto(next)
      BY <2>3
    <3>2. /\ op'.kind = op.kind /\ op'.pc = next /\ op'.target = op.target
          /\ op'.vault = op.vault
      BY <1>1, <3>1, RecordsCarry
    <3>3. Bare'
      BY <1>1, <1>3, <1>5, <3>1, <3>2
      DEF Bare, Installing, SaveTask, ArmAlarm, SavePayload
    <3>4. ~Removes'
      BY <1>1, <3>1, <3>2 DEF Removes, Installing
    <3>5. snapshot'[op'.target.vault] # None
      BY <2>1, <2>2, <3>2 DEF RecordsInv
    <3> QED
      BY <1>2, <2>1, <3>3, <3>4, <3>5 DEF Leaves
  <2>4. CASE op.kind = "activate" /\ \E next \in {"cancel alarm", "remove material"} : Goto(next)
    <3>1. PICK next \in {"cancel alarm", "remove material"} : Goto(next)
      BY <2>4
    <3>2. next \in CallsOf(op.kind) \cap Plain
      BY <2>4, <3>1 DEF CallsOf, Plain
    <3>3. op.pc \notin {"advance epoch", "save vault"} /\ next # "advance epoch"
      BY <1>1, <1>5, <3>1 DEF SaveTask, ArmAlarm, SavePayload
    <3>4. Leaves
      BY <1>1, <2>4, <3>1, <3>2, <3>3, PlainLeaves
    <3> QED
      BY <1>2, <2>1, <3>4
  <2>5. CASE op' = Revocation(op.ctx, op.known)
    BY <1>1, <1>2, <2>1, <2>5, RevokesLeaves
  <2>6. \/ \E next \in CallsOf(op.kind) \cap Installing : Goto(next)
        \/ op.kind = "activate" /\ \E next \in {"cancel alarm", "remove material"} : Goto(next)
        \/ op' = Revocation(op.ctx, op.known)
    <3>1. CASE SaveTask
      <4>1. op.kind = "activate" /\ (Goto("arm alarm") \/ Goto(AfterFailedInstall))
        BY <3>1, KindOfCall DEF SaveTask
      <4> QED
        BY <4>1 DEF AfterFailedInstall, CallsOf, Installing
    <3>2. CASE ArmAlarm
      <4>1. op.kind = "activate" /\ (Goto("save payload") \/ Goto(AfterFailedInstall))
        BY <3>2, KindOfCall DEF ArmAlarm, FirstSave
      <4> QED
        BY <4>1 DEF AfterFailedInstall, CallsOf, Installing
    <3>3. CASE SavePayload
      <4>1. Goto("save material") \/ AfterFailedSave
        BY <3>3 DEF SavePayload
      <4> QED
        BY <1>1, <4>1 DEF AfterFailedSave, CallsOf, Installing
    <3> QED
      BY <1>5, <3>1, <3>2, <3>3
  <2> QED
    BY <2>3, <2>4, <2>5, <2>6
<1> QED
  BY <1>4, <1>5


LEMMA NewEpochAhead ==
    ASSUME TypeInv, AuthorityInv, epoch' = epoch + 1, client' = client
    PROVE  EpochAhead'
<1>1. \A c \in Contexts : Holding(c) => client[c].epoch \in Nat /\ client[c].epoch <= epoch
  BY HeldEpochs DEF AuthorityInv
<1> QED
  BY <1>1 DEF EpochAhead, Holding, TypeInv, TypeOK

LEMMA AdvanceEpochKeepsRecords ==
    ASSUME TypeInv, TypeInv', AuthorityInv, AuthorityInv', RecordsInv, AdvanceEpoch,
           op.kind = "delete" => epoch' = epoch + 1
    PROVE  RecordsInv'
<1> USE DEF At
<1>1. /\ op # None /\ op.pc = "advance epoch" /\ Call /\ op.failed \in BOOLEAN
      /\ stored' = stored /\ snapshot' = snapshot /\ client' = client
  BY KindOfCall DEF AdvanceEpoch, Call
<1>2. ASSUME Leaves PROVE RecordsInv'
  <2>1. NoSessionOverDeletedVault'
    BY <1>1 DEF RecordsInv, NoSessionOverDeletedVault
  <2> QED
    BY <1>1, <1>2, <2>1, LeavesRecords
<1>3. Bare
  BY <1>1 DEF RecordsInv
<1>4. \/ op' = None
      \/ op' = Revocation(op.ctx, op.known)
      \/ op.kind = "activate" /\ op.vault = None /\ Goto("save task")
      \/ op.kind = "activate" /\ op.vault # None /\ Goto("save vault")
      \/ \E next \in {"save snapshot", "restore snapshot"} \cap CallsOf(op.kind) : Goto(next)
      \/ \E f \in {TRUE, FALSE} :
            /\ op.kind \in {"lock", "delete"} /\ Proceed("read tasks", op.failed \/ f)
      \/ \E f \in {TRUE, FALSE} :
            /\ op.kind \in {"alarm", "revoke", "discard"}
            /\ Proceed("remove material", op.failed \/ f)
  BY <1>1 DEF AdvanceEpoch, Finish, Cleanups, CallsOf
<1>5. CASE op' = None \/ op' = Revocation(op.ctx, op.known)
  BY <1>1, <1>2, <1>5, RevokesLeaves DEF Leaves
<1>6. CASE op.kind = "activate" /\ op.vault = None /\ Goto("save task")
  <2>1. /\ op'.kind = op.kind /\ op'.pc = "save task" /\ op'.target = op.target
        /\ op'.vault = op.vault
    BY <1>1, <1>6, RecordsCarry DEF CallsOf
  <2>2. Installs
    BY <1>1, <1>6 DEF Installs
  <2>3. Bare' /\ ~Removes'
    BY <1>3, <1>6, <2>1 DEF Bare, Removes
  <2> QED
    BY <1>1, <1>2, <2>1, <2>2, <2>3 DEF Leaves, RecordsInv
<1>7. CASE op.kind = "activate" /\ op.vault # None /\ Goto("save vault")
  <2>1. /\ op'.kind = op.kind /\ op'.pc = "save vault" /\ op'.target = op.target
        /\ op'.vault = op.vault
    BY <1>1, <1>7, RecordsCarry DEF CallsOf
  <2>2. Bare' /\ ~Removes' /\ ~Installs'
    BY <1>3, <1>7, <2>1 DEF Bare, Removes, Installs, Installing
  <2> QED
    BY <1>2, <2>2 DEF Leaves
<1>8. CASE \E next \in {"save snapshot", "restore snapshot"} \cap CallsOf(op.kind) : Goto(next)
  <2>1. PICK next \in CallsOf(op.kind) : next \in {"save snapshot", "restore snapshot"} /\ Goto(next)
    BY <1>8
  <2>2. op.kind \in {"persist", "rollback"}
    BY <2>1, KindOfCall, <1>1 DEF CallsOf, Kinds, Cleanups
  <2>3. Leaves
    BY <1>1, <2>1, <2>2, PlainLeaves DEF Plain
  <2> QED
    BY <1>2, <2>3
<1>9. CASE \E f \in {TRUE, FALSE} :
              op.kind \in {"lock", "delete"} /\ Proceed("read tasks", op.failed \/ f)
  <2>1. PICK f \in BOOLEAN : Proceed("read tasks", f) /\ (op.failed => f)
    BY <1>1, <1>9
  <2>2. op.kind \in {"lock", "delete"} /\ "read tasks" \in CallsOf(op.kind)
    BY <1>9 DEF CallsOf
  <2>3. CASE op.kind = "lock"
    <3>1. Leaves
      BY <1>1, <2>1, <2>2, <2>3, PlainLeaves DEF Plain
    <3> QED
      BY <1>2, <3>1
  <2>4. CASE op.kind = "delete"
    <3>1. op'.pc = "read tasks" /\ op'.kind = op.kind
      BY <1>1, <2>1, <2>2, RecordsCarry
    <3>3. EpochAhead'
      BY <1>1, <2>4, NewEpochAhead
    <3>4. Bare' /\ ~Installs'
      BY <2>4, <3>1 DEF Bare, Installs
    <3> QED
      BY <1>2, <3>3, <3>4 DEF Leaves
  <2> QED
    BY <2>2, <2>3, <2>4
<1>10. CASE \E f \in {TRUE, FALSE} : /\ op.kind \in {"alarm", "revoke", "discard"}
                                     /\ Proceed("remove material", op.failed \/ f)
  <2>1. PICK f \in BOOLEAN : Proceed("remove material", f) /\ (op.failed => f)
    BY <1>1, <1>10
  <2>2. op.kind \in {"alarm", "revoke", "discard"} /\ "remove material" \in CallsOf(op.kind)
    BY <1>10 DEF CallsOf
  <2>3. op'.kind = op.kind /\ op'.pc = "remove material"
    BY <1>1, <2>1, <2>2, RecordsCarry
  <2>4. Bare' /\ ~Installs'
    BY <2>2, <2>3 DEF Bare, Installs, Installing
  <2>5. op' # None /\ Removes' => EpochAhead'
    <3>1. ASSUME op' # None, Removes' PROVE PastEpoch(op')
      BY <2>2, <2>3, <3>1 DEF Removes, PastEpoch
    <3> QED
      BY <3>1 DEF AuthorityInv
  <2> QED
    BY <1>2, <2>4, <2>5 DEF Leaves
<1> QED
  BY <1>4, <1>5, <1>6, <1>7, <1>8, <1>9, <1>10


LEMMA SaveMaterialKeepsRecords ==
    ASSUME TypeInv, TypeInv', AuthorityInv, RecordsInv, SaveMaterial
    PROVE  RecordsInv'
<1> USE DEF At
<1>1. /\ op # None /\ op.pc = "save material" /\ op.kind \in {"activate", "commit"} /\ Call
      /\ snapshot' = snapshot
  BY KindOfCall DEF SaveMaterial, Call
<1>2. Bare /\ NoSessionOverDeletedVault /\ snapshot[op.target.vault] # None
  BY <1>1 DEF RecordsInv, Installs, Installing
<1>3. stored' \in {stored, op.target}
  BY DEF SaveMaterial
<1>4. NoSessionOverDeletedVault'
  BY <1>1, <1>2, <1>3 DEF NoSessionOverDeletedVault
<1>5. ASSUME Leaves PROVE RecordsInv'
  BY <1>1, <1>4, <1>5, LeavesRecords
<1>6. CASE op' = None
  BY <1>5, <1>6 DEF Leaves
<1>7. CASE op.kind = "commit" /\ Goto("advance epoch")
  <2>1. op'.kind = op.kind /\ op'.pc = "advance epoch"
    BY <1>1, <1>7, RecordsCarry DEF CallsOf
  <2>2. Leaves
    BY <1>7, <2>1 DEF Leaves, Bare, Removes, Installs, Installing
  <2> QED
    BY <1>5, <2>2
<1>8. CASE op' = Revocation(op.ctx, op.known)
  BY <1>1, <1>5, <1>8, RevokesLeaves
<1>9. CASE op.kind = "activate" /\ Goto("remove material") /\ stored' = stored
  <2>1. Leaves
    BY <1>1, <1>9, PlainLeaves DEF Plain, CallsOf
  <2> QED
    BY <1>5, <2>1
<1>10. \/ op' = None
       \/ op.kind = "commit" /\ Goto("advance epoch")
       \/ op' = Revocation(op.ctx, op.known)
       \/ op.kind = "activate" /\ Goto("remove material") /\ stored' = stored
  BY <1>1 DEF SaveMaterial, AfterFailedSave, Finish
<1> QED
  BY <1>6, <1>7, <1>8, <1>9, <1>10

LEMMA SnapshotCallKeepsRecords ==
    ASSUME TypeInv, TypeInv', AuthorityInv, RecordsInv, SaveSnapshot \/ RestoreSnapshot
    PROVE  RecordsInv'
<1> USE DEF At
<1>1. op # None /\ Call /\ stored' = stored
  BY DEF SaveSnapshot, RestoreSnapshot, Call
<1>2. \A v \in Vaults : snapshot[v] # None => snapshot'[v] # None
  <2>1. snapshot \in [Vaults -> Versions \cup {None}] /\ None \notin Versions
    BY MarkersAssumption DEF TypeInv, TypeOK
  <2>2. CASE SaveSnapshot
    <3>1. nextVersion' \in Versions
      BY DEF TypeInv, TypeOK
    <3>2. snapshot' = snapshot \/ snapshot' = [snapshot EXCEPT ![op.target.vault] = nextVersion']
      BY <2>2 DEF SaveSnapshot
    <3> QED
      BY <2>1, <3>1, <3>2
  <2>3. CASE RestoreSnapshot
    <3>1. op.base \in Versions
      BY <1>1, <2>3, KindOfCall, VersionTypes DEF RestoreSnapshot
    <3>2. snapshot' = snapshot \/ snapshot' = [snapshot EXCEPT ![op.target.vault] = op.base]
      BY <2>3 DEF RestoreSnapshot
    <3> QED
      BY <2>1, <3>1, <3>2
  <2> QED
    BY <2>2, <2>3
<1>3. NoSessionOverDeletedVault'
  <2>1. stored # None => stored.vault \in Vaults
    BY VersionTypes
  <2> QED
    BY <1>1, <1>2, <2>1 DEF RecordsInv, NoSessionOverDeletedVault
<1>4. op' = None \/ op' = Revocation(op.ctx, op.known)
  BY DEF SaveSnapshot, RestoreSnapshot, Finish
<1>5. Leaves
  BY <1>1, <1>4, RevokesLeaves DEF Leaves
<1> QED
  BY <1>1, <1>2, <1>3, <1>5, LeavesRecords


LEMMA RemovalCallKeepsRecords ==
    ASSUME TypeInv, TypeInv', AuthorityInv, RecordsInv, ReadTasks \/ RemoveMaterial
    PROVE  RecordsInv'
<1> USE DEF At
<1>1. /\ op # None /\ op \in Operations /\ Call /\ snapshot' = snapshot
      /\ stored' \in {stored, None}
  BY KindOfCall DEF ReadTasks, RemoveMaterial, Call, shared
<1>2. ASSUME Leaves PROVE RecordsInv'
  <2>1. NoSessionOverDeletedVault'
    BY <1>1 DEF RecordsInv, NoSessionOverDeletedVault
  <2> QED
    BY <1>1, <1>2, <2>1, LeavesRecords
<1>3. Bare
  BY <1>1 DEF RecordsInv
<1>4. CASE ReadTasks
  <2>1. op.pc = "read tasks" /\ op.kind \in Cleanups \cup {"discard"}
    BY <1>1, <1>4, KindOfCall DEF ReadTasks
  <2>2. CASE op' = None
    BY <1>2, <2>2 DEF Leaves
  <2>3. CASE \E f : Looked(f)
    <3>1. Continues(AfterTasks)
      BY <1>1, <2>3, LookedType DEF TypeInv, TypeOK
    <3>2. op'.kind = op.kind /\ op'.pc = AfterTasks
      BY <3>1 DEF Continues
    <3>3. /\ op'.kind \in {"lock", "delete", "alarm", "discard"}
          /\ op'.pc \in {"advance epoch", "remove task", "remove material"}
          /\ op'.kind = "discard" => op'.pc = "remove task"
      BY <2>1, <3>2 DEF AfterTasks, Cleanups
    <3>4. Bare' /\ ~Installs'
      BY <3>3 DEF Bare, Installs
    <3>5. Removes' => Removes
      BY <1>1, <2>1, <3>2, <3>3 DEF Removes
    <3> QED
      BY <1>2, <3>4, <3>5 DEF Leaves, RecordsInv
  <2> QED
    BY <1>4, <2>2, <2>3 DEF ReadTasks, Finish
<1>5. CASE RemoveMaterial
  <2>1. /\ op.pc = "remove material"
        /\ op.kind \in Cleanups \cup {"revoke", "activate", "discard"}
    BY <1>1, <1>5, KindOfCall DEF RemoveMaterial
  <2>2. PICK failing : /\ MaterialRemoved(failing)
                       /\ stored' = IF failing = None THEN None ELSE stored
    BY <1>5 DEF RemoveMaterial
  <2> DEFINE r == failing = None
             f == op.failed \/ failing # None
  <2>3. /\ op' = [op EXCEPT !.pc = "remove payload", !.removed = r, !.failed = f]
        /\ r \in BOOLEAN /\ f \in BOOLEAN /\ (r => stored' = None) /\ (f \/ r)
        /\ (~f => ~op.failed)
    BY <2>2 DEF MaterialRemoved
  <2> HIDE DEF r, f
  <2>4. /\ op'.pc = "remove payload" /\ op'.removed = r /\ op'.failed = f
        /\ op'.kind = op.kind /\ op'.vault = op.vault /\ op'.target = op.target
    BY <1>1, <2>3 DEF Operations
  <2>5. Bare'
    BY <1>1, <1>3, <2>1, <2>3, <2>4 DEF Bare
  <2>6. ~Installs'
    BY <2>4 DEF Installs, Installing
  <2>7. Removes' => Removes
    BY <1>1, <2>1, <2>3, <2>4 DEF Removes
  <2> QED
    BY <1>2, <2>5, <2>6, <2>7 DEF Leaves, RecordsInv
<1> QED
  BY <1>4, <1>5

LEMMA RemovePayloadKeepsRecords ==
    ASSUME TypeInv, TypeInv', AuthorityInv, RecordsInv, RemovePayload
    PROVE  RecordsInv'
<1> USE DEF At
<1>1. /\ op # None /\ op \in Operations /\ Call /\ snapshot' = snapshot
      /\ stored' = stored /\ op.pc = "remove payload" /\ op.failed \in BOOLEAN
  BY KindOfCall DEF RemovePayload, Call
<1>2. ASSUME Leaves PROVE RecordsInv'
  <2>1. NoSessionOverDeletedVault'
    BY <1>1 DEF RecordsInv, NoSessionOverDeletedVault
  <2> QED
    BY <1>1, <1>2, <2>1, LeavesRecords
<1>3. Bare
  BY <1>1 DEF RecordsInv
<1>4. CASE op' = None
  BY <1>2, <1>4 DEF Leaves
<1>5. CASE op.kind = "activate" /\ Goto("cancel alarm")
  <2>1. Leaves
    BY <1>1, <1>5, PlainLeaves DEF Plain, CallsOf
  <2> QED
    BY <1>2, <2>1
<1>6. CASE op.kind = "discard" /\ ~op.failed /\ Goto("discard vault")
  <2>1. op'.kind = op.kind /\ op'.pc = "discard vault"
    BY <1>1, <1>6, RecordsCarry DEF CallsOf
  <2>2. stored = None /\ Removes
    BY <1>1, <1>3, <1>6 DEF Bare, Removes
  <2>3. Bare' /\ ~Installs'
    BY <1>1, <1>6, <2>1, <2>2 DEF Bare, Installs
  <2> QED
    BY <1>2, <2>2, <2>3 DEF Leaves, RecordsInv
<1>7. CASE /\ op.kind = "delete" /\ op.removed
           /\ \E b \in {TRUE, FALSE} : Proceed("remove vault", op.failed \/ b)
  <2>1. PICK f \in BOOLEAN : Proceed("remove vault", f) /\ (op.failed => f)
    BY <1>1, <1>7
  <2>2. op'.kind = op.kind /\ op'.pc = "remove vault"
    BY <1>1, <1>7, <2>1, RecordsCarry DEF CallsOf
  <2>3. stored = None /\ Removes
    BY <1>1, <1>3, <1>7 DEF Bare, Removes
  <2>4. Bare' /\ ~Installs'
    BY <1>1, <1>7, <2>2, <2>3 DEF Bare, Installs
  <2> QED
    BY <1>2, <2>3, <2>4 DEF Leaves, RecordsInv
<1>8. CASE /\ op.kind \in Cleanups
           /\ \E b \in {TRUE, FALSE} : Proceed("remove task", op.failed \/ b)
  <2>1. PICK f \in BOOLEAN : Proceed("remove task", f) /\ (op.failed => f)
    BY <1>1, <1>8
  <2>2. Leaves
    BY <1>1, <1>8, <2>1, PlainLeaves DEF Plain, CallsOf, Cleanups
  <2> QED
    BY <1>2, <2>2
<1>9. \/ op' = None
      \/ op.kind = "activate" /\ Goto("cancel alarm")
      \/ op.kind = "discard" /\ ~op.failed /\ Goto("discard vault")
      \/ /\ op.kind = "delete" /\ op.removed
         /\ \E b \in {TRUE, FALSE} : Proceed("remove vault", op.failed \/ b)
      \/ /\ op.kind \in Cleanups
         /\ \E b \in {TRUE, FALSE} : Proceed("remove task", op.failed \/ b)
  BY <1>1 DEF RemovePayload, Finish
<1> QED
  BY <1>4, <1>5, <1>6, <1>7, <1>8, <1>9


LEMMA RetiringCallKeepsRecords ==
    ASSUME TypeInv, TypeInv', AuthorityInv, AuthorityInv', RecordsInv, RemoveTask \/ CancelAlarm
    PROVE  RecordsInv'
<1> USE DEF At
<1>1. /\ op # None /\ op \in Operations /\ Call /\ snapshot' = snapshot
      /\ stored' = stored /\ op.pc \in {"remove task", "cancel alarm"}
  BY KindOfCall DEF RemoveTask, CancelAlarm, Call
<1>2. ASSUME Leaves PROVE RecordsInv'
  <2>1. NoSessionOverDeletedVault'
    BY <1>1 DEF RecordsInv, NoSessionOverDeletedVault
  <2> QED
    BY <1>1, <1>2, <2>1, LeavesRecords
<1>3. Bare
  BY <1>1 DEF RecordsInv
<1>4. CASE op' = None
  BY <1>2, <1>4 DEF Leaves
<1>5. CASE op.kind = "activate" /\ op.vault # None /\ Goto("discard vault")
  <2>1. op'.kind = op.kind /\ op'.pc = "discard vault" /\ op'.target = op.target
        /\ op'.vault = op.vault
    BY <1>1, <1>5, RecordsCarry DEF CallsOf
  <2>2. stored = None
    BY <1>1, <1>3, <1>5 DEF Bare
  <2>3. Bare' /\ ~Installs'
    BY <1>1, <1>3, <1>5, <2>1, <2>2 DEF Bare, Installs, Installing
  <2>4. op' # None => EpochAhead'
    BY <1>5, <2>1 DEF AuthorityInv, PastEpoch
  <2> QED
    BY <1>2, <2>3, <2>4 DEF Leaves
<1>6. CASE \E next \in CallsOf(op.kind) \cap {"remove task", "cancel alarm", "advance epoch"} :
              /\ next = "advance epoch" => op.kind # "activate"
              /\ Goto(next) \/ \E f : GoesOn(next, f)
  <2>1. PICK next \in CallsOf(op.kind) \cap Plain :
           /\ next \in {"remove task", "cancel alarm", "advance epoch"}
           /\ next = "advance epoch" => op.kind # "activate"
           /\ Goto(next) \/ \E f : GoesOn(next, f)
    BY <1>6 DEF Plain
  <2>2. Leaves
    BY <1>1, <2>1, PlainLeaves
  <2> QED
    BY <1>2, <2>2
<1>7. \/ op' = None
      \/ op.kind = "activate" /\ op.vault # None /\ Goto("discard vault")
      \/ \E next \in CallsOf(op.kind) \cap {"remove task", "cancel alarm", "advance epoch"} :
            /\ next = "advance epoch" => op.kind # "activate"
            /\ Goto(next) \/ \E f : GoesOn(next, f)
  BY DEF RemoveTask, CancelAlarm, Finish, RollsVaultBack, CallsOf, Cleanups
<1> QED
  BY <1>4, <1>5, <1>6, <1>7

\* The records of a vault go when no session is left, and when everyone who
\* authorized is behind the epoch.
LEMMA RecordsGo ==
    ASSUME TypeInv, TypeInv', AuthorityInv, RecordsInv, RemoveVault \/ DiscardVault,
           EpochAhead
    PROVE  RecordsInv'
<1> USE DEF At
<1>1. /\ op # None /\ op \in Operations /\ Call /\ stored' = stored
      /\ op.pc \in {"remove vault", "discard vault"}
  BY KindOfCall DEF RemoveVault, DiscardVault, Call
<1>2. stored = None
  BY <1>1 DEF RecordsInv, Bare
<1>3. NoSessionOverDeletedVault'
  BY <1>1, <1>2 DEF NoSessionOverDeletedVault
<1>4. CASE op' = None
  <2>1. Leaves
    BY <1>4 DEF Leaves
  <2> QED
    BY <1>1, <1>3, <2>1, LeavesRecords
<1>5. CASE op.pc = "remove vault" /\ \E b \in {TRUE, FALSE} : Proceed("remove task", op.failed \/ b)
  <2>1. PICK f \in BOOLEAN : Proceed("remove task", f) /\ (op.failed => f)
    BY <1>1, <1>5, KindOfCall
  <2>2. op.kind \in Cleanups
    BY <1>1, <1>5, KindOfCall
  <2>3. Leaves
    BY <1>1, <1>2, <2>1, <2>2, PlainLeaves DEF Plain, CallsOf, Cleanups
  <2> QED
    BY <1>1, <1>3, <2>3, LeavesRecords
<1> QED
  BY <1>4, <1>5 DEF RemoveVault, DiscardVault, Finish

LEMMA CallKeepsRecords ==
    ASSUME TypeInv, TypeInv', AuthorityInv, AuthorityInv', SessionsInv, RecordsInv, Call,
           AdvanceEpoch /\ op.kind = "delete" => epoch' = epoch + 1
    PROVE  RecordsInv'
<1>1. CASE AdvanceEpoch
  BY <1>1, AdvanceEpochKeepsRecords
<1>2. CASE SaveVault \/ SaveTask \/ ArmAlarm \/ SavePayload
  BY <1>2, InstallingCallKeepsRecords
<1>3. CASE SaveMaterial
  BY <1>3, SaveMaterialKeepsRecords
<1>4. CASE SaveSnapshot \/ RestoreSnapshot
  BY <1>4, SnapshotCallKeepsRecords
<1>5. CASE ReadTasks \/ RemoveMaterial
  BY <1>5, RemovalCallKeepsRecords
<1>6. CASE RemovePayload
  BY <1>6, RemovePayloadKeepsRecords
<1>7. CASE RemoveTask \/ CancelAlarm
  BY <1>7, RetiringCallKeepsRecords
<1>8. CASE RemoveVault \/ DiscardVault
  <2>1. EpochAhead
    BY <1>8 DEF RemoveVault, DiscardVault, At, RecordsInv, Removes
  <2> QED
    BY <1>8, <2>1, RecordsGo
<1> QED
  BY <1>1, <1>2, <1>3, <1>4, <1>5, <1>6, <1>7, <1>8 DEF Call


\* Outside the operations: contexts authorize and load, and operations begin.
OutsideStep ==
    /\ epoch' = epoch /\ snapshot' = snapshot /\ stored' = stored
    /\ \A c \in Contexts : client'[c].pc = "ready" =>
          \/ client'[c] = client[c]
          \/ client'[c].vault \in Vaults /\ snapshot[client'[c].vault] # None

\* What an operation has to find when it begins.
Begins ==
    op' # None =>
      /\ op'.pc \in {"advance epoch", "read tasks", "save payload", "restore snapshot"}
      /\ op'.kind = "delete" => op'.pc = "advance epoch"
      /\ op'.kind = "activate" => /\ op'.pc = "advance epoch"
                                  /\ op'.vault \in {None, op'.target.vault}
                                  /\ op'.vault = None => snapshot[op'.target.vault] # None
      /\ op'.kind = "commit" => snapshot[op'.target.vault] # None

LEMMA OutsideReady ==
    ASSUME TypeInv, RecordsInv, OutsideStep
    PROVE  NoSessionOverDeletedVault' /\ ReadyInv'
<1>1. NoSessionOverDeletedVault'
  BY DEF RecordsInv, OutsideStep, NoSessionOverDeletedVault
<1>2. ReadyInv'
  BY DEF RecordsInv, OutsideStep, ReadyInv
<1> QED
  BY <1>1, <1>2

LEMMA OutsideKeepsRecords ==
    ASSUME TypeInv, RecordsInv, OutsideStep,
           \/ Begins
           \/ /\ op' = op
              /\ \A c \in Contexts : Holding(c)' => Holding(c) /\ client'[c].epoch = client[c].epoch
    PROVE  RecordsInv'
<1>1. NoSessionOverDeletedVault' /\ ReadyInv' /\ snapshot' = snapshot /\ stored' = stored
      /\ epoch' = epoch
  BY OutsideReady DEF OutsideStep
<1>2. CASE Begins
  <2>1. op' # None => Bare' /\ ~Removes'
    BY <1>2 DEF Begins, Bare, Removes
  <2>2. ~Removes' \/ op' = None
    BY <2>1
  <2>3. Removes' => op' # None
    BY DEF Removes
  <2>4. ASSUME Installs' PROVE snapshot'[op'.target.vault] # None
    <3>1. op' # None /\ op'.kind \in {"activate", "commit"}
      BY <2>4 DEF Installs
    <3>2. CASE op'.kind = "commit"
      BY <1>1, <1>2, <3>1, <3>2 DEF Begins
    <3>3. CASE op'.kind = "activate"
      <4>1. op'.vault = None
        BY <1>2, <2>4, <3>1, <3>3 DEF Begins, Installs, Installing
      <4> QED
        BY <1>1, <1>2, <3>1, <3>3, <4>1 DEF Begins
    <3> QED
      BY <3>1, <3>2, <3>3
  <2> QED
    BY <1>1, <2>1, <2>2, <2>3, <2>4 DEF RecordsInv
<1>3. CASE /\ op' = op
           /\ \A c \in Contexts : Holding(c)' => Holding(c) /\ client'[c].epoch = client[c].epoch
  <2>1. EpochAhead => EpochAhead'
    BY <1>1, <1>3 DEF EpochAhead
  <2>2. (Installs' <=> Installs) /\ (Removes' <=> Removes) /\ (Bare' <=> Bare)
    BY <1>1, <1>3 DEF Installs, Removes, Bare
  <2> QED
    BY <1>1, <1>3, <2>1, <2>2 DEF RecordsInv
<1> QED
  BY <1>2, <1>3

LEMMA UnlockKeepsRecords ==
    ASSUME TypeInv, AuthorityInv, RecordsInv, NEW c \in Pages, Unlock(c)
    PROVE  RecordsInv'
<1> c \in Contexts
  BY DEF Contexts
<1>1. TypeOK /\ client \in [Contexts -> Clients]
  BY DEF TypeInv, TypeOK
<1>2. epoch' = epoch /\ snapshot' = snapshot /\ stored' = stored
  BY DEF Unlock, Authorize, LoadVault, BeginActivation, RejectActivation, Abandon, shared
<1>3. ASSUME NEW v \in Vaults, Authorize(c, v)
      PROVE  RecordsInv'
  <2>1. op' = None
    BY <1>3 DEF Authorize
  <2>2. client' = client \/ client' = [client EXCEPT ![c] =
                                [pc |-> "authorized", vault |-> v, epoch |-> epoch]]
    BY <1>3 DEF Authorize
  <2>3. OutsideStep
    BY <1>1, <1>2, <2>2 DEF OutsideStep
  <2> QED
    BY <2>1, <2>3, OutsideKeepsRecords DEF Begins
<1>4. CASE LoadVault(c)
  <2>1. /\ client[c].pc = "authorized" /\ op' = op
        /\ client' = [client EXCEPT ![c] = Loaded(c)]
    BY <1>4 DEF LoadVault
  <2>2. client[c].vault \in Vaults
    BY <1>1, <2>1 DEF Clients, Idle
  <2>3. Loaded(c).pc = "ready" => /\ Loaded(c).epoch = client[c].epoch
                                  /\ Loaded(c).vault = client[c].vault
                                  /\ snapshot[client[c].vault] # None
    BY DEF Loaded, Idle
  <2>4. OutsideStep
    BY <1>1, <1>2, <2>1, <2>2, <2>3 DEF OutsideStep
  <2>5. Loaded(c).pc \in {"idle", "ready"}
    BY DEF Loaded, Idle
  <2>6. \A d \in Contexts : Holding(d)' => Holding(d) /\ client'[d].epoch = client[d].epoch
    BY <1>1, <2>1, <2>3, <2>5 DEF Holding
  <2> QED
    BY <2>1, <2>4, <2>6, OutsideKeepsRecords
<1>5. CASE BeginActivation(c)
  <2>1. /\ client[c].pc = "ready" /\ client[c].epoch = epoch
        /\ client' = [client EXCEPT ![c] = Idle]
    BY <1>5 DEF BeginActivation, AuthorityIsCurrent
  <2>2. /\ IsOperation(op', "activate", c, "advance epoch")
        /\ op'.target.vault = client[c].vault /\ op'.vault = None
    BY <1>1, <1>5, ActivationType DEF BeginActivation
  <2>3. snapshot[client[c].vault] # None
    BY <2>1 DEF RecordsInv, ReadyInv
  <2>4. Begins
    BY <2>2, <2>3 DEF Begins, IsOperation
  <2>5. OutsideStep
    BY <1>1, <1>2, <2>1 DEF OutsideStep, Idle
  <2> QED
    BY <2>4, <2>5, OutsideKeepsRecords
<1>6. CASE RejectActivation(c) \/ Abandon(c)
  <2>1. op' = op /\ client' = [client EXCEPT ![c] = Idle]
    BY <1>6 DEF RejectActivation, Abandon
  <2>2. OutsideStep
    BY <1>1, <1>2, <2>1 DEF OutsideStep, Idle
  <2>3. \A d \in Contexts : Holding(d)' => Holding(d) /\ client'[d].epoch = client[d].epoch
    BY <1>1, <2>1 DEF Holding, Idle
  <2> QED
    BY <2>1, <2>2, <2>3, OutsideKeepsRecords
<1> QED
  BY <1>3, <1>4, <1>5, <1>6 DEF Unlock


LEMMA OtherPageStepKeepsRecords ==
    ASSUME TypeInv, RecordsInv, NEW c \in Pages, Arrive(c) \/ Mutate(c) \/ Close(c)
    PROVE  RecordsInv'
<1> c \in Contexts
  BY DEF Contexts
<1>1. TypeOK /\ client \in [Contexts -> Clients]
  BY DEF TypeInv, TypeOK
<1>2. epoch' = epoch /\ snapshot' = snapshot /\ stored' = stored
  BY DEF Arrive, Prepare, BeginArrival, BeginDiscard, Mutate, BeginPersist, BeginCommit,
         BeginRollback, Close, BeginLock, BeginDelete, shared
<1>3. ASSUME client' = client \/ client' = [client EXCEPT ![c] = Idle], Begins
      PROVE  RecordsInv'
  <2>1. OutsideStep
    BY <1>1, <1>2, <1>3 DEF OutsideStep, Idle
  <2> QED
    BY <1>3, <2>1, OutsideKeepsRecords
<1>4. CASE Prepare(c)
  <2>1. /\ op' = op /\ client[c].pc = "authorized"
        /\ client' = [client EXCEPT ![c].pc = "prepared"]
    BY <1>4 DEF Prepare
  <2>2. client[c] \in [pc : {"authorized", "prepared"}, vault : Vaults, epoch : Nat]
    BY <1>1, <2>1 DEF Clients, Idle
  <2>3. client' = [client EXCEPT ![c] = [client[c] EXCEPT !.pc = "prepared"]]
    BY <1>1, <2>1
  <2>4. /\ [client[c] EXCEPT !.pc = "prepared"].pc = "prepared"
        /\ [client[c] EXCEPT !.pc = "prepared"].epoch = client[c].epoch
    BY <2>2
  <2>5. OutsideStep
    BY <1>1, <1>2, <2>3, <2>4 DEF OutsideStep
  <2>6. \A d \in Contexts : Holding(d)' => Holding(d) /\ client'[d].epoch = client[d].epoch
    BY <1>1, <2>1, <2>3, <2>4 DEF Holding
  <2> QED
    BY <2>1, <2>5, <2>6, OutsideKeepsRecords
<1>5. CASE BeginArrival(c)
  <2>1. /\ IsOperation(op', "activate", c, "advance epoch")
        /\ op'.target.vault = client[c].vault /\ op'.vault = client[c].vault
    BY <1>1, <1>5, ArrivalType DEF BeginArrival
  <2>2. client[c].pc = "prepared"
    BY <1>5 DEF BeginArrival
  <2>3. client[c].vault \in Vaults
    BY <1>1, <2>2 DEF Clients, Idle
  <2>4. op'.vault # None
    BY <2>1, <2>3, MarkersAssumption
  <2>5. Begins
    BY <2>1, <2>4 DEF Begins, IsOperation
  <2> QED
    BY <1>3, <1>5, <2>5 DEF BeginArrival
<1>6. CASE BeginDiscard(c)
  <2>1. op' = None \/ op' = Discarding(c)
    BY <1>6 DEF BeginDiscard
  <2>2. op' = Discarding(c) => IsOperation(op', "discard", c, "read tasks")
    BY <1>1, <1>6, DiscardingType DEF BeginDiscard
  <2>3. Begins
    BY <2>1, <2>2 DEF Begins, IsOperation
  <2> QED
    BY <1>3, <1>6, <2>3 DEF BeginDiscard
<1>7. CASE BeginPersist(c)
  <2>1. op' = None \/ op' = Persistence(c)
    BY <1>7 DEF BeginPersist
  <2>2. op' = Persistence(c) => IsOperation(op', "persist", c, "advance epoch")
    BY <1>1, <1>7, PersistenceType DEF BeginPersist
  <2>3. Begins
    BY <2>1, <2>2 DEF Begins, IsOperation
  <2> QED
    BY <1>3, <1>7, <2>3 DEF BeginPersist
<1>8. CASE BeginCommit(c)
  <2>1. op' = None \/ (op' = Commitment(c) /\ IsActiveSession(c, client[c].session))
    BY <1>8 DEF BeginCommit
  <2>2. op' = Commitment(c) => /\ IsOperation(op', "commit", c, "save payload")
                               /\ op'.target.vault = client[c].session.vault
    BY <1>1, <1>8, CommitmentType DEF BeginCommit
  <2>3. IsActiveSession(c, client[c].session) =>
           stored # None /\ stored.vault = client[c].session.vault
    BY <1>1, ReconcileType DEF IsActiveSession
  <2>4. stored # None => snapshot[stored.vault] # None
    BY DEF RecordsInv, NoSessionOverDeletedVault
  <2>5. Begins
    BY <2>1, <2>2, <2>3, <2>4 DEF Begins, IsOperation
  <2> QED
    BY <1>3, <1>8, <2>5 DEF BeginCommit
<1>9. CASE BeginRollback(c)
  <2>1. op' = None \/ op' = Restoration(c)
    BY <1>9 DEF BeginRollback
  <2>2. op' = Restoration(c) => \/ IsOperation(op', "rollback", c, "advance epoch")
                                \/ IsOperation(op', "rollback", c, "restore snapshot")
    BY <1>1, <1>9, RestorationType DEF BeginRollback
  <2>3. Begins
    BY <2>1, <2>2 DEF Begins, IsOperation
  <2> QED
    BY <1>3, <1>9, <2>3 DEF BeginRollback
<1>10. CASE BeginLock(c)
  <2>1. \E failing \in Steps \cup {None} :
           op' = CleanupOf("lock", c, "advance epoch", failing)
    BY <1>10 DEF BeginLock, Failing, Steps
  <2>2. IsOperation(op', "lock", c, "advance epoch")
    BY <1>1, <2>1, LockType
  <2>3. Begins
    BY <2>2 DEF Begins, IsOperation
  <2> QED
    BY <1>3, <1>10, <2>3 DEF BeginLock
<1>11. CASE \E v \in Vaults : BeginDelete(c, v)
  <2>1. op' = None \/ \E v \in Vaults : op' = DeletionOf(c, v)
    BY <1>11 DEF BeginDelete
  <2>2. (\E v \in Vaults : op' = DeletionOf(c, v))
            => IsOperation(op', "delete", c, "advance epoch")
    BY <1>1, DeletionType
  <2>3. Begins
    BY <2>1, <2>2 DEF Begins, IsOperation
  <2> QED
    BY <1>3, <1>11, <2>3 DEF BeginDelete
<1> QED
  BY <1>4, <1>5, <1>6, <1>7, <1>8, <1>9, <1>10, <1>11 DEF Arrive, Mutate, Close

LEMMA OtherStepKeepsRecords ==
    ASSUME TypeInv, RecordsInv,
           \/ \E i \in Ids : Alarm(i)
           \/ \E c \in Contexts : OpenSession(c) \/ GetStatus(c) \/ Die(c)
           \/ BrowserRestart
    PROVE  RecordsInv'
<1>1. TypeOK /\ client \in [Contexts -> Clients]
  BY DEF TypeInv, TypeOK
<1>2. ASSUME epoch' = epoch, snapshot' = snapshot, stored' = stored, client' = client,
             op' = op \/ Begins
      PROVE  RecordsInv'
  <2>1. OutsideStep /\ \A c \in Contexts : Holding(c)' <=> Holding(c)
    BY <1>2 DEF OutsideStep, Holding
  <2> QED
    BY <1>2, <2>1, OutsideKeepsRecords
<1>3. ASSUME NEW i \in Ids, Alarm(i)
      PROVE  RecordsInv'
  <2>1. CASE FireAlarm(i) \/ CheckOwnership(i) \/ ArmRetry(i) \/ SettleRetry(i)
    BY <1>2, <2>1 DEF FireAlarm, CheckOwnership, ArmRetry, SettleRetry
  <2>2. CASE BeginAlarmCleanup(i)
    <3>1. PICK failing \in Steps \cup {None} :
            IF ~OwnsLock(i) THEN UNCHANGED op ELSE op' = AlarmCleanup(i, failing)
      BY <2>2 DEF BeginAlarmCleanup, Failing, Steps
    <3>2. OwnsLock(i) => IsOperation(op', "alarm", Background, "read tasks")
      BY <1>1, <3>1, AlarmCleanupType DEF OwnsLock
    <3>3. op' = op \/ Begins
      BY <3>1, <3>2 DEF Begins, IsOperation
    <3> QED
      BY <1>2, <2>2, <3>3 DEF BeginAlarmCleanup, shared
  <2> QED
    BY <1>3, <2>1, <2>2 DEF Alarm
<1>4. ASSUME NEW c \in Contexts, OpenSession(c)
      PROVE  RecordsInv'
  <2>1. \/ op' = None
        \/ op' = Revocation(c, None)
        \/ op' = Revocation(c, Reconcile(c).material)
    BY <1>4 DEF OpenSession
  <2>2. op' # None => IsOperation(op', "revoke", c, "advance epoch")
    BY <1>1, <2>1, ReconcileType, RevocationType
  <2>3. Begins
    BY <2>2 DEF Begins, IsOperation
  <2>4. client' = client \/ client' = [client EXCEPT ![c] =
                               [pc |-> "mutating", session |-> Reconcile(c).material]]
    BY <1>4 DEF OpenSession
  <2>5. epoch' = epoch /\ snapshot' = snapshot /\ stored' = stored
    BY <1>4 DEF OpenSession, shared
  <2>6. OutsideStep
    BY <1>1, <2>4, <2>5 DEF OutsideStep
  <2> QED
    BY <2>3, <2>6, OutsideKeepsRecords
<1>5. ASSUME NEW c \in Contexts, GetStatus(c)
      PROVE  RecordsInv'
  BY <1>2, <1>5 DEF GetStatus, shared
<1>6. ASSUME NEW c \in Contexts, Die(c)
      PROVE  RecordsInv'
  <2>1. /\ epoch' = epoch /\ snapshot' = snapshot /\ stored' = stored
        /\ op' = None \/ op' = op
        /\ client' = [d \in Contexts |-> IF d \in {c} THEN Idle ELSE client[d]]
    BY <1>6 DEF Die, Forget, shared
  <2>2. OutsideStep
    BY <1>1, <2>1 DEF OutsideStep, Idle
  <2>3. \A d \in Contexts : Holding(d)' => Holding(d) /\ client'[d].epoch = client[d].epoch
    BY <1>1, <2>1 DEF Holding, Idle
  <2> QED
    BY <2>1, <2>2, <2>3, OutsideKeepsRecords DEF Begins
<1>7. CASE BrowserRestart
  <2>1. /\ stored' = None /\ op' = None /\ \A c \in Contexts : client'[c] = Idle
    <3>1. op # None => op.ctx \in Contexts
      BY KindOfCall
    <3> QED
      BY <1>7, <3>1 DEF BrowserRestart, Forget
  <2>2. ReadyInv'
    BY <2>1 DEF ReadyInv, Idle
  <2> QED
    BY <2>1, <2>2 DEF RecordsInv, NoSessionOverDeletedVault, Installs, Removes
<1> QED
  BY <1>3, <1>4, <1>5, <1>6, <1>7

LEMMA RecordsInduction == Spec /\ DeletionsAdvance => []RecordsInv
<1>1. Init => RecordsInv
  BY DEF Init, RecordsInv, NoSessionOverDeletedVault, ReadyInv, Installs, Removes, Idle
<1>2. ASSUME TypeInv, TypeInv', AuthorityInv, AuthorityInv', SessionsInv, RecordsInv,
             [Next]_vars, [AdvanceEpoch /\ op.kind = "delete" => epoch' = epoch + 1]_vars
      PROVE  RecordsInv'
  <2>1. CASE UNCHANGED vars
    <3>1. /\ NoSessionOverDeletedVault' <=> NoSessionOverDeletedVault
          /\ Installs' <=> Installs
          /\ Removes' <=> Removes
          /\ Bare' <=> Bare
          /\ ReadyInv' <=> ReadyInv
          /\ EpochAhead' <=> EpochAhead
      BY <2>1 DEF vars, NoSessionOverDeletedVault, Installs, Removes, Bare, ReadyInv,
                  EpochAhead, Holding
    <3> QED
      BY <1>2, <2>1, <3>1 DEF vars, RecordsInv
  <2>2. CASE Call /\ (AdvanceEpoch /\ op.kind = "delete" => epoch' = epoch + 1)
    BY <1>2, <2>2, CallKeepsRecords
  <2>3. CASE \E c \in Pages : Unlock(c) \/ Arrive(c) \/ Mutate(c) \/ Close(c)
    BY <1>2, <2>3, UnlockKeepsRecords, OtherPageStepKeepsRecords
  <2>4. CASE \/ \E i \in Ids : Alarm(i)
             \/ \E c \in Contexts : OpenSession(c) \/ GetStatus(c) \/ Die(c)
             \/ BrowserRestart
    BY <1>2, <2>4, OtherStepKeepsRecords
  <2> QED
    BY <1>2, <2>1, <2>2, <2>3, <2>4 DEF Next
<1> QED
  BY <1>1, <1>2, TypeInduction, AuthorityInduction, SessionsInduction, PTL
  DEF Spec, DeletionsAdvance

\* No session is stored over a vault whose records are gone, whatever fails and
\* whoever dies, as long as every deletion could write the epoch: who unlocked
\* the vault before its deletion then finds another epoch in
\* activateWithinSessionOperation.
THEOREM DeletedVaultsHaveNoSession ==
    Spec /\ DeletionsAdvance => []NoSessionOverDeletedVault
<1>1. RecordsInv => NoSessionOverDeletedVault
  BY DEF RecordsInv
<1> QED
  BY <1>1, RecordsInduction, PTL

\* In particular where the epoch can always be written.
COROLLARY NoSessionIsOverDeletedVault ==
    ASSUME "epoch" \notin FaultySteps
    PROVE  Spec => []NoSessionOverDeletedVault
<1>1. [Next]_vars => [AdvanceEpoch /\ op.kind = "delete" => epoch' = epoch + 1]_vars
  <2>1. \A failing \in Failing({"epoch"}) : failing = None
    BY DEF Failing
  <2>2. AdvanceEpoch => epoch' = epoch + 1
    BY <2>1 DEF AdvanceEpoch
  <2> QED
    BY <2>2
<1> QED
  BY <1>1, DeletedVaultsHaveNoSession, PTL DEF Spec, DeletionsAdvance


-----------------------------------------------------------------------------
(***************************************************************************)
(* What the contexts remember.  A context that removed a session holds its *)
(* id, or that one was removed, against what it finds stored.  Ids are     *)
(* fresh, so no session that is stored later bears an id that ended.       *)
(***************************************************************************)
\* No session bears this id, now or later.
Ended(i) ==
    /\ i.kind = "known" => i.sid <= opened /\ (stored # None => stored.sid # i.sid)
    /\ i.kind = "unknown" => i.removed

Past(m) == m \notin {None, Unread} => m.sid <= opened

FindsInv ==
    /\ \A c \in Contexts : Past(cache[c]) /\ (cache[c] = None => inval[c] # Valid)
    /\ op # None => Past(op.known)
    /\ faults = 0 => \A c \in Contexts : Ended(inval[c])

LEMMA FindsTypes ==
    ASSUME TypeInv
    PROVE  /\ opened \in Nat /\ faults \in Nat
           /\ None \notin Material /\ Unread \notin Material /\ None # Unread
           /\ \A m \in Material : m.sid \in Nat
           /\ \A c \in Contexts : /\ cache[c] \in Material \cup {None, Unread}
                                  /\ inval[c] \in Invalidations
           /\ stored \in Material \cup {None}
<1>1. \A m \in Material : m.sid \in Nat
  BY DEF Material, Ids
<1> QED
  BY <1>1, ConstantsAssumption, MarkersAssumption DEF TypeInv, TypeOK

LEMMA FindsSession ==
    ASSUME TypeInv, FindsInv
    PROVE  EveryContextFindsTheSession
<1> SUFFICES ASSUME faults = 0, stored # None, NEW c \in Contexts
             PROVE  Reconcile(c).material = stored \/ Reconcile(c).moved
  BY DEF EveryContextFindsTheSession
<1>1. Ended(inval[c])
  BY DEF FindsInv
<1>2. ~Blocked(c)
  BY <1>1 DEF Blocked, Ended
<1>3. ReadThrough(Held(c)) # None
  BY FindsTypes DEF FindsInv, ReadThrough, Held, Evict
<1> QED
  BY <1>2, <1>3 DEF Reconcile

(***************************************************************************)
(* Most steps store no session, and tell a context only what is stored.    *)
(***************************************************************************)
Looks(c) ==
    /\ inval'[c] \in {inval[c], Valid} /\ cache'[c] \in {cache[c], stored, Unread}
    /\ cache'[c] = None => inval'[c] # Valid

Recalls == op' # None => \/ op'.known = None \/ op'.known = stored
                         \/ \E c \in Contexts : op'.known = cache[c]
                         \/ op # None /\ op'.known = op.known

Learns ==
    /\ opened' = opened /\ stored' \in {stored, None} /\ faults' >= faults
    /\ \A c \in Contexts : Looks(c)
    /\ Recalls

LEMMA LearnsKeepsFinds ==
    ASSUME TypeInv, TypeInv', SessionsInv, FindsInv, Learns
    PROVE  FindsInv'
<1>1. Past(stored)
  BY DEF SessionsInv, Past
<1>2. \A c \in Contexts : Past(cache[c])' /\ (cache[c] = None => inval[c] # Valid)'
  BY <1>1 DEF Learns, Looks, FindsInv, Past
<1>3. op' # None => Past(op.known)'
  BY <1>1 DEF Learns, Recalls, FindsInv, Past
<1>4. ASSUME faults' = 0, NEW c \in Contexts
      PROVE  Ended(inval[c])'
  <2>1. faults = 0
    BY <1>4, FindsTypes DEF Learns
  <2>2. Ended(inval[c])
    BY <2>1 DEF FindsInv
  <2>3. CASE inval'[c] = Valid
    BY <2>3 DEF Ended, Valid
  <2>4. CASE inval'[c] = inval[c]
    BY <2>2, <2>4 DEF Ended, Learns
  <2> QED
    BY <2>3, <2>4 DEF Learns, Looks
<1> QED
  BY <1>2, <1>3, <1>4 DEF FindsInv

LEMMA CountGrows ==
    ASSUME TypeInv, \/ faults' = faults
                    \/ \E failing : Count(failing)
    PROVE  faults' >= faults
BY FindsTypes DEF Count

LEMMA ReconcileLooks ==
    ASSUME TypeInv, FindsInv, NEW c \in Contexts
    PROVE  /\ Reconcile(c).inval \in {inval[c], Valid}
           /\ Reconcile(c).cache \in {cache[c], stored, Unread}
           /\ Reconcile(c).cache = None => Reconcile(c).inval # Valid
<1>1. Held(c) \in {cache[c], Unread} /\ (Held(c) # None \/ Blocked(c))
  BY FindsTypes DEF FindsInv, Held, Evict
<1>2. CASE Blocked(c)
  BY <1>2 DEF Reconcile, Blocked
<1>3. CASE ~Blocked(c)
  BY <1>1, <1>3, FindsTypes DEF Reconcile
<1> QED
  BY <1>2, <1>3

LEMMA StaysLooks ==
    ASSUME FindsInv, NEW c \in Contexts, cache'[c] = cache[c], inval'[c] = inval[c]
    PROVE  Looks(c)
BY DEF Looks, FindsInv

LEMMA ReconciledLooks ==
    ASSUME TypeInv, FindsInv, NEW c \in Contexts, Reconciled(c)
    PROVE  \A d \in Contexts : Looks(d)
<1> SUFFICES ASSUME NEW d \in Contexts PROVE Looks(d)
  OBVIOUS
<1>1. cache \in [Contexts -> Material \cup {None, Unread}] /\ inval \in [Contexts -> Invalidations]
  BY DEF TypeInv, TypeOK
<1>2. CASE d = c
  BY <1>1, <1>2, ReconcileLooks DEF Reconciled, Looks
<1>3. CASE d # c
  BY <1>1, <1>3, StaysLooks DEF Reconciled
<1> QED
  BY <1>2, <1>3


\* What the operations of every shape know of the session.
LEMMA KnownOfOperations ==
    ASSUME NEW kind, NEW c, NEW pc, NEW t, NEW b, NEW k, NEW a, NEW v
    PROVE  /\ [Operation(kind, c, pc) EXCEPT !.known = k].known = k
           /\ [Operation(kind, c, pc) EXCEPT !.target = t, !.known = k].known = k
           /\ [Operation(kind, c, pc) EXCEPT !.target = t, !.known = k, !.action = a].known = k
           /\ [Operation(kind, c, pc) EXCEPT !.target = t, !.known = k, !.action = a,
                                             !.vault = v].known = k
           /\ [Operation(kind, c, pc) EXCEPT !.target = t, !.known = k, !.vault = v].known = k
           /\ [[Operation(kind, c, pc) EXCEPT !.known = k] EXCEPT !.pc = v].known = k
BY DEF Operation

LEMMA KnownOfRestoration ==
    ASSUME NEW kind, NEW c, NEW pc, NEW t, NEW b, NEW k
    PROVE  [Operation(kind, c, pc) EXCEPT !.target = t, !.base = b, !.known = k].known = k
BY DEF Operation

\* A cleanup that could not read the identity knows what its cache holds.
Remembers(c, m) == m \in {Reconcile(c).material, None, ReadThrough(cache[c])}

LEMMA CleanupRemembers ==
    ASSUME NEW c, NEW kind, NEW pc, NEW failing, NEW v, NEW a, NEW g, NEW o,
           o = CleanupOf(kind, c, pc, failing)
    PROVE  /\ Remembers(c, o.known)
           /\ Remembers(c, [o EXCEPT !.vault = v].known)
           /\ Remembers(c, [o EXCEPT !.action = a, !.vault = v, !.taskFailed = g].known)
<1> DEFINE k == IF failing # "read" THEN Reconcile(c).material
                ELSE IF inval[c] = Valid THEN ReadThrough(cache[c]) ELSE None
           h == (failing = "read") \/ stored # None
           f == failing = "read"
<1>1. Remembers(c, k)
  BY DEF Remembers
<1>2. o = [Operation(kind, c, pc) EXCEPT !.known = k, !.had = h, !.failed = f]
  BY DEF CleanupOf
<1> HIDE DEF k, h, f
<1>3. /\ o.known = k
      /\ [o EXCEPT !.vault = v].known = k
      /\ [o EXCEPT !.action = a, !.vault = v, !.taskFailed = g].known = k
  <2> DEFINE p == Operation(kind, c, pc)
  <2>1. DOMAIN p = {"kind", "ctx", "pc", "target", "base", "known", "action", "vault",
                    "had", "removed", "failed", "taskFailed"}
    BY DEF Operation
  <2>2. o = [p EXCEPT !.known = k, !.had = h, !.failed = f]
    BY <1>2
  <2> HIDE DEF p
  <2> QED
    BY <2>1, <2>2
<1> QED
  BY <1>1, <1>3

LEMMA KnownOnceBegun ==
    ASSUME NEW c, NEW m, NEW v, NEW i, NEW failing, NEW kind, NEW pc
    PROVE  /\ Revocation(c, m).known = m /\ Removal(c, m).known = m
           /\ Activation(c).known = Reconcile(c).material
           /\ Arrival(c).known = Reconcile(c).material
           /\ Discarding(c).known = Reconcile(c).material
           /\ Commitment(c).known = Reconcile(c).material
           /\ Restoration(c).known = Reconcile(c).material
           /\ Persistence(c).known = None
           /\ Remembers(c, CleanupOf(kind, c, pc, failing).known)
           /\ Remembers(c, DeletionOf(c, v).known)
           /\ Remembers(Background, AlarmCleanup(i, failing).known)
<1>1. Revocation(c, m).known = m /\ Removal(c, m).known = m
  BY KnownOfOperations DEF Revocation, Removal
<1>2. Activation(c).known = Reconcile(c).material /\ Arrival(c).known = Reconcile(c).material
  BY KnownOfOperations DEF Activation, Arrival
<1>3. Discarding(c).known = Reconcile(c).material /\ Commitment(c).known = Reconcile(c).material
  BY KnownOfOperations DEF Discarding, Commitment
<1>4. Restoration(c).known = Reconcile(c).material
  <2> DEFINE pc0 == IF Reconcile(c).material = None THEN "advance epoch" ELSE "restore snapshot"
             t0 == AtVersion(client[c].session, client[c].ver)
             b0 == client[c].session.ver
             k0 == Reconcile(c).material
  <2>1. Restoration(c) = [Operation("rollback", c, pc0) EXCEPT
                             !.target = t0, !.base = b0, !.known = k0]
    BY DEF Restoration
  <2> HIDE DEF pc0, t0, b0, k0
  <2>2. Restoration(c).known = k0
    BY <2>1, KnownOfRestoration
  <2> QED
    BY <2>2 DEF k0
<1>5. Persistence(c).known = None
  <2> DEFINE o == Operation("persist", c, "advance epoch")
  <2>1. DOMAIN o = {"kind", "ctx", "pc", "target", "base", "known", "action", "vault",
                    "had", "removed", "failed", "taskFailed"} /\ o.known = None
    BY DEF Operation
  <2> HIDE DEF o
  <2>2. [o EXCEPT !.target = client[c].session].known = o.known
    BY <2>1
  <2> QED
    BY <2>1, <2>2 DEF Persistence, o
<1>6. Remembers(c, CleanupOf(kind, c, pc, failing).known)
  BY CleanupRemembers
<1>7. Remembers(c, DeletionOf(c, v).known)
  BY CleanupRemembers DEF DeletionOf
<1>8. Remembers(Background, AlarmCleanup(i, failing).known)
  BY CleanupRemembers DEF AlarmCleanup
<1> QED
  BY <1>1, <1>2, <1>3, <1>4, <1>5, <1>6, <1>7, <1>8


(***************************************************************************)
(* The storage calls.                                                      *)
(***************************************************************************)
\* The operation goes on or ends, or one that revokes the session follows it.
Carries == \/ \E pc : Goto(pc)
           \/ \E pc, f : Proceed(pc, f)
           \/ \E pc, f : GoesOn(pc, f)
           \/ \E f : Looked(f)
           \/ \E f : MaterialRemoved(f)
           \/ \E f : Finish(f)
           \/ op' = None
           \/ op' = Revocation(op.ctx, op.known)
           \/ op' = Removal(op.ctx, op.known)

LEMMA KnownCarries ==
    ASSUME TypeInv, op # None, Carries
    PROVE  Recalls
<1>1. op \in Operations
  BY KindOfCall
<1>2. CASE \E pc : Goto(pc)
  BY <1>1, <1>2 DEF Goto, Operations, Recalls
<1>3. CASE \E pc, f : Proceed(pc, f)
  BY <1>1, <1>3 DEF Proceed, Operations, Recalls
<1>4. CASE \E pc, f : GoesOn(pc, f)
  BY <1>1, <1>4 DEF GoesOn, Operations, Recalls
<1>5. CASE \E f : Looked(f)
  BY <1>1, <1>5 DEF Looked, Operations, Recalls
<1>6. CASE \E f : MaterialRemoved(f)
  BY <1>1, <1>6 DEF MaterialRemoved, Operations, Recalls
<1>7. CASE op' = None \/ \E f : Finish(f)
  BY <1>7 DEF Finish, Recalls
<1>8. CASE op' = Revocation(op.ctx, op.known) \/ op' = Removal(op.ctx, op.known)
  BY <1>8, KnownOnceBegun DEF Recalls
<1> QED
  BY <1>2, <1>3, <1>4, <1>5, <1>6, <1>7, <1>8 DEF Carries

LEMMA CallRecalls ==
    ASSUME TypeInv, Call
    PROVE  op # None /\ Recalls /\ Carries /\ faults' >= faults
<1> USE DEF At
<1>1. op # None
  BY DEF Call, AdvanceEpoch, SaveTask, ArmAlarm, SavePayload, SaveMaterial, SaveSnapshot,
         RestoreSnapshot, ReadTasks, RemoveMaterial, RemovePayload, RemoveVault, RemoveTask,
         CancelAlarm, SaveVault, DiscardVault
<1>2. \E failing : Count(failing)
  BY DEF Call, AdvanceEpoch, SaveTask, ArmAlarm, SavePayload, SaveMaterial, SaveSnapshot,
         RestoreSnapshot, ReadTasks, RemoveMaterial, RemovePayload, RemoveVault, RemoveTask,
         CancelAlarm, SaveVault, DiscardVault
<1>3. AdvanceEpoch => Carries
  BY Zenon DEF AdvanceEpoch, Carries
<1>4. SaveTask => Carries
  BY Zenon DEF SaveTask, Carries
<1>5. ArmAlarm => Carries
  BY Zenon DEF ArmAlarm, Carries
<1>6. SavePayload => Carries
  BY Zenon DEF SavePayload, Carries, AfterFailedSave
<1>7. SaveMaterial => Carries
  BY Zenon DEF SaveMaterial, Carries, AfterFailedSave
<1>8. SaveSnapshot => Carries
  BY Zenon DEF SaveSnapshot, Carries
<1>9. RestoreSnapshot => Carries
  BY Zenon DEF RestoreSnapshot, Carries
<1>10. ReadTasks => Carries
  BY Zenon DEF ReadTasks, Carries
<1>11. RemoveMaterial => Carries
  BY Zenon DEF RemoveMaterial, Carries
<1>12. RemovePayload => Carries
  BY Zenon DEF RemovePayload, Carries
<1>13. RemoveVault => Carries
  BY Zenon DEF RemoveVault, Carries
<1>14. RemoveTask => Carries
  BY Zenon DEF RemoveTask, Carries
<1>15. CancelAlarm => Carries
  BY Zenon DEF CancelAlarm, Carries
<1>16. SaveVault => Carries
  BY Zenon DEF SaveVault, Carries
<1>17. DiscardVault => Carries
  BY Zenon DEF DiscardVault, Carries
<1> QED
  BY <1>1, <1>2, <1>3, <1>4, <1>5, <1>6, <1>7, <1>8, <1>9, <1>10, <1>11, <1>12, <1>13, <1>14, <1>15, <1>16, <1>17,
     KnownCarries, CountGrows DEF Call

LEMMA SaveMaterialKeepsFinds ==
    ASSUME TypeInv, TypeInv', SessionsInv, FindsInv, SaveMaterial
    PROVE  FindsInv'
<1> USE DEF At
<1>1. /\ op # None /\ op.pc = "save material" /\ op.kind \in {"activate", "commit"} /\ Call
      /\ op.ctx \in Contexts /\ op.target \in Material /\ op.target # None
  BY KindOfCall, FindsTypes DEF SaveMaterial, Call, WellFormed
<1>2. Recalls /\ faults' >= faults
  BY <1>1, CallRecalls
<1>3. CASE stored' = stored /\ opened' = opened /\ cache' = cache /\ inval' = inval
  <2>1. Learns
    BY <1>2, <1>3, StaysLooks DEF Learns
  <2> QED
    BY <2>1, LearnsKeepsFinds
<1>4. ASSUME op.kind = "activate", stored' = op.target, opened' = op.target.sid, op' = None,
             cache' = [cache EXCEPT ![op.ctx] = op.target],
             inval' = [inval EXCEPT ![op.ctx] = Valid]
      PROVE  FindsInv'
  <2>1. opened < op.target.sid /\ op.target.sid \in Nat
    BY <1>1, <1>4, FindsTypes DEF SessionsInv
  <2>2. cache \in [Contexts -> Material \cup {None, Unread}] /\ inval \in [Contexts -> Invalidations]
    BY DEF TypeInv, TypeOK
  <2>3. ASSUME NEW c \in Contexts
        PROVE  Past(cache[c])' /\ (cache[c] = None => inval[c] # Valid)'
    <3>1. cache'[c] = op.target \/ (cache'[c] = cache[c] /\ inval'[c] = inval[c])
      BY <1>1, <1>4, <2>2
    <3>2. Past(cache[c]) /\ (cache[c] = None => inval[c] # Valid)
      BY DEF FindsInv
    <3>3. cache[c] \notin {None, Unread} => cache[c].sid \in Nat
      BY FindsTypes
    <3>4. opened \in Nat /\ op.target # None /\ opened' = op.target.sid
      BY <1>1, <1>4, FindsTypes
    <3> QED
      BY <2>1, <3>1, <3>2, <3>3, <3>4 DEF Past
  <2>4. ASSUME faults' = 0, NEW c \in Contexts
        PROVE  Ended(inval[c])'
    <3>1. faults = 0
      BY <1>2, <2>4, FindsTypes
    <3>2. inval'[c] = inval[c] \/ inval'[c] = Valid
      BY <1>1, <1>4, <2>2
    <3>3. inval[c].kind = "known" => inval[c].sid \in Nat /\ inval[c].sid <= opened
      BY <3>1, FindsTypes DEF FindsInv, Ended, Invalidations, Valid, Known, Unknown, Ids
    <3>4. Ended(inval[c])
      BY <3>1 DEF FindsInv
    <3>5. CASE inval'[c] = Valid
      BY <3>5 DEF Ended, Valid
    <3>6. CASE inval'[c] = inval[c]
      BY <1>4, <2>1, <3>3, <3>4, <3>6, FindsTypes DEF Ended
    <3> QED
      BY <3>2, <3>5, <3>6
  <2> QED
    BY <1>4, <2>3, <2>4 DEF FindsInv
<1>5. ASSUME op.kind = "commit", stored' = op.target, opened' = opened, inval' = inval,
             cache' = [cache EXCEPT ![op.ctx] = op.target]
      PROVE  FindsInv'
  <2>1. stored # None /\ stored.sid = op.target.sid /\ stored.sid <= opened
    BY <1>1, <1>5 DEF SessionsInv, Installing
  <2>2. cache \in [Contexts -> Material \cup {None, Unread}]
    BY DEF TypeInv, TypeOK
  <2>3. \A c \in Contexts : Past(cache[c])' /\ (cache[c] = None => inval[c] # Valid)'
    BY <1>1, <1>5, <2>1, <2>2 DEF FindsInv, Past
  <2>4. \A c \in Contexts : Ended(inval[c]) => Ended(inval[c])'
    BY <1>5, <2>1 DEF Ended
  <2>5. faults' = 0 => faults = 0
    BY <1>2, FindsTypes
  <2>6. op' # None => Past(op.known)'
    <3>1. Past(stored)
      BY <2>1 DEF Past
    <3> QED
      BY <1>2, <1>5, <3>1 DEF Recalls, FindsInv, Past
  <2> QED
    BY <2>3, <2>4, <2>5, <2>6 DEF FindsInv
<1> QED
  <2>1. \/ op.kind = "activate" /\ op.kind # "commit"
        \/ op.kind = "commit" /\ op.kind # "activate"
    BY <1>1
  <2>2. \/ stored' = stored /\ opened' = opened /\ cache' = cache /\ inval' = inval
        \/ /\ stored' = op.target /\ cache' = [cache EXCEPT ![op.ctx] = op.target]
           /\ opened' = IF op.kind = "activate" THEN op.target.sid ELSE opened
           /\ IF op.kind = "commit" THEN inval' = inval
              ELSE op' = None /\ inval' = [inval EXCEPT ![op.ctx] = Valid]
    BY Zenon DEF SaveMaterial, Finish, local
  <2> QED
    BY <1>3, <1>4, <1>5, <2>1, <2>2


LEMMA RemoveMaterialKeepsFinds ==
    ASSUME TypeInv, TypeInv', SessionsInv, FindsInv, RemoveMaterial
    PROVE  FindsInv'
<1> USE DEF At
<1>1. Call /\ op # None /\ op.ctx \in Contexts /\ op.known \in Material \cup {None}
  BY KindOfCall DEF RemoveMaterial, Call
<1>2. Recalls /\ faults' >= faults
  BY <1>1, CallRecalls
<1>3. PICK failing :
        /\ Count(failing)
        /\ stored' = IF failing = None THEN None ELSE stored
        /\ cache' = [cache EXCEPT ![op.ctx] = None]
        /\ inval' = [inval EXCEPT ![op.ctx] =
              IF Removing # None THEN Known(Removing.sid) ELSE Unknown(failing = None)]
        /\ opened' = opened
  BY DEF RemoveMaterial
<1>4. /\ cache \in [Contexts -> Material \cup {None, Unread}]
      /\ inval \in [Contexts -> Invalidations]
      /\ stored \in Material \cup {None} /\ opened \in Nat /\ faults \in Nat
  BY FindsTypes DEF TypeInv, TypeOK
<1>5. Removing # None => Removing.sid <= opened
  <2>1. Past(op.known) /\ Past(stored) /\ Past(cache[op.ctx])
    BY <1>1 DEF FindsInv, SessionsInv, Past
  <2>2. Removing # None => Removing \in {op.known, stored, cache[op.ctx]} \ {None, Unread}
    BY <1>1, <1>4, FindsTypes DEF Removing, ReadThrough
  <2> QED
    BY <2>1, <2>2 DEF Past
<1>6. ASSUME NEW c \in Contexts
      PROVE  /\ Past(cache[c])' /\ (cache[c] = None => inval[c] # Valid)'
             /\ faults' = 0 => Ended(inval[c])'
  <2>1. faults' = 0 => stored' = None /\ faults = 0
    BY <1>3, <1>4 DEF Count
  <2>2. CASE c = op.ctx
    <3>1. cache'[c] = None
      BY <1>1, <1>3, <1>4, <2>2
    <3>2. \/ Removing # None /\ inval'[c] = Known(Removing.sid)
          \/ Removing = None /\ inval'[c] = Unknown(failing = None)
      BY <1>1, <1>3, <1>4, <2>2
    <3>3. inval'[c] # Valid
      BY <3>2 DEF Known, Unknown, Valid
    <3>4. faults' = 0 => failing = None
      BY <1>3, <1>4 DEF Count
    <3>5. faults' = 0 => Ended(inval[c])'
      <4>1. CASE Removing # None
        BY <1>3, <1>5, <2>1, <3>2, <4>1 DEF Ended, Known
      <4>2. CASE Removing = None
        <5>1. PICK b \in BOOLEAN : b = (failing = None)
          BY Zenon
        <5>2. inval'[c] = Unknown(b)
          BY <3>2, <4>2, <5>1
        <5>3. inval'[c].kind = "unknown" /\ inval'[c].removed = b
          BY <5>2 DEF Unknown
        <5>4. faults' = 0 => b = TRUE
          BY <3>4, <5>1
        <5> QED
          BY <5>3, <5>4 DEF Ended
      <4> QED
        BY <4>1, <4>2
    <3> QED
      BY <3>1, <3>3, <3>5 DEF Past
  <2>3. CASE c # op.ctx
    <3>1. cache'[c] = cache[c] /\ inval'[c] = inval[c]
      BY <1>1, <1>3, <1>4, <2>3
    <3> QED
      BY <1>3, <2>1, <3>1 DEF FindsInv, Past, Ended
  <2> QED
    BY <2>2, <2>3
<1>7. op' # None => Past(op.known)'
  <2>1. Past(stored)
    BY DEF SessionsInv, Past
  <2> QED
    BY <1>2, <1>3, <2>1 DEF Recalls, FindsInv, Past
<1> QED
  BY <1>6, <1>7 DEF FindsInv

LEMMA CallKeepsFinds ==
    ASSUME TypeInv, TypeInv', SessionsInv, FindsInv, Call
    PROVE  FindsInv'
<1>1. CASE SaveMaterial \/ RemoveMaterial
  BY <1>1, SaveMaterialKeepsFinds, RemoveMaterialKeepsFinds
<1>2. CASE ~SaveMaterial /\ ~RemoveMaterial
  <2>1. stored' = stored /\ opened' = opened /\ cache' = cache /\ inval' = inval
    BY <1>2 DEF Call, AdvanceEpoch, SaveTask, ArmAlarm, SavePayload, SaveSnapshot,
       RestoreSnapshot, ReadTasks, RemovePayload, RemoveVault, RemoveTask, CancelAlarm,
       SaveVault, DiscardVault, shared, local
  <2>2. Learns
    BY <2>1, CallRecalls, StaysLooks DEF Learns
  <2> QED
    BY <2>2, LearnsKeepsFinds
<1> QED
  BY <1>1, <1>2

(***************************************************************************)
(* The steps outside the session operations.                               *)
(***************************************************************************)
LEMMA RemembersRecalls ==
    ASSUME TypeInv, NEW c \in Contexts, op' # None => Remembers(c, op'.known)
    PROVE  Recalls
<1>1. Reconcile(c).material \in {None, stored}
  BY ReconcileType DEF TypeInv
<1>2. ReadThrough(cache[c]) \in {stored, cache[c]}
  BY DEF ReadThrough
<1> QED
  BY <1>1, <1>2 DEF Remembers, Recalls

LEMMA OutsideKeepsFinds ==
    ASSUME TypeInv, TypeInv', SessionsInv, FindsInv,
           stored' = stored, opened' = opened,
           faults' = faults \/ \E failing : Count(failing),
           \/ cache' = cache /\ inval' = inval
           \/ \E c \in Contexts : Reconciled(c),
           \/ op' = op
           \/ op' = None
           \/ \E c \in Contexts : op' # None => Remembers(c, op'.known)
    PROVE  FindsInv'
<1>1. \A c \in Contexts : Looks(c)
  BY StaysLooks, ReconciledLooks
<1>2. Recalls
  BY RemembersRecalls DEF Recalls
<1>3. faults' >= faults
  BY CountGrows
<1>4. Learns
  BY <1>1, <1>2, <1>3 DEF Learns
<1> QED
  BY <1>4, LearnsKeepsFinds

LEMMA PageStepKeepsFinds ==
    ASSUME TypeInv, TypeInv', SessionsInv, FindsInv, NEW c \in Pages,
           Unlock(c) \/ Arrive(c) \/ Mutate(c) \/ Close(c)
    PROVE  FindsInv'
<1> c \in Contexts
  BY DEF Contexts
<1>1. stored' = stored /\ opened' = opened
  BY DEF Unlock, Authorize, LoadVault, BeginActivation, RejectActivation, Abandon, Arrive,
         Prepare, BeginArrival, BeginDiscard, Mutate, BeginPersist, BeginCommit,
         BeginRollback, Close, BeginLock, BeginDelete, shared
<1>2. faults' = faults \/ \E failing : Count(failing)
  BY DEF Unlock, Authorize, LoadVault, BeginActivation, RejectActivation, Abandon, Arrive,
         Prepare, BeginArrival, BeginDiscard, Mutate, BeginPersist, BeginCommit,
         BeginRollback, Close, BeginLock, BeginDelete
<1>3. (cache' = cache /\ inval' = inval) \/ Reconciled(c)
  BY Zenon DEF Unlock, Authorize, LoadVault, BeginActivation, RejectActivation, Abandon, Arrive,
         Prepare, BeginArrival, BeginDiscard, Mutate, BeginPersist, BeginCommit,
         BeginRollback, Close, BeginLock, BeginDelete, ReconciledUnless, local
<1>4. \/ op' = op \/ op' = None
      \/ op' = Activation(c) \/ op' = Arrival(c) \/ op' = Discarding(c)
      \/ op' = Persistence(c) \/ op' = Commitment(c) \/ op' = Restoration(c)
      \/ \E failing : op' = CleanupOf("lock", c, "advance epoch", failing)
      \/ \E v \in Vaults : op' = DeletionOf(c, v)
  BY Zenon DEF Unlock, Authorize, LoadVault, BeginActivation, RejectActivation, Abandon, Arrive,
         Prepare, BeginArrival, BeginDiscard, Mutate, BeginPersist, BeginCommit,
         BeginRollback, Close, BeginLock, BeginDelete
<1>5. op' = op \/ op' = None \/ Remembers(c, op'.known)
  <2> Remembers(c, Reconcile(c).material) /\ Remembers(c, None)
    BY DEF Remembers
  <2>1. /\ Activation(c).known = Reconcile(c).material
        /\ Arrival(c).known = Reconcile(c).material
        /\ Discarding(c).known = Reconcile(c).material
        /\ Commitment(c).known = Reconcile(c).material
        /\ Restoration(c).known = Reconcile(c).material
        /\ Persistence(c).known = None
        /\ \A failing : Remembers(c, CleanupOf("lock", c, "advance epoch", failing).known)
        /\ \A v : Remembers(c, DeletionOf(c, v).known)
    BY KnownOnceBegun, Zenon
  <2> QED
    BY <1>4, <2>1, Zenon
<1> QED
  BY <1>1, <1>2, <1>3, <1>5, OutsideKeepsFinds

LEMMA OtherStepKeepsFinds ==
    ASSUME TypeInv, TypeInv', SessionsInv, FindsInv,
           \/ \E i \in Ids : Alarm(i)
           \/ \E c \in Contexts : OpenSession(c) \/ GetStatus(c) \/ Die(c)
           \/ BrowserRestart
    PROVE  FindsInv'
<1>1. ASSUME NEW i \in Ids, Alarm(i)
      PROVE  FindsInv'
  <2>1. /\ stored' = stored /\ opened' = opened
        /\ faults' = faults \/ \E failing : Count(failing)
        /\ (cache' = cache /\ inval' = inval) \/ Reconciled(Background)
    BY <1>1, Zenon DEF Alarm, FireAlarm, CheckOwnership, ArmRetry, BeginAlarmCleanup, SettleRetry,
       ReconciledUnless, shared, local
  <2>2. op' = op \/ op' = None \/ \E failing : op' = AlarmCleanup(i, failing)
    BY <1>1, Zenon DEF Alarm, FireAlarm, CheckOwnership, ArmRetry, BeginAlarmCleanup, SettleRetry
  <2>3. Background \in Contexts
    BY DEF Contexts
  <2>4. op' = op \/ op' = None \/ Remembers(Background, op'.known)
    BY <2>2, KnownOnceBegun
  <2> QED
    BY <2>1, <2>3, <2>4, OutsideKeepsFinds
<1>2. ASSUME NEW c \in Contexts, OpenSession(c)
      PROVE  FindsInv'
  <2>1. /\ stored' = stored /\ opened' = opened /\ \E failing : Count(failing)
        /\ (cache' = cache /\ inval' = inval) \/ Reconciled(c)
    BY <1>2, Zenon DEF OpenSession, shared, local
  <2>2. \/ op' = None
        \/ op' = Revocation(c, None)
        \/ op' = Revocation(c, Reconcile(c).material)
    BY <1>2, Zenon DEF OpenSession
  <2>3. op' = None \/ Remembers(c, op'.known)
    <3>1. Revocation(c, None).known = None
      BY KnownOnceBegun
    <3>2. Revocation(c, Reconcile(c).material).known = Reconcile(c).material
      BY KnownOnceBegun
    <3> QED
      BY <2>2, <3>1, <3>2 DEF Remembers
  <2> QED
    BY <2>1, <2>3, OutsideKeepsFinds
<1>3. ASSUME NEW c \in Contexts, GetStatus(c)
      PROVE  FindsInv'
  <2>1. /\ cache \in [Contexts -> Material \cup {None, Unread}]
        /\ inval \in [Contexts -> Invalidations]
    BY DEF TypeInv, TypeOK
  <2>2. PICK held \in {Reconcile(c).cache, Evict(Reconcile(c).cache, None)} :
          /\ cache' = [cache EXCEPT ![c] = held]
          /\ inval' = [inval EXCEPT ![c] = Reconcile(c).inval]
    BY <1>3 DEF GetStatus
  <2>3. held = Reconcile(c).cache \/ held = Unread
    BY <2>2 DEF Evict
  <2>4. \A d \in Contexts \ {c} : Looks(d)
    BY <2>1, <2>2, StaysLooks
  <2>5. Looks(c)
    BY <2>1, <2>2, <2>3, ReconcileLooks, FindsTypes DEF Looks
  <2>6. stored' = stored /\ opened' = opened /\ faults' = faults /\ op' = op
    BY <1>3 DEF GetStatus, shared
  <2>7. Learns
    BY <2>4, <2>5, <2>6, CountGrows DEF Learns, Recalls
  <2> QED
    BY <2>7, LearnsKeepsFinds
<1>4. ASSUME Forget(Contexts) \/ \E c \in Contexts : Forget({c}),
             stored' \in {stored, None}, opened' = opened, faults' = faults
      PROVE  FindsInv'
  <2>1. ASSUME NEW c \in Contexts
        PROVE  Looks(c)
    <3>1. \/ cache'[c] = Unread /\ inval'[c] = Valid
          \/ cache'[c] = cache[c] /\ inval'[c] = inval[c]
      BY <1>4 DEF Forget
    <3> QED
      BY <3>1, StaysLooks, FindsTypes DEF Looks
  <2>2. op' = None \/ op' = op
    BY <1>4 DEF Forget
  <2>3. Learns
    BY <1>4, <2>1, <2>2, CountGrows DEF Learns, Recalls
  <2> QED
    BY <2>3, LearnsKeepsFinds
<1>5. ASSUME NEW c \in Contexts, Die(c)
      PROVE  FindsInv'
  BY <1>4, <1>5 DEF Die, shared
<1>6. CASE BrowserRestart
  BY <1>4, <1>6 DEF BrowserRestart
<1> QED
  BY <1>1, <1>2, <1>3, <1>5, <1>6

\* Every context finds the session that is stored, whatever it held or removed
\* before, whoever died meanwhile, as long as no storage call has failed.
THEOREM ContextsFindTheSession == Spec => []EveryContextFindsTheSession
<1>1. Init => FindsInv
  BY MarkersAssumption DEF Init, FindsInv, Past, Ended, Valid
<1>2. ASSUME TypeInv, TypeInv', SessionsInv, FindsInv, [Next]_vars
      PROVE  FindsInv'
  <2>1. CASE UNCHANGED vars
    BY <1>2, <2>1 DEF vars, FindsInv, Past, Ended
  <2> QED
    BY <1>2, <2>1, CallKeepsFinds, PageStepKeepsFinds, OtherStepKeepsFinds DEF Next
<1>3. TypeInv /\ FindsInv => EveryContextFindsTheSession
  BY FindsSession
<1> QED
  BY <1>1, <1>2, <1>3, TypeInduction, SessionsInduction, PTL DEF Spec


-----------------------------------------------------------------------------
(***************************************************************************)
(* How operations end.  A lock or a deletion that reports success, an      *)
(* arrival that failed and a discard have removed what they say, because   *)
(* each call goes on only from what the calls before it left.              *)
(***************************************************************************)
\* The lock task record does not name this action.
NoTaskOf(i) == task # None => task.id # i

AtMostOneFault == faults <= 1

RollingBack == {"remove material", "remove payload", "cancel alarm", "remove task",
                "discard vault"}

\* An activation has left nothing before it saves, and rolls back only after a
\* call failed: then no other fails, and what it saved is removed.
ActivationEnd ==
    /\ op.pc \in {"advance epoch", "save vault", "save task"} => NoTaskOf(op.action)
    /\ op.pc \notin {"save material", "remove material", "remove payload"} /\ AtMostOneFault
          => payload # op.target
    /\ op.pc = "discard vault" /\ AtMostOneFault => NoTaskOf(op.action)
    /\ op.pc \in RollingBack => faults # 0

\* A discard reaches the vault when all it removed before is gone.
DiscardEnd ==
    /\ op.target \in Material
    /\ op.pc \notin {"read tasks", "remove task"} /\ ~op.taskFailed /\ op.action # None
          => NoTaskOf(op.action)
    /\ op.pc = "remove payload" /\ ~op.failed => stored = None
    /\ op.pc = "discard vault" => stored = None /\ payload = None /\ ~op.taskFailed

Retiring == {"remove vault", "remove task", "cancel alarm"}

\* A lock or a deletion goes on from what it removed, unless it has failed.
CloseEnd ==
    /\ op.pc \in Retiring \cup {"remove payload"} /\ ~op.failed => stored = None
    /\ op.pc \in Retiring /\ ~op.failed => payload = None
    /\ op.pc \notin {"advance epoch", "read tasks", "cancel alarm"} /\ ~op.taskFailed
          => task = None \/ op.action = task.id
    /\ op.pc = "cancel alarm" /\ ~op.taskFailed => task = None

EndsInv ==
    /\ task # None => task.id <= nextId
    /\ payload # None => payload.sid <= nextId
    /\ op # None /\ op.kind = "activate" => ActivationEnd
    /\ op # None /\ op.kind = "discard" => DiscardEnd
    /\ op # None /\ op.kind \in {"lock", "delete"} => CloseEnd

LEMMA EndTypes ==
    ASSUME TypeInv
    PROVE  /\ faults \in Nat /\ nextId \in Nat /\ opened \in Nat
           /\ task # None => task.id \in Nat
           /\ payload # None => payload.sid \in Nat
           /\ None \notin Material /\ None \notin Ids /\ None \notin Steps
           /\ op # None /\ op.kind \in {"activate", "commit"} =>
                 op.target \in Material /\ op.target.sid \in Nat
           /\ op # None /\ op.kind = "activate" => op.action \in Ids
<1>1. \A m \in Material : m.sid \in Nat
  BY DEF Material, Ids
<1>2. None \notin Material /\ None \notin Ids /\ None \notin Steps
  BY MarkersAssumption
<1>3. /\ faults \in Nat /\ nextId \in Nat /\ opened \in Nat
      /\ task # None => task.id \in Nat
      /\ payload # None => payload \in Material
  BY ConstantsAssumption, SessionTypes DEF TypeInv, TypeOK
<1>4. op # None => WellFormed(op)
  BY DEF TypeInv
<1>5. /\ op # None /\ op.kind \in {"activate", "commit"} => op.target \in Material
      /\ op # None /\ op.kind = "activate" => op.action \in Ids
  BY <1>4 DEF WellFormed
<1> QED
  BY <1>1, <1>2, <1>3, <1>5

LEMMA FaultsCount ==
    ASSUME TypeInv, NEW failing, Count(failing)
    PROVE  /\ AtMostOneFault' => AtMostOneFault
           /\ failing # None \/ faults # 0 => faults' # 0
           /\ faults # 0 /\ AtMostOneFault' => failing = None
<1> faults \in Nat
  BY EndTypes
<1> QED
  BY DEF Count, AtMostOneFault

\* Lock actions and sessions are numbered by the activations.
LEMMA CallKeepsIds ==
    ASSUME TypeInv, SessionsInv, EndsInv, Call
    PROVE  /\ task' # None => task'.id <= nextId'
           /\ payload' # None => payload'.sid <= nextId'
<1> USE DEF At
<1>1. nextId' = nextId
  BY DEF Call, AdvanceEpoch, SaveTask, ArmAlarm, SavePayload, SaveMaterial, SaveSnapshot,
         RestoreSnapshot, ReadTasks, RemoveMaterial, RemovePayload, RemoveVault, RemoveTask,
         CancelAlarm, SaveVault, DiscardVault
<1>2. /\ task # None => task.id <= nextId
      /\ payload # None => payload.sid <= nextId
  BY DEF EndsInv
<1>3. CASE SaveTask
  <2>1. op # None /\ op.kind = "activate"
    BY <1>3, KindOfCall DEF SaveTask
  <2>2. op.action = nextId /\ nextId \in Nat
    BY <2>1, EndTypes DEF SessionsInv
  <2>3. task' = task \/ task' = [id |-> op.action, vault |-> op.target.vault]
    BY <1>3 DEF SaveTask
  <2>4. payload' = payload
    BY <1>3 DEF SaveTask
  <2> QED
    BY <1>1, <1>2, <2>2, <2>3, <2>4
<1>4. CASE SavePayload
  <2>1. op # None /\ op.pc = "save payload" /\ op.kind \in {"activate", "commit"}
    BY <1>4, KindOfCall DEF SavePayload
  <2>2. op.target.sid <= nextId
    <3>1. CASE op.kind = "activate"
      <4>1. op.target.sid = nextId /\ nextId \in Nat
        BY <2>1, <3>1, EndTypes DEF SessionsInv
      <4> QED
        BY <4>1
    <3>2. CASE op.kind = "commit"
      <4>1. op.pc \in Installing
        BY <2>1 DEF Installing
      <4>2. op.target.sid = stored.sid /\ stored.sid <= opened /\ opened <= nextId
        BY <2>1, <3>2, <4>1 DEF SessionsInv
      <4>3. op.target.sid \in Nat /\ opened \in Nat /\ nextId \in Nat
        BY <2>1, EndTypes
      <4> QED
        BY <4>2, <4>3
    <3> QED
      BY <2>1, <3>1, <3>2
  <2>3. task' = task /\ (payload' = payload \/ payload' = op.target)
    BY <1>4 DEF SavePayload
  <2> QED
    BY <1>1, <1>2, <2>2, <2>3
<1>5. CASE ~SaveTask /\ ~SavePayload
  <2>1. task' \in {task, None} /\ payload' \in {payload, None}
    BY <1>5, Zenon DEF Call, AdvanceEpoch, ArmAlarm, SaveMaterial, SaveSnapshot,
         RestoreSnapshot, ReadTasks, RemoveMaterial, RemovePayload, RemoveVault, RemoveTask,
         CancelAlarm, SaveVault, DiscardVault, shared
  <2> QED
    BY <1>1, <1>2, <2>1
<1> QED
  BY <1>3, <1>4, <1>5


\* What an operation that goes on has to be able to rely on.
EndsWell ==
    op' # None => /\ op'.kind = "activate" => ActivationEnd'
                  /\ op'.kind = "discard" => DiscardEnd'
                  /\ op'.kind \in {"lock", "delete"} => CloseEnd'

LEMMA EndCarries ==
    ASSUME TypeInv, op # None, NEW next \in CallsOf(op.kind),
           Goto(next) \/ \E f : GoesOn(next, f)
    PROVE  /\ op'.pc = next /\ op'.kind = op.kind /\ op'.target = op.target
           /\ op'.action = op.action /\ op'.failed = op.failed
<1>1. op \in Operations /\ next \in Pcs
  BY KindOfCall, CallsArePcs
<1>2. op'.failed = op.failed
  BY <1>1 DEF Goto, GoesOn, Operations
<1> QED
  BY <1>2, GotoCarries

LEMMA RevocationEndsWell ==
    ASSUME TypeInv, op # None,
           \/ op' = None
           \/ op' = Revocation(op.ctx, op.known)
           \/ op' = Removal(op.ctx, op.known)
    PROVE  EndsWell
<1>1. op' # None => op'.kind = "revoke"
  BY KindOfCall, RevocationType, RemovalType DEF IsOperation
<1> QED
  BY <1>1 DEF EndsWell

(***************************************************************************)
(* An activation that goes on to install, or rolls back.                   *)
(***************************************************************************)
LEMMA ActivationGoesOn ==
    ASSUME TypeInv, op # None, op.kind = "activate", NEW next \in CallsOf("activate"),
           op'.pc = next, op'.kind = op.kind, op'.target = op.target, op'.action = op.action,
           next \in {"save vault", "save task"} => NoTaskOf(op.action)',
           next = "discard vault" /\ AtMostOneFault' => NoTaskOf(op.action)',
           next \notin {"advance epoch", "save material", "remove material", "remove payload"}
                 /\ AtMostOneFault' => payload' # op.target,
           next \in RollingBack => faults' # 0,
           next # "advance epoch"
    PROVE  EndsWell
<1>1. ActivationEnd'
  BY DEF ActivationEnd, NoTaskOf
<1> QED
  BY <1>1 DEF EndsWell

LEMMA ActivationCallEndsWell ==
    ASSUME TypeInv, SessionsInv, EndsInv, Call, op # None, op.kind = "activate"
    PROVE  EndsWell
<1> USE DEF At
<1>1. ActivationEnd
  BY DEF EndsInv
<1>2. op.target \in Material /\ op.action \in Ids /\ None \notin Material /\ None \notin Ids
  BY EndTypes
<1>3. /\ op.target # None /\ op.action # None
  BY <1>2
<1>4. CASE op' = None \/ op' = Removal(op.ctx, op.known)
  BY <1>4, RevocationEndsWell
<1>5. CASE AdvanceEpoch /\ op' # None
  <2>1. PICK failing : Count(failing)
    BY <1>5 DEF AdvanceEpoch
  <2>2. op.pc = "advance epoch" /\ task' = task /\ payload' = payload
    BY <1>5 DEF AdvanceEpoch
  <2>3. \E next \in {"save task", "save vault"} : Goto(next)
    BY <1>5, Zenon DEF AdvanceEpoch, Finish, Cleanups
  <2>4. PICK next \in {"save task", "save vault"} : Goto(next)
    BY <2>3
  <2>5. next \in CallsOf("activate") /\ next \in CallsOf(op.kind)
    BY DEF CallsOf
  <2>6. /\ op'.pc = next /\ op'.kind = op.kind /\ op'.target = op.target
        /\ op'.action = op.action
    BY <2>4, <2>5, EndCarries
  <2>7. NoTaskOf(op.action)' /\ (AtMostOneFault' => payload' # op.target)
    BY <1>1, <2>1, <2>2, <2>6, FaultsCount DEF ActivationEnd, NoTaskOf
  <2>8. next \notin RollingBack /\ next # "advance epoch"
    BY DEF RollingBack
  <2> QED
    BY <2>5, <2>6, <2>7, <2>8, ActivationGoesOn
<1>6. CASE SaveVault /\ op' # None /\ op' # Removal(op.ctx, op.known)
  <2>1. PICK failing : Count(failing)
    BY <1>6 DEF SaveVault
  <2>2. op.pc = "save vault" /\ task' = task /\ payload' = payload /\ Goto("save task")
    BY <1>6 DEF SaveVault
  <2>3. "save task" \in CallsOf("activate") /\ "save task" \in CallsOf(op.kind)
    BY DEF CallsOf
  <2>4. /\ op'.pc = "save task" /\ op'.kind = op.kind /\ op'.target = op.target
        /\ op'.action = op.action
    BY <2>2, <2>3, EndCarries
  <2>5. NoTaskOf(op.action)' /\ (AtMostOneFault' => payload' # op.target)
    BY <1>1, <2>1, <2>2, <2>4, FaultsCount DEF ActivationEnd, NoTaskOf
  <2>6. "save task" \notin RollingBack
    BY DEF RollingBack
  <2> QED
    BY <2>3, <2>4, <2>5, <2>6, ActivationGoesOn
<1>7. CASE SaveTask \/ ArmAlarm
  <2>1. PICK failing :
          /\ Count(failing) /\ payload' = payload
          /\ \/ failing = None /\ Goto("arm alarm")
             \/ failing = None /\ Goto("save payload")
             \/ failing # None /\ Goto("cancel alarm")
             \/ failing # None /\ Goto("remove material")
    BY <1>7, Zenon DEF SaveTask, ArmAlarm, FirstSave, AfterFailedInstall
  <2>2. PICK next \in {"arm alarm", "save payload", "cancel alarm", "remove material"} :
          Goto(next) /\ (next \in {"cancel alarm", "remove material"} => failing # None)
    BY <2>1, Zenon
  <2>3. next \in CallsOf("activate") /\ next \in CallsOf(op.kind)
    BY DEF CallsOf
  <2>4. /\ op'.pc = next /\ op'.kind = op.kind /\ op'.target = op.target
        /\ op'.action = op.action
    BY <2>2, <2>3, EndCarries
  <2>5. op.pc \in {"save task", "arm alarm"}
    BY <1>7 DEF SaveTask, ArmAlarm
  <2>6. AtMostOneFault' => payload' # op.target
    BY <1>1, <2>1, <2>5, FaultsCount DEF ActivationEnd
  <2>7. next \in RollingBack => faults' # 0
    BY <2>1, <2>2, FaultsCount DEF RollingBack
  <2>8. next \notin {"save vault", "save task", "discard vault", "advance epoch"}
    OBVIOUS
  <2> QED
    BY <2>3, <2>4, <2>6, <2>7, <2>8, ActivationGoesOn
<1>8. CASE (SavePayload \/ SaveMaterial \/ RemoveMaterial) /\ op' # None
  <2>1. op.kind # "commit"
    OBVIOUS
  <2>2. PICK failing :
          /\ Count(failing)
          /\ \/ failing = None /\ Goto("save material")
             \/ failing # None /\ Goto("remove material")
             \/ op.pc = "remove material" /\ MaterialRemoved(failing)
    BY <1>8, <2>1, Zenon DEF SavePayload, SaveMaterial, RemoveMaterial, AfterFailedSave, Finish
  <2>3. PICK next \in {"save material", "remove material", "remove payload"} :
          /\ op'.pc = next /\ op'.kind = op.kind /\ op'.target = op.target
          /\ op'.action = op.action
          /\ next # "save material" => failing # None \/ op.pc = "remove material"
    <3>1. CASE Goto("save material") \/ (failing # None /\ Goto("remove material"))
      <4>1. {"save material", "remove material"} \subseteq CallsOf(op.kind)
        BY DEF CallsOf
      <4> QED
        BY <3>1, <4>1, EndCarries
    <3>2. CASE op.pc = "remove material" /\ MaterialRemoved(failing)
      <4>1. Continues("remove payload") /\ op'.action = op.action
        BY <3>2, KindOfCall, MaterialRemovedType
      <4> QED
        BY <3>2, <4>1 DEF Continues
    <3> QED
      BY <2>2, <3>1, <3>2
  <2>4. next \in CallsOf("activate")
    BY DEF CallsOf
  <2>5. next \in RollingBack => faults' # 0
    BY <1>1, <2>2, <2>3, FaultsCount DEF RollingBack, ActivationEnd
  <2> QED
    BY <2>3, <2>4, <2>5, ActivationGoesOn
<1>9. ASSUME NEW failing, Count(failing), op.pc \in RollingBack,
             NEW next \in {"cancel alarm", "remove task", "discard vault"}, Goto(next),
             \/ op.pc = "remove payload" /\ (failing = None => payload' = None)
             \/ op.pc \notin {"remove material", "remove payload"} /\ payload' = payload,
             op.pc # "save material",
             next = "discard vault" /\ failing = None => NoTaskOf(op.action)'
      PROVE  EndsWell
  <2>1. next \in CallsOf("activate") /\ next \in CallsOf(op.kind)
    BY DEF CallsOf
  <2>2. /\ op'.pc = next /\ op'.kind = op.kind /\ op'.target = op.target
        /\ op'.action = op.action
    BY <1>9, <2>1, EndCarries
  <2>3. faults # 0
    BY <1>1, <1>9 DEF ActivationEnd
  <2>4. faults' # 0 /\ (AtMostOneFault' => AtMostOneFault /\ failing = None)
    BY <1>9, <2>3, FaultsCount
  <2>5. AtMostOneFault' => payload' # op.target
    BY <1>1, <1>3, <1>9, <2>4 DEF ActivationEnd
  <2>6. next # "advance epoch" /\ next \notin {"save vault", "save task"}
    OBVIOUS
  <2> QED
    BY <1>9, <2>1, <2>2, <2>4, <2>5, <2>6, ActivationGoesOn
<1>10. CASE RemovePayload
  <2>1. PICK failing : /\ Count(failing) /\ Goto("cancel alarm")
                       /\ payload' = IF failing = None THEN None ELSE payload
    BY <1>10, Zenon DEF RemovePayload, Cleanups
  <2>2. op.pc = "remove payload" /\ op.pc \in RollingBack /\ op.pc # "save material"
    BY <1>10 DEF RemovePayload, RollingBack
  <2> QED
    BY <1>9, <2>1, <2>2
<1>11. CASE CancelAlarm
  <2>1. PICK failing : Count(failing) /\ Goto("remove task")
    BY <1>11, Zenon DEF CancelAlarm, Cleanups
  <2>2. /\ op.pc \notin {"remove material", "remove payload"} /\ op.pc # "save material"
        /\ op.pc \in RollingBack /\ payload' = payload
    BY <1>11 DEF CancelAlarm, RollingBack
  <2> QED
    BY <1>9, <2>1, <2>2
<1>12. CASE RemoveTask /\ op' # None
  <2>1. PICK failing :
          /\ Count(failing) /\ Goto("discard vault")
          /\ task' = IF RetiresTask /\ failing = None /\ task # None /\ task.id = op.action
                     THEN None ELSE task
    BY <1>12, Zenon DEF RemoveTask, Cleanups, Finish
  <2>2. /\ op.pc \notin {"remove material", "remove payload"} /\ op.pc # "save material"
        /\ op.pc \in RollingBack /\ payload' = payload
    BY <1>12 DEF RemoveTask, RollingBack
  <2>3. op'.action = op.action
    BY <2>1, EndCarries DEF CallsOf
  <2>4. failing = None => NoTaskOf(op.action)'
    BY <1>3, <2>1, <2>3 DEF NoTaskOf, RetiresTask
  <2> QED
    BY <1>9, <2>1, <2>2, <2>4
<1>13. CASE DiscardVault
  BY <1>13, RevocationEndsWell DEF DiscardVault, Finish
<1>14. ~(SaveSnapshot \/ RestoreSnapshot \/ ReadTasks \/ RemoveVault)
  BY KindOfCall DEF SaveSnapshot, RestoreSnapshot, ReadTasks, RemoveVault, Cleanups
<1> QED
  BY <1>4, <1>5, <1>6, <1>7, <1>8, <1>10, <1>11, <1>12, <1>13, <1>14 DEF Call


(***************************************************************************)
(* What has failed is carried along to the end of a cleanup.               *)
(***************************************************************************)
LEMMA GotoFailures ==
    ASSUME TypeInv, op # None, NEW next \in CallsOf(op.kind), Goto(next)
    PROVE  /\ op'.pc = next /\ op'.kind = op.kind /\ op'.target = op.target
           /\ op'.action = op.action /\ op'.failed = op.failed
           /\ op'.taskFailed = op.taskFailed
<1>1. op \in Operations
  BY KindOfCall
<1>2. op'.taskFailed = op.taskFailed
  BY <1>1 DEF Goto, Operations
<1> QED
  BY <1>2, EndCarries

LEMMA ProceedFailures ==
    ASSUME TypeInv, op # None, NEW next \in CallsOf(op.kind), NEW g \in BOOLEAN,
           Proceed(next, op.failed \/ g)
    PROVE  /\ op'.pc = next /\ op'.kind = op.kind /\ op'.target = op.target
           /\ op'.action = op.action /\ op'.taskFailed = op.taskFailed
           /\ op.failed \/ g => op'.failed
           /\ op'.failed => op.failed \/ g
<1>1. op \in Operations /\ next \in Pcs
  BY KindOfCall, CallsArePcs
<1>2. PICK f \in BOOLEAN : f = (op.failed \/ g)
  BY Zenon
<1>3. Proceed(next, f)
  BY <1>2, Zenon
<1>4. /\ op'.pc = next /\ op'.kind = op.kind /\ op'.target = op.target
      /\ op'.action = op.action /\ op'.failed = f
  BY <1>1, <1>3, ProceedType DEF Continues
<1>5. op'.taskFailed = op.taskFailed
  BY <1>1, <1>3 DEF Proceed, Operations
<1> QED
  BY <1>2, <1>4, <1>5

LEMMA GoesOnFailures ==
    ASSUME TypeInv, op # None, NEW next \in CallsOf(op.kind), NEW failing, GoesOn(next, failing)
    PROVE  /\ op'.pc = next /\ op'.kind = op.kind /\ op'.target = op.target
           /\ op'.action = op.action /\ op'.failed = op.failed
           /\ op.taskFailed \/ failing # None => op'.taskFailed
<1>1. op \in Operations
  BY KindOfCall
<1> DEFINE f == op.taskFailed \/ failing # None
<1>2. op' = [op EXCEPT !.pc = next, !.taskFailed = f]
  BY DEF GoesOn
<1> HIDE DEF f
<1>3. op'.taskFailed = f
  BY <1>1, <1>2 DEF Operations
<1>4. op.taskFailed \/ failing # None => op'.taskFailed
  BY <1>3 DEF f
<1> QED
  BY <1>4, EndCarries

LEMMA MaterialFailures ==
    ASSUME TypeInv, op # None, NEW failing, MaterialRemoved(failing)
    PROVE  /\ op'.pc = "remove payload" /\ op'.kind = op.kind /\ op'.target = op.target
           /\ op'.action = op.action /\ op'.taskFailed = op.taskFailed
           /\ op.failed \/ failing # None => op'.failed
<1>1. op \in Operations
  BY KindOfCall
<1> DEFINE r == failing = None
           f == op.failed \/ failing # None
<1>2. op' = [op EXCEPT !.pc = "remove payload", !.removed = r, !.failed = f]
  BY DEF MaterialRemoved
<1>3. Continues("remove payload") /\ op'.action = op.action
  BY <1>1, MaterialRemovedType
<1> HIDE DEF r, f
<1>4. op'.failed = f /\ op'.taskFailed = op.taskFailed
  BY <1>1, <1>2 DEF Operations
<1>5. op.failed \/ failing # None => op'.failed
  BY <1>4 DEF f
<1> QED
  BY <1>3, <1>4, <1>5 DEF Continues

LEMMA LookedFailures ==
    ASSUME TypeInv, op # None, op.kind # "alarm", NEW failing \in Steps \cup {None},
           Looked(failing)
    PROVE  /\ op'.pc = AfterTasks /\ op'.kind = op.kind /\ op'.target = op.target
           /\ failing # None => op'.taskFailed
           /\ ~op'.taskFailed => task = None \/ op'.action = task.id
<1>1. op \in Operations
  BY KindOfCall
<1>2. "task" # None
  <2>1. "task" \in Steps
    BY DEF Steps
  <2> QED
    BY <2>1, EndTypes
<1> DEFINE pc == AfterTasks
           a == IF op.kind = "alarm" THEN op.action
                ELSE IF failing = "task" \/ task = None THEN None ELSE task.id
           f == op.taskFailed \/ failing # None
<1>3. op' = [op EXCEPT !.pc = pc, !.action = a, !.taskFailed = f]
  BY DEF Looked
<1>4. failing = None => task = None \/ a = task.id
  BY <1>2
<1> HIDE DEF pc, a, f
<1>5. /\ op'.pc = pc /\ op'.action = a /\ op'.taskFailed = f
      /\ op'.kind = op.kind /\ op'.target = op.target
  BY <1>1, <1>3 DEF Operations
<1>6. failing # None => op'.taskFailed
  BY <1>5 DEF f
<1>7. op'.pc = AfterTasks
  BY <1>5 DEF pc
<1> QED
  BY <1>4, <1>5, <1>6, <1>7


LEMMA DiscardCallEndsWell ==
    ASSUME TypeInv, EndsInv, Call, op # None, op.kind = "discard"
    PROVE  EndsWell
<1> USE DEF At
<1>1. DiscardEnd
  BY DEF EndsInv
<1>2. op.failed \in BOOLEAN /\ op.taskFailed \in BOOLEAN
  BY KindOfCall DEF Operations
<1>3. CASE op' = None
  BY <1>3 DEF EndsWell
<1>4. ASSUME op'.kind = "discard", DiscardEnd' PROVE EndsWell
  BY <1>4 DEF EndsWell
<1>5. CASE ReadTasks
  <2>1. PICK failing \in Steps \cup {None} : Looked(failing)
    BY <1>5, Zenon DEF ReadTasks, AlarmIsStale, Failing, Steps
  <2>2. op.kind # "alarm" /\ AfterTasks = "remove task"
    BY DEF AfterTasks
  <2>3. op'.pc = "remove task" /\ op'.kind = op.kind /\ op'.target = op.target
    BY <2>1, <2>2, LookedFailures
  <2>4. DiscardEnd'
    BY <1>1, <2>3 DEF DiscardEnd
  <2> QED
    BY <1>4, <2>3, <2>4
<1>6. CASE RemoveTask
  <2>1. PICK failing :
          /\ GoesOn(IF RetiresTask /\ failing = None THEN "cancel alarm"
                    ELSE "advance epoch", failing)
          /\ task' = IF RetiresTask /\ failing = None /\ task # None /\ task.id = op.action
                     THEN None ELSE task
    BY <1>6, Zenon DEF RemoveTask, Cleanups
  <2>2. PICK next \in {"cancel alarm", "advance epoch"} : GoesOn(next, failing)
    BY <2>1
  <2>3. next \in CallsOf(op.kind)
    BY DEF CallsOf
  <2>4. /\ op'.pc = next /\ op'.kind = op.kind /\ op'.target = op.target
        /\ op'.action = op.action /\ (op.taskFailed \/ failing # None => op'.taskFailed)
    BY <2>2, <2>3, GoesOnFailures
  <2>5. ~op'.taskFailed /\ op'.action # None => NoTaskOf(op.action)'
    BY <2>1, <2>4 DEF NoTaskOf, RetiresTask
  <2>6. DiscardEnd'
    BY <1>1, <2>4, <2>5 DEF DiscardEnd
  <2> QED
    BY <1>4, <2>4, <2>6
<1>7. CASE CancelAlarm
  <2>1. PICK failing : GoesOn("advance epoch", failing)
    BY <1>7, Zenon DEF CancelAlarm, Cleanups
  <2>2. /\ op'.pc = "advance epoch" /\ op'.kind = op.kind /\ op'.target = op.target
        /\ op'.action = op.action /\ (op.taskFailed => op'.taskFailed)
    BY <2>1, GoesOnFailures DEF CallsOf
  <2>3. task' = task /\ op.pc = "cancel alarm"
    BY <1>7 DEF CancelAlarm
  <2>4. DiscardEnd'
    BY <1>1, <2>2, <2>3 DEF DiscardEnd, NoTaskOf
  <2> QED
    BY <1>4, <2>2, <2>4
<1>8. CASE AdvanceEpoch
  <2>1. PICK failing : Proceed("remove material", op.failed \/ failing # None)
    BY <1>8, Zenon DEF AdvanceEpoch, Cleanups
  <2>2. PICK g \in BOOLEAN : g = (failing # None)
    BY Zenon
  <2>3. Proceed("remove material", op.failed \/ g)
    BY <2>1, <2>2, Zenon
  <2>4. /\ op'.pc = "remove material" /\ op'.kind = op.kind /\ op'.target = op.target
        /\ op'.action = op.action /\ op'.taskFailed = op.taskFailed
    BY <2>3, ProceedFailures DEF CallsOf
  <2>5. task' = task /\ op.pc = "advance epoch"
    BY <1>8 DEF AdvanceEpoch
  <2>6. DiscardEnd'
    BY <1>1, <2>4, <2>5 DEF DiscardEnd, NoTaskOf
  <2> QED
    BY <1>4, <2>4, <2>6
<1>9. CASE RemoveMaterial
  <2>1. PICK failing : /\ MaterialRemoved(failing)
                       /\ stored' = IF failing = None THEN None ELSE stored
    BY <1>9 DEF RemoveMaterial
  <2>2. /\ op'.pc = "remove payload" /\ op'.kind = op.kind /\ op'.target = op.target
        /\ op'.action = op.action /\ op'.taskFailed = op.taskFailed
        /\ (failing # None => op'.failed)
    BY <2>1, MaterialFailures
  <2>3. task' = task /\ op.pc = "remove material"
    BY <1>9 DEF RemoveMaterial
  <2>4. DiscardEnd'
    BY <1>1, <2>1, <2>2, <2>3 DEF DiscardEnd, NoTaskOf
  <2> QED
    BY <1>4, <2>2, <2>4
<1>10. CASE RemovePayload /\ op' # None
  <2>1. PICK failing : /\ ~op.failed /\ failing = None /\ ~op.taskFailed
                       /\ Goto("discard vault")
                       /\ payload' = IF failing = None THEN None ELSE payload
    BY <1>10, Zenon DEF RemovePayload, Cleanups, Finish
  <2>2. /\ op'.pc = "discard vault" /\ op'.kind = op.kind /\ op'.target = op.target
        /\ op'.action = op.action /\ op'.taskFailed = op.taskFailed
    BY <2>1, GotoFailures DEF CallsOf
  <2>3. task' = task /\ stored' = stored /\ op.pc = "remove payload"
    BY <1>10 DEF RemovePayload
  <2>4. DiscardEnd'
    BY <1>1, <2>1, <2>2, <2>3 DEF DiscardEnd, NoTaskOf
  <2> QED
    BY <1>4, <2>2, <2>4
<1>11. DiscardVault => op' = None
  BY DEF DiscardVault, Finish
<1>12. ~(\/ SaveTask \/ ArmAlarm \/ SavePayload \/ SaveMaterial \/ SaveSnapshot
         \/ RestoreSnapshot \/ RemoveVault \/ SaveVault)
  BY KindOfCall DEF SaveTask, ArmAlarm, SavePayload, SaveMaterial, SaveSnapshot,
     RestoreSnapshot, RemoveVault, SaveVault, Cleanups
<1> QED
  BY <1>3, <1>5, <1>6, <1>7, <1>8, <1>9, <1>10, <1>11, <1>12 DEF Call

LEMMA CloseCallEndsWell ==
    ASSUME TypeInv, EndsInv, Call, op # None, op.kind \in {"lock", "delete"}
    PROVE  EndsWell
<1> USE DEF At
<1>1. CloseEnd
  BY DEF EndsInv
<1>2. op.failed \in BOOLEAN /\ op.taskFailed \in BOOLEAN
  BY KindOfCall DEF Operations
<1>3. CASE op' = None
  BY <1>3 DEF EndsWell
<1>4. ASSUME op'.kind = op.kind, CloseEnd' PROVE EndsWell
  BY <1>4 DEF EndsWell
<1>5. op.kind \in Cleanups /\ op.kind \notin {"activate", "discard", "revoke", "alarm", "commit"}
  BY DEF Cleanups
<1>6. CASE AdvanceEpoch
  <2>1. PICK failing : Proceed("read tasks", op.failed \/ failing # None)
    BY <1>5, <1>6, Zenon DEF AdvanceEpoch
  <2>2. PICK g \in BOOLEAN : g = (failing # None)
    BY Zenon
  <2>3. Proceed("read tasks", op.failed \/ g)
    BY <2>1, <2>2, Zenon
  <2>4. "read tasks" \in CallsOf(op.kind)
    BY DEF CallsOf
  <2>5. op'.pc = "read tasks" /\ op'.kind = op.kind
    BY <2>3, <2>4, ProceedFailures
  <2>6. CloseEnd'
    BY <2>5 DEF CloseEnd, Retiring
  <2> QED
    BY <1>4, <2>5, <2>6
<1>7. CASE ReadTasks
  <2>1. PICK failing \in Steps \cup {None} : Looked(failing)
    BY <1>5, <1>7, Zenon DEF ReadTasks, AlarmIsStale, Failing, Steps
  <2>2. op.kind # "alarm" /\ AfterTasks = "remove material"
    BY <1>5 DEF AfterTasks
  <2>3. /\ op'.pc = "remove material" /\ op'.kind = op.kind
        /\ ~op'.taskFailed => task = None \/ op'.action = task.id
    BY <2>1, <2>2, LookedFailures
  <2>4. task' = task
    BY <1>7 DEF ReadTasks, shared
  <2>5. CloseEnd'
    BY <2>3, <2>4 DEF CloseEnd, Retiring
  <2> QED
    BY <1>4, <2>3, <2>5
<1>8. CASE RemoveMaterial
  <2>1. PICK failing : /\ MaterialRemoved(failing)
                       /\ stored' = IF failing = None THEN None ELSE stored
    BY <1>8 DEF RemoveMaterial
  <2>2. /\ op'.pc = "remove payload" /\ op'.kind = op.kind
        /\ op'.action = op.action /\ op'.taskFailed = op.taskFailed
        /\ (failing # None => op'.failed)
    BY <2>1, MaterialFailures
  <2>3. task' = task /\ op.pc = "remove material"
    BY <1>8 DEF RemoveMaterial
  <2>4. CloseEnd'
    BY <1>1, <2>1, <2>2, <2>3 DEF CloseEnd, Retiring
  <2> QED
    BY <1>4, <2>2, <2>4
<1>9. CASE RemovePayload /\ op' # None
  <2>0. PICK failing :
          /\ \/ Proceed("remove vault", op.failed \/ failing # None)
             \/ Proceed("remove task", op.failed \/ failing # None)
          /\ payload' = IF failing = None THEN None ELSE payload
    BY <1>5, <1>9, Zenon DEF RemovePayload, Finish
  <2>1. PICK next \in {"remove vault", "remove task"} :
          Proceed(next, op.failed \/ failing # None)
    BY <2>0, Zenon
  <2>2. PICK g \in BOOLEAN : g = (failing # None)
    BY Zenon
  <2>3. Proceed(next, op.failed \/ g)
    BY <2>1, <2>2, Zenon
  <2>4. next \in CallsOf(op.kind)
    BY DEF CallsOf
  <2>5. /\ op'.pc = next /\ op'.kind = op.kind /\ op'.action = op.action
        /\ op'.taskFailed = op.taskFailed /\ (op.failed \/ g => op'.failed)
    BY <2>3, <2>4, ProceedFailures
  <2>6. task' = task /\ stored' = stored /\ op.pc = "remove payload"
    BY <1>9 DEF RemovePayload
  <2>7. CloseEnd'
    BY <1>1, <2>0, <2>2, <2>5, <2>6 DEF CloseEnd, Retiring
  <2> QED
    BY <1>4, <2>5, <2>7
<1>10. CASE RemoveVault
  <2>1. PICK failing : Proceed("remove task", op.failed \/ failing # None)
    BY <1>10 DEF RemoveVault
  <2>2. PICK g \in BOOLEAN : g = (failing # None)
    BY Zenon
  <2>3. Proceed("remove task", op.failed \/ g)
    BY <2>1, <2>2, Zenon
  <2>4. "remove task" \in CallsOf(op.kind)
    BY DEF CallsOf
  <2>5. /\ op'.pc = "remove task" /\ op'.kind = op.kind /\ op'.action = op.action
        /\ op'.taskFailed = op.taskFailed /\ (op.failed => op'.failed)
    BY <2>3, <2>4, ProceedFailures
  <2>6. /\ task' = task /\ stored' = stored /\ payload' = payload /\ op.pc = "remove vault"
    BY <1>10 DEF RemoveVault
  <2>7. CloseEnd'
    BY <1>1, <2>5, <2>6 DEF CloseEnd, Retiring
  <2> QED
    BY <1>4, <2>5, <2>7
<1>11. CASE RemoveTask /\ op' # None
  <2>1. PICK failing :
          /\ failing = None /\ RetiresTask /\ Goto("cancel alarm")
          /\ task' = IF RetiresTask /\ failing = None /\ task # None /\ task.id = op.action
                     THEN None ELSE task
    BY <1>5, <1>11, Zenon DEF RemoveTask, Finish
  <2>2. "cancel alarm" \in CallsOf(op.kind)
    BY DEF CallsOf
  <2>3. /\ op'.pc = "cancel alarm" /\ op'.kind = op.kind
        /\ op'.taskFailed = op.taskFailed /\ op'.failed = op.failed
    BY <2>1, <2>2, GotoFailures
  <2>4. stored' = stored /\ payload' = payload /\ op.pc = "remove task"
    BY <1>11 DEF RemoveTask
  <2>5. CloseEnd'
    BY <1>1, <2>1, <2>3, <2>4 DEF CloseEnd, Retiring
  <2> QED
    BY <1>4, <2>3, <2>5
<1>12. CancelAlarm => op' = None
  BY <1>5, Zenon DEF CancelAlarm, Finish
<1>13. ~(\/ SaveTask \/ ArmAlarm \/ SavePayload \/ SaveMaterial \/ SaveSnapshot
         \/ RestoreSnapshot \/ DiscardVault \/ SaveVault)
  BY <1>5, KindOfCall DEF SaveTask, ArmAlarm, SavePayload, SaveMaterial, SaveSnapshot,
     RestoreSnapshot, DiscardVault, SaveVault
<1> QED
  BY <1>3, <1>6, <1>7, <1>8, <1>9, <1>10, <1>11, <1>12, <1>13 DEF Call


LEMMA KindCarries ==
    ASSUME TypeInv, op # None, Carries
    PROVE  op' # None => op'.kind \in {op.kind, "revoke"}
<1>1. op \in Operations
  BY KindOfCall
<1>2. CASE \E pc : Goto(pc)
  BY <1>1, <1>2 DEF Goto, Operations
<1>3. CASE \E pc, f : Proceed(pc, f)
  BY <1>1, <1>3 DEF Proceed, Operations
<1>4. CASE \E pc, f : GoesOn(pc, f)
  BY <1>1, <1>4 DEF GoesOn, Operations
<1>5. CASE \E f : Looked(f)
  BY <1>1, <1>5 DEF Looked, Operations
<1>6. CASE \E f : MaterialRemoved(f)
  BY <1>1, <1>6 DEF MaterialRemoved, Operations
<1>7. CASE op' = None \/ \E f : Finish(f)
  BY <1>7 DEF Finish
<1>8. CASE op' = Revocation(op.ctx, op.known) \/ op' = Removal(op.ctx, op.known)
  BY <1>8, KindOfCall, RevocationType, RemovalType DEF IsOperation
<1> QED
  BY <1>2, <1>3, <1>4, <1>5, <1>6, <1>7, <1>8 DEF Carries

LEMMA CallKeepsEnds ==
    ASSUME TypeInv, SessionsInv, EndsInv, Call
    PROVE  EndsInv'
<1>1. op # None /\ Carries
  BY CallRecalls
<1>2. EndsWell
  <2>1. CASE op.kind = "activate"
    BY <1>1, <2>1, ActivationCallEndsWell
  <2>2. CASE op.kind = "discard"
    BY <1>1, <2>2, DiscardCallEndsWell
  <2>3. CASE op.kind \in {"lock", "delete"}
    BY <1>1, <2>3, CloseCallEndsWell
  <2>4. CASE op.kind \notin {"activate", "discard", "lock", "delete"}
    BY <1>1, <2>4, KindCarries DEF EndsWell
  <2> QED
    BY <2>1, <2>2, <2>3, <2>4
<1> QED
  BY <1>2, CallKeepsIds DEF EndsInv, EndsWell

(***************************************************************************)
(* The steps outside the session operations.                               *)
(***************************************************************************)
EndsStay ==
    /\ stored' = stored /\ payload' = payload /\ task' = task
    /\ nextId' >= nextId /\ faults' >= faults

StartsWell ==
    \/ op' = op
    \/ op' = None
    \/ op'.kind \in {"commit", "persist", "rollback", "revoke", "alarm"}
    \/ op'.kind \in {"lock", "delete"} /\ op'.pc = "advance epoch"
    \/ op'.kind = "discard" /\ op'.pc = "read tasks" /\ op'.target \in Material
    \/ /\ op'.kind = "activate" /\ op'.pc = "advance epoch"
       /\ op'.action = nextId + 1 /\ op'.target.sid = nextId + 1

LEMMA OutsideKeepsEnds ==
    ASSUME TypeInv, TypeInv', EndsInv, EndsStay, StartsWell
    PROVE  EndsInv'
<1>1. /\ nextId \in Nat /\ nextId' \in Nat /\ faults \in Nat /\ faults' \in Nat
      /\ task # None => task.id \in Nat
      /\ payload # None => payload.sid \in Nat
  <2>1. nextId' \in Nat /\ faults' \in Nat
    BY ConstantsAssumption DEF TypeInv, TypeOK
  <2> QED
    BY <2>1, EndTypes
<1>2. /\ task' # None => task'.id <= nextId'
      /\ payload' # None => payload'.sid <= nextId'
  BY <1>1 DEF EndsInv, EndsStay
<1>3. (AtMostOneFault' => AtMostOneFault) /\ (faults # 0 => faults' # 0)
  BY <1>1 DEF EndsStay, AtMostOneFault
<1>4. CASE op' = op
  <2>1. \A i : NoTaskOf(i)' <=> NoTaskOf(i)
    BY DEF NoTaskOf, EndsStay
  <2>2. ActivationEnd => ActivationEnd'
    <3>1. ASSUME ActivationEnd PROVE ActivationEnd'
      BY <1>3, <1>4, <3>1 DEF ActivationEnd, EndsStay, NoTaskOf
    <3> QED
      BY <3>1
  <2>3. DiscardEnd => DiscardEnd'
    BY <1>4 DEF DiscardEnd, EndsStay, NoTaskOf
  <2>4. CloseEnd => CloseEnd'
    BY <1>4 DEF CloseEnd, EndsStay
  <2> QED
    BY <1>2, <1>4, <2>2, <2>3, <2>4 DEF EndsInv
<1>5. CASE op' = None
  BY <1>2, <1>5 DEF EndsInv
<1>6. CASE op'.kind \in {"commit", "persist", "rollback", "revoke", "alarm"}
  BY <1>2, <1>6 DEF EndsInv
<1>7. CASE op'.kind \in {"lock", "delete"} /\ op'.pc = "advance epoch"
  <2>1. CloseEnd'
    BY <1>7 DEF CloseEnd, Retiring
  <2> QED
    BY <1>2, <1>7, <2>1 DEF EndsInv
<1>8. CASE op'.kind = "discard" /\ op'.pc = "read tasks" /\ op'.target \in Material
  <2>1. DiscardEnd'
    BY <1>8 DEF DiscardEnd
  <2> QED
    BY <1>2, <1>8, <2>1 DEF EndsInv
<1>9. ASSUME op'.kind = "activate", op'.pc = "advance epoch",
             op'.action = nextId + 1, op'.target.sid = nextId + 1
      PROVE  EndsInv'
  <2>1. NoTaskOf(op.action)' /\ (payload' # None => payload'.sid # op'.target.sid)
    <3>1. op'.action = nextId + 1 /\ op'.target.sid = nextId + 1
      BY <1>9
    <3>2. /\ task' # None => task'.id <= nextId /\ task'.id \in Nat
          /\ payload' # None => payload'.sid <= nextId /\ payload'.sid \in Nat
      BY <1>1 DEF EndsInv, EndsStay
    <3> QED
      BY <1>1, <3>1, <3>2 DEF NoTaskOf
  <2>2. op' # None => op'.target # None
    <3>1. op' # None => op'.target \in Material
      BY <1>9 DEF TypeInv, WellFormed
    <3> QED
      BY <3>1, EndTypes
  <2>3. op' # None => payload' # op'.target
    BY <2>1, <2>2
  <2>4. "advance epoch" \notin RollingBack
    BY DEF RollingBack
  <2>5. op' # None => ActivationEnd'
    BY <1>9, <2>1, <2>3, <2>4 DEF ActivationEnd
  <2> QED
    BY <1>2, <1>9, <2>5 DEF EndsInv
<1> QED
  BY <1>4, <1>5, <1>6, <1>7, <1>8, <1>9 DEF StartsWell


LEMMA DiscardingTarget ==
    ASSUME TypeInv, NEW c \in Contexts, client[c].pc = "enrolled", op' = Discarding(c)
    PROVE  op'.target \in Material
<1>1. client[c].session \in Material
  BY DEF TypeInv, TypeOK, Clients, Idle
<1>2. Discarding(c).target = client[c].session
  BY DEF Discarding, Operation
<1> QED
  BY <1>1, <1>2

LEMMA UserStepKeepsEnds ==
    ASSUME TypeInv, TypeInv', EndsInv, NEW c \in Pages,
           Unlock(c) \/ Arrive(c) \/ Mutate(c) \/ Close(c)
    PROVE  EndsInv'
<1> c \in Contexts /\ TypeOK
  BY DEF Contexts, TypeInv
<1>1. stored' = stored /\ payload' = payload /\ task' = task
  BY DEF Unlock, Authorize, LoadVault, BeginActivation, RejectActivation, Abandon, Arrive,
         Prepare, BeginArrival, BeginDiscard, Mutate, BeginPersist, BeginCommit,
         BeginRollback, Close, BeginLock, BeginDelete, shared
<1>2. nextId' = nextId \/ nextId' = nextId + 1
  BY DEF Unlock, Authorize, LoadVault, BeginActivation, RejectActivation, Abandon, Arrive,
         Prepare, BeginArrival, BeginDiscard, Mutate, BeginPersist, BeginCommit,
         BeginRollback, Close, BeginLock, BeginDelete
<1>3. faults' = faults \/ \E failing : Count(failing)
  BY DEF Unlock, Authorize, LoadVault, BeginActivation, RejectActivation, Abandon, Arrive,
         Prepare, BeginArrival, BeginDiscard, Mutate, BeginPersist, BeginCommit,
         BeginRollback, Close, BeginLock, BeginDelete
<1>4. EndsStay
  BY <1>1, <1>2, <1>3, CountGrows, EndTypes DEF EndsStay
<1>5. \/ op' = op \/ op' = None
      \/ client[c].pc = "ready" /\ nextId < MaxId /\ op' = Activation(c)
      \/ /\ client[c].pc = "prepared" /\ nextId < MaxId /\ nextVersion < MaxVersion
         /\ op' = Arrival(c)
      \/ client[c].pc = "enrolled" /\ op' = Discarding(c)
      \/ client[c].pc = "mutating" /\ op' = Persistence(c)
      \/ client[c].pc = "persisted" /\ op' = Commitment(c)
      \/ client[c].pc = "persisted" /\ op' = Restoration(c)
      \/ \E failing \in Steps \cup {None} : op' = CleanupOf("lock", c, "advance epoch", failing)
      \/ \E v \in Vaults : op' = DeletionOf(c, v)
  BY Zenon DEF Unlock, Authorize, LoadVault, BeginActivation, RejectActivation, Abandon, Arrive,
         Prepare, BeginArrival, BeginDiscard, Mutate, BeginPersist, BeginCommit,
         BeginRollback, Close, BeginLock, BeginDelete, Failing, Steps
<1>6. StartsWell
  <2>1. CASE op' = op \/ op' = None
    BY <2>1 DEF StartsWell
  <2>2. CASE client[c].pc = "ready" /\ nextId < MaxId /\ op' = Activation(c)
    BY <2>2, ActivationType DEF StartsWell, IsOperation
  <2>3. CASE /\ client[c].pc = "prepared" /\ nextId < MaxId /\ nextVersion < MaxVersion
             /\ op' = Arrival(c)
    BY <2>3, ArrivalType DEF StartsWell, IsOperation
  <2>4. CASE client[c].pc = "enrolled" /\ op' = Discarding(c)
    BY <2>4, DiscardingType, DiscardingTarget DEF StartsWell, IsOperation
  <2>5. CASE client[c].pc = "mutating" /\ op' = Persistence(c)
    BY <2>5, PersistenceType DEF StartsWell, IsOperation
  <2>6. CASE client[c].pc = "persisted" /\ op' = Commitment(c)
    BY <2>6, CommitmentType DEF StartsWell, IsOperation
  <2>7. CASE client[c].pc = "persisted" /\ op' = Restoration(c)
    BY <2>7, RestorationType DEF StartsWell, IsOperation
  <2>8. CASE \E failing \in Steps \cup {None} :
               op' = CleanupOf("lock", c, "advance epoch", failing)
    BY <2>8, LockType DEF StartsWell, IsOperation
  <2>9. CASE \E v \in Vaults : op' = DeletionOf(c, v)
    BY <2>9, DeletionType DEF StartsWell, IsOperation
  <2> QED
    BY <1>5, <2>1, <2>2, <2>3, <2>4, <2>5, <2>6, <2>7, <2>8, <2>9
<1> QED
  BY <1>4, <1>6, OutsideKeepsEnds

LEMMA OtherStepKeepsEnds ==
    ASSUME TypeInv, TypeInv', EndsInv,
           \/ \E i \in Ids : Alarm(i)
           \/ \E c \in Contexts : OpenSession(c) \/ GetStatus(c) \/ Die(c)
           \/ BrowserRestart
    PROVE  EndsInv'
<1> TypeOK
  BY DEF TypeInv
<1>1. ASSUME NEW i \in Ids, Alarm(i)
      PROVE  EndsInv'
  <2>1. /\ stored' = stored /\ payload' = payload /\ task' = task /\ nextId' = nextId
        /\ faults' = faults \/ \E failing : Count(failing)
    BY <1>1 DEF Alarm, FireAlarm, CheckOwnership, ArmRetry, BeginAlarmCleanup, SettleRetry, shared
  <2>2. \/ op' = op
        \/ /\ task # None
           /\ \E failing \in Steps \cup {None} : op' = AlarmCleanup(i, failing)
    BY <1>1, Zenon DEF Alarm, FireAlarm, CheckOwnership, ArmRetry, BeginAlarmCleanup, SettleRetry,
       OwnsLock, Failing, Steps
  <2>3. StartsWell
    BY <2>2, AlarmCleanupType DEF StartsWell, IsOperation
  <2>4. EndsStay
    BY <2>1, CountGrows, EndTypes DEF EndsStay
  <2> QED
    BY <2>3, <2>4, OutsideKeepsEnds
<1>2. ASSUME NEW c \in Contexts, OpenSession(c)
      PROVE  EndsInv'
  <2>1. /\ stored' = stored /\ payload' = payload /\ task' = task /\ nextId' = nextId
        /\ \E failing : Count(failing)
    BY <1>2 DEF OpenSession, shared
  <2>2. \/ op' = None
        \/ op' = Revocation(c, None)
        \/ op' = Revocation(c, Reconcile(c).material)
    BY <1>2, Zenon DEF OpenSession
  <2>3. StartsWell
    BY <2>2, ReconcileType, RevocationType DEF StartsWell, IsOperation
  <2>4. EndsStay
    BY <2>1, CountGrows, EndTypes DEF EndsStay
  <2> QED
    BY <2>3, <2>4, OutsideKeepsEnds
<1>3. ASSUME NEW c \in Contexts, GetStatus(c) \/ Die(c)
      PROVE  EndsInv'
  <2>1. /\ stored' = stored /\ payload' = payload /\ task' = task
        /\ nextId' = nextId /\ faults' = faults /\ (op' = op \/ op' = None)
    BY <1>3 DEF GetStatus, Die, Forget, shared
  <2>2. StartsWell
    BY <2>1 DEF StartsWell
  <2>3. EndsStay
    BY <2>1, EndTypes DEF EndsStay
  <2> QED
    BY <2>2, <2>3, OutsideKeepsEnds
<1>4. CASE BrowserRestart
  <2>1. op' = None /\ task' = None /\ payload' = payload /\ nextId' = nextId
    BY <1>4, KindOfCall DEF BrowserRestart, Forget
  <2> QED
    BY <2>1 DEF EndsInv
<1> QED
  BY <1>1, <1>2, <1>3, <1>4

LEMMA EndsInduction == Spec => []EndsInv
<1>1. Init => EndsInv
  BY DEF Init, EndsInv
<1>2. ASSUME TypeInv, TypeInv', SessionsInv, EndsInv, [Next]_vars
      PROVE  EndsInv'
  <2>1. CASE UNCHANGED vars
    BY <1>2, <2>1 DEF vars, EndsInv, ActivationEnd, DiscardEnd, CloseEnd, NoTaskOf,
       AtMostOneFault
  <2> QED
    BY <1>2, <2>1, CallKeepsEnds, UserStepKeepsEnds, OtherStepKeepsEnds DEF Next
<1> QED
  BY <1>1, <1>2, TypeInduction, SessionsInduction, PTL DEF Spec


(***************************************************************************)
(* The end of a lock or of a deletion.                                     *)
(***************************************************************************)
LEMMA OperationGoesOn ==
    ASSUME TypeInv, op # None,
           \/ \E next \in Pcs : Goto(next)
           \/ \E next \in Pcs, f \in BOOLEAN : Proceed(next, f)
           \/ \E next \in Pcs : \E failing : GoesOn(next, failing)
           \/ \E failing : Looked(failing)
           \/ \E failing : MaterialRemoved(failing)
    PROVE  op' # None
<1>1. op \in Operations /\ task \in LockTask \cup {None}
  BY KindOfCall DEF TypeInv, TypeOK
<1>2. op' \in Operations
  BY <1>1, GotoType, ProceedType, GoesOnType, LookedType, MaterialRemovedType DEF Continues
<1> QED
  BY <1>2, OperationsAssumption

\* Only its own calls end an operation, unless its context dies.
LEMMA EndsInCall ==
    ASSUME TypeInv, [Next]_vars, op # None, op' = None, deaths' = deaths
    PROVE  Call
<1>1. deaths \in Nat
  BY DEF TypeInv, TypeOK
<1>2. ~(UNCHANGED vars)
  BY DEF vars
<1>3. ~BrowserRestart /\ \A c \in Contexts : ~Die(c)
  BY <1>1 DEF BrowserRestart, Die, Forget
<1>4. \A c \in Contexts : ~OpenSession(c) /\ ~GetStatus(c)
  BY DEF OpenSession, GetStatus
<1>5. \A i \in Ids : ~Alarm(i)
  BY DEF Alarm, FireAlarm, CheckOwnership, ArmRetry, BeginAlarmCleanup, SettleRetry
<1>6. \A c \in Pages : ~Unlock(c)
  BY DEF Unlock, Authorize, LoadVault, BeginActivation, RejectActivation, Abandon
<1>7. \A c \in Pages : ~Arrive(c) /\ ~Mutate(c) /\ ~Close(c)
  BY DEF Arrive, Prepare, BeginArrival, BeginDiscard, Mutate, BeginPersist, BeginCommit,
     BeginRollback, Close, BeginLock, BeginDelete
<1> QED
  BY <1>2, <1>3, <1>4, <1>5, <1>6, <1>7 DEF Next

LEMMA CloseFinishes ==
    ASSUME TypeInv, EndsInv, Call, op # None, op.kind \in {"lock", "delete"}, op' = None,
           ~op.failed, ~op.taskFailed, faults' = faults
    PROVE  stored' = None /\ payload' = None /\ task' = None
<1> USE DEF At
<1>1. CloseEnd
  BY DEF EndsInv
<1>2. \A failing : Count(failing) => failing = None
  BY EndTypes DEF Count
<1>3. op.kind \in Cleanups /\ op.kind \notin {"activate", "discard", "revoke", "alarm", "commit",
                                             "persist", "rollback"}
  BY DEF Cleanups
<1>4. ~(AdvanceEpoch \/ ReadTasks \/ RemoveMaterial \/ RemoveVault \/ RemovePayload)
  <2>1. /\ {"read tasks", "remove task", "remove vault"} \subseteq Pcs
        /\ \A failing : \E f \in BOOLEAN : f = (op.failed \/ failing # None)
    BY Zenon DEF Pcs
  <2>2. AdvanceEpoch => \E failing : Proceed("read tasks", op.failed \/ failing # None)
    BY <1>3, Zenon DEF AdvanceEpoch
  <2>3. ReadTasks => \E failing : Looked(failing)
    BY <1>3, Zenon DEF ReadTasks, AlarmIsStale
  <2>4. RemoveMaterial => \E failing : MaterialRemoved(failing)
    BY DEF RemoveMaterial
  <2>5. RemoveVault => \E failing : Proceed("remove task", op.failed \/ failing # None)
    BY DEF RemoveVault
  <2>6. RemovePayload => \E failing : \/ Proceed("remove vault", op.failed \/ failing # None)
                                      \/ Proceed("remove task", op.failed \/ failing # None)
    BY <1>2, <1>3, Zenon DEF RemovePayload
  <2>7. \A next \in Pcs : \A failing : ~Proceed(next, op.failed \/ failing # None)
    BY <2>1, OperationGoesOn, Zenon
  <2>8. \A failing : ~Looked(failing) /\ ~MaterialRemoved(failing)
    BY OperationGoesOn
  <2> QED
    BY <2>1, <2>2, <2>3, <2>4, <2>5, <2>6, <2>7, <2>8
<1>5. CASE CancelAlarm
  <2>1. stored' = stored /\ payload' = payload /\ task' = task /\ op.pc = "cancel alarm"
    BY <1>5 DEF CancelAlarm
  <2> QED
    BY <1>1, <2>1 DEF CloseEnd, Retiring
<1>6. CASE RemoveTask
  <2>1. "cancel alarm" \in Pcs
    BY DEF Pcs
  <2>2. ~Goto("cancel alarm")
    BY <2>1, OperationGoesOn
  <2>3. ~RetiresTask /\ task' = task
    BY <1>2, <1>3, <1>6, <2>2, Zenon DEF RemoveTask
  <2>4. stored' = stored /\ payload' = payload /\ op.pc = "remove task"
    BY <1>6 DEF RemoveTask
  <2>5. task = None \/ op.action = task.id
    BY <1>1, <2>4 DEF CloseEnd
  <2>6. task # None => task.id \in Ids
    BY DEF TypeInv, TypeOK, LockTask
  <2>7. task = None
    BY <2>3, <2>5, <2>6, EndTypes DEF RetiresTask
  <2> QED
    BY <1>1, <2>3, <2>4, <2>7 DEF CloseEnd, Retiring
<1>7. ~(\/ SaveTask \/ ArmAlarm \/ SavePayload \/ SaveMaterial \/ SaveSnapshot
        \/ RestoreSnapshot \/ SaveVault \/ DiscardVault)
  BY <1>3, KindOfCall DEF SaveTask, ArmAlarm, SavePayload, SaveMaterial, SaveSnapshot,
     RestoreSnapshot, SaveVault, DiscardVault
<1> QED
  BY <1>4, <1>5, <1>6, <1>7 DEF Call

\* A lock or a deletion that reports success has removed the session, its
\* payload and the lock task, and no context can read the session any more.
THEOREM LocksReportTheTruth == Spec => LockReportsTheTruth
<1>1. ASSUME TypeInv, TypeInv', EndsInv, [Next]_vars,
             op # None, op.kind \in {"lock", "delete"}, op' = None,
             ~op.failed, ~op.taskFailed, faults' = faults, deaths' = deaths
      PROVE  /\ stored' = None /\ payload' = None /\ task' = None
             /\ \A c \in Contexts : Reconcile(c)'.material = None
  <2>1. stored' = None /\ payload' = None /\ task' = None
    BY <1>1, EndsInCall, CloseFinishes
  <2>2. ASSUME NEW c \in Contexts
        PROVE  Reconcile(c)'.material = None
    BY <2>1, <2>2 DEF Reconcile
  <2> QED
    BY <2>1, <2>2
<1>2. TypeInv /\ TypeInv' /\ EndsInv /\ [Next]_vars =>
        ((/\ op # None /\ op.kind \in {"lock", "delete"} /\ op' = None
          /\ ~op.failed /\ ~op.taskFailed /\ faults' = faults /\ deaths' = deaths)
         => /\ stored' = None /\ payload' = None /\ task' = None
            /\ \A c \in Contexts : Reconcile(c)'.material = None)
  BY <1>1
<1> QED
  BY <1>2, TypeInduction, EndsInduction, PTL DEF Spec, LockReportsTheTruth


(***************************************************************************)
(* The end of an arrival that failed, and of one that is discarded.        *)
(***************************************************************************)
LEMMA NothingLeft ==
    ASSUME TypeInv, op # None, op.vault # None, op.target \in Material,
           stored' # op.target, payload' # op.target, snapshot'[op.vault] # op.target.ver,
           op.action # None /\ task' # None => task'.id # op.action
    PROVE  LeavesNothing(op)
<1>1. ASSUME op.action # None, task' = [id |-> op.action, vault |-> op.vault]
      PROVE  FALSE
  <2>1. op.action \in Ids /\ op.vault \in Vaults
    BY <1>1, KindOfCall DEF Operations
  <2>2. task' \in LockTask /\ task'.id = op.action
    BY <1>1, <2>1 DEF LockTask
  <2>3. task' # None
    BY <2>2, MarkersAssumption
  <2> QED
    BY <1>1, <2>2, <2>3
<1> QED
  BY <1>1 DEF LeavesNothing

LEMMA FailedActivationLeavesNothing ==
    ASSUME TypeInv, SnapshotsInv, EndsInv, Call, op # None, op' = None, op.vault # None,
           op.kind = "activate", stored' # op.target, AtMostOneFault'
    PROVE  LeavesNothing(op)
<1> USE DEF At
<1>1. ActivationEnd
  BY DEF EndsInv
<1>2. /\ op \in Operations /\ op.vault \in Vaults /\ op.target \in Material
      /\ op.target.ver \in Versions /\ None \notin Versions
  BY KindOfCall, EndTypes, MarkersAssumption DEF Operations, Material
<1>3. \A next \in Pcs : ~Goto(next)
  BY OperationGoesOn
<1>4. {"save task", "save vault", "arm alarm", "save payload", "save material",
       "remove material", "cancel alarm", "remove task", "discard vault"} \subseteq Pcs
  BY DEF Pcs
<1>5. ASSUME op.pc \in {"advance epoch", "save vault"}, \E failing : Count(failing),
             payload' = payload, task' = task, snapshot' = snapshot
      PROVE  LeavesNothing(op)
  <2>1. Storing
    BY <1>5 DEF Storing
  <2>2. op.target.ver = nextVersion /\ Issued = nextVersion - 1
    BY <2>1 DEF SnapshotsInv, Issued
  <2>3. snapshot[op.vault] # None => snapshot[op.vault] <= nextVersion - 1
    BY <1>2, <2>2 DEF SnapshotsInv
  <2>4. nextVersion \in Nat /\ snapshot[op.vault] \in Versions \cup {None}
        /\ Versions \subseteq Nat
    BY <1>2, VersionTypes
  <2>5. snapshot[op.vault] # op.target.ver
    BY <1>2, <2>2, <2>3, <2>4
  <2>6. AtMostOneFault
    BY <1>5, FaultsCount
  <2>7. payload # op.target /\ NoTaskOf(op.action)
    BY <1>1, <1>5, <2>6 DEF ActivationEnd
  <2>8. task' # None => task'.id # op.action
    BY <1>5, <2>7 DEF NoTaskOf
  <2> QED
    BY <1>2, <1>5, <2>5, <2>7, <2>8, NothingLeft
<1>6. CASE AdvanceEpoch
  BY <1>5, <1>6 DEF AdvanceEpoch
<1>7. CASE SaveVault
  <2>1. snapshot' = snapshot
    BY <1>3, <1>4, <1>7, Zenon DEF SaveVault
  <2> QED
    BY <1>5, <1>7, <2>1 DEF SaveVault
<1>8. CASE DiscardVault
  <2>1. op.pc = "discard vault"
    BY <1>8 DEF DiscardVault
  <2>2. PICK failing :
          /\ Count(failing)
          /\ \/ failing = None /\ Discards /\ snapshot' = [snapshot EXCEPT ![op.vault] = None]
             \/ (failing # None \/ ~Discards) /\ snapshot' = snapshot
    BY <1>8, Zenon DEF DiscardVault
  <2>3. faults # 0
    BY <1>1, <2>1 DEF ActivationEnd, RollingBack
  <2>4. failing = None /\ AtMostOneFault
    BY <2>2, <2>3, FaultsCount
  <2>5. payload # op.target /\ NoTaskOf(op.action)
    BY <1>1, <2>1, <2>4 DEF ActivationEnd
  <2>6. snapshot'[op.vault] # op.target.ver
    <3>1. snapshot \in [Vaults -> Versions \cup {None}]
      BY DEF TypeInv, TypeOK
    <3> QED
      BY <1>2, <2>2, <2>4, <3>1 DEF Discards
  <2>7. payload' = payload /\ task' = task
    BY <1>8 DEF DiscardVault
  <2>8. task' # None => task'.id # op.action
    BY <2>5, <2>7 DEF NoTaskOf
  <2> QED
    BY <1>2, <2>5, <2>6, <2>7, <2>8, NothingLeft
<1>9. ~(SaveTask \/ ArmAlarm \/ SavePayload \/ RemovePayload \/ CancelAlarm)
  BY <1>3, <1>4, Zenon DEF SaveTask, ArmAlarm, SavePayload, RemovePayload, CancelAlarm,
     AfterFailedInstall, FirstSave, AfterFailedSave, Cleanups
<1>10. ~SaveMaterial
  BY <1>3, <1>4, Zenon DEF SaveMaterial, AfterFailedSave
<1>11. ~RemoveTask
  BY <1>3, <1>4, Zenon DEF RemoveTask, RollsVaultBack, Cleanups
<1>12. ~RemoveMaterial
  BY OperationGoesOn DEF RemoveMaterial
<1>13. ~(SaveSnapshot \/ RestoreSnapshot \/ ReadTasks \/ RemoveVault)
  BY KindOfCall DEF SaveSnapshot, RestoreSnapshot, ReadTasks, RemoveVault, Cleanups
<1> QED
  BY <1>6, <1>7, <1>8, <1>9, <1>10, <1>11, <1>12, <1>13 DEF Call

LEMMA DiscardLeavesNothing ==
    ASSUME TypeInv, EndsInv, Call, op # None, op.vault # None,
           op.kind = "discard", snapshot'[op.vault] # snapshot[op.vault]
    PROVE  LeavesNothing(op)
<1> USE DEF At
<1>1. DiscardEnd
  BY DEF EndsInv
<1>2. snapshot' # snapshot
  OBVIOUS
<1>3. DiscardVault
  <2>1. ~(\/ AdvanceEpoch \/ SaveTask \/ ArmAlarm \/ SavePayload \/ SaveMaterial \/ ReadTasks
          \/ RemoveMaterial \/ RemovePayload \/ RemoveTask \/ CancelAlarm)
    BY <1>2 DEF AdvanceEpoch, SaveTask, ArmAlarm, SavePayload, SaveMaterial, ReadTasks,
       RemoveMaterial, RemovePayload, RemoveTask, CancelAlarm, shared
  <2>2. ~(SaveSnapshot \/ RestoreSnapshot \/ RemoveVault \/ SaveVault)
    BY KindOfCall DEF SaveSnapshot, RestoreSnapshot, RemoveVault, SaveVault, Cleanups
  <2> QED
    BY <2>1, <2>2 DEF Call
<1>4. /\ op.pc = "discard vault" /\ stored' = stored /\ payload' = payload /\ task' = task
      /\ snapshot' = [snapshot EXCEPT ![op.vault] = None]
  BY <1>2, <1>3 DEF DiscardVault
<1>5. /\ op.target \in Material /\ op.target.ver \in Versions
      /\ None \notin Versions /\ None \notin Material /\ op.vault \in Vaults
      /\ snapshot \in [Vaults -> Versions \cup {None}]
  BY <1>1, KindOfCall, MarkersAssumption DEF DiscardEnd, Operations, Material, TypeInv, TypeOK
<1>6. /\ stored = None /\ payload = None
      /\ (op.action # None /\ task' # None => task'.id # op.action)
  BY <1>1, <1>4 DEF DiscardEnd, NoTaskOf
<1>7. /\ stored' # op.target /\ payload' # op.target
      /\ snapshot'[op.vault] # op.target.ver
  BY <1>4, <1>5, <1>6
<1> QED
  BY <1>5, <1>6, <1>7, NothingLeft

\* An arrival whose activation fails, or that is discarded, leaves no session,
\* no payload, no vault records and no lock task, if no other call fails.
THEOREM FailedArrivalsLeaveNothing == Spec => FailedArrivalLeavesNothing
<1>1. ASSUME TypeInv, SnapshotsInv, EndsInv, [Next]_vars,
             op # None, op' = None, op.vault # None, deaths' = deaths, faults' <= 1,
             \/ op.kind = "activate" /\ stored' # op.target
             \/ op.kind = "discard" /\ snapshot'[op.vault] # snapshot[op.vault]
      PROVE  LeavesNothing(op)
  <2>1. Call /\ AtMostOneFault'
    BY <1>1, EndsInCall DEF AtMostOneFault
  <2> QED
    BY <1>1, <2>1, FailedActivationLeavesNothing, DiscardLeavesNothing
<1>2. TypeInv /\ SnapshotsInv /\ EndsInv /\ [Next]_vars =>
        ((/\ op # None /\ op' = None /\ op.vault # None
          /\ deaths' = deaths /\ faults' <= 1
          /\ \/ op.kind = "activate" /\ stored' # op.target
             \/ op.kind = "discard" /\ snapshot'[op.vault] # snapshot[op.vault])
         => LeavesNothing(op))
  BY <1>1
<1>3. VersionsInv => SnapshotsInv
  BY DEF VersionsInv
<1> QED
  BY <1>2, <1>3, TypeInduction, VersionsInduction, EndsInduction, PTL
  DEF Spec, FailedArrivalLeavesNothing


-----------------------------------------------------------------------------
(***************************************************************************)
(* The snapshot a session is given.  Who unlocked a vault, or persisted a  *)
(* mutation of the stored session, has the snapshot that is local, as long *)
(* as his authority is current or the session is stored: whatever brings   *)
(* another snapshot writes the epoch first, and only the mutation of the   *)
(* stored session itself replaces the snapshot it stands for.  A rollback  *)
(* breaks this (it writes no epoch when it still sees the session), so     *)
(* this part is about the behaviours in which none restores a snapshot,    *)
(* and, as above, every deletion writes its epoch.                         *)
(***************************************************************************)
NothingRestored == [][ RestoreSnapshot => snapshot' = snapshot ]_vars

ReadyIsLocal ==
    \A c \in Contexts : client[c].pc = "ready" /\ client[c].epoch = epoch
                            => snapshot[client[c].vault] = client[c].ver

PersistedIsLocal ==
    \A c \in Contexts :
        client[c].pc = "persisted" /\ stored # None /\ stored.sid = client[c].session.sid
            => snapshot[client[c].session.vault] = client[c].ver

InstallsLocal == Installs => snapshot[op.target.vault] = op.target.ver

PersistsStored ==
    op # None /\ op.kind = "persist" => stored # None /\ stored.sid = op.target.sid

LocalInv == ReadyIsLocal /\ PersistedIsLocal /\ InstallsLocal /\ PersistsStored

\* Whose authority is still current after a call had it before, and nobody does
\* when everyone is behind the epoch.
LEMMA CallKeepsReady ==
    ASSUME TypeInv, TypeInv', AuthorityInv, ReadyIsLocal, Call,
           snapshot' = snapshot \/ EpochAhead
    PROVE  ReadyIsLocal'
<1>1. /\ epoch \in Nat /\ epoch' \in Nat /\ epoch' >= epoch
      /\ \A c \in Contexts : Holding(c)' => client'[c] = client[c]
  BY CallHolders
<1>2. \A c \in Contexts : Holding(c) => client[c].epoch \in Nat /\ client[c].epoch <= epoch
  BY HeldEpochs DEF AuthorityInv
<1>3. ASSUME NEW c \in Contexts, client'[c].pc = "ready", client'[c].epoch = epoch'
      PROVE  snapshot'[client'[c].vault] = client'[c].ver
  <2>1. client'[c] = client[c] /\ Holding(c)
    BY <1>1, <1>3 DEF Holding
  <2>2. client[c].epoch = epoch
    BY <1>1, <1>2, <1>3, <2>1
  <2>3. ~EpochAhead
    BY <1>1, <2>1, <2>2 DEF EpochAhead
  <2> QED
    BY <1>3, <2>1, <2>2, <2>3 DEF ReadyIsLocal
<1> QED
  BY <1>3 DEF ReadyIsLocal

\* Only three calls change a snapshot, if no rollback does: one that stores a
\* vault nobody had, the save of a mutation, and the removal of the records.
LEMMA SnapshotChanges ==
    ASSUME Call, RestoreSnapshot => snapshot' = snapshot
    PROVE  \/ snapshot' = snapshot
           \/ SaveVault \/ SaveSnapshot \/ RemoveVault \/ DiscardVault
BY DEF Call, AdvanceEpoch, SaveTask, ArmAlarm, SavePayload, SaveMaterial, ReadTasks,
       RemoveMaterial, RemovePayload, RemoveTask, CancelAlarm, shared

LEMMA SnapshotChangesAhead ==
    ASSUME TypeInv, AuthorityInv, RecordsInv,
           SaveVault \/ SaveSnapshot \/ RemoveVault \/ DiscardVault
    PROVE  EpochAhead
<1> USE DEF At
<1>1. op # None
  BY DEF SaveVault, SaveSnapshot, RemoveVault, DiscardVault
<1>2. CASE SaveVault \/ SaveSnapshot
  <2>1. /\ op.kind \in {"activate", "persist"} /\ op.pc # "advance epoch"
    BY <1>1, <1>2, KindOfCall DEF SaveVault, SaveSnapshot
  <2> QED
    BY <1>1, <2>1 DEF AuthorityInv, PastEpoch
<1>3. CASE RemoveVault \/ DiscardVault
  BY <1>1, <1>3 DEF RecordsInv, Removes, RemoveVault, DiscardVault
<1> QED
  BY <1>2, <1>3

\* Records come and go when no session is stored.
LEMMA RecordsChangeBare ==
    ASSUME TypeInv, SessionsInv, RecordsInv, snapshot' # snapshot,
           SaveVault \/ RemoveVault \/ DiscardVault
    PROVE  stored = None
<1> USE DEF At
<1>1. op # None /\ Bare
  BY DEF SaveVault, RemoveVault, DiscardVault, RecordsInv
<1>2. CASE SaveVault
  <2>1. op.kind = "activate" /\ op.vault # None /\ op.vault = op.target.vault
    BY <1>1, <1>2, KindOfCall DEF SaveVault, Bare
  <2>2. snapshot[op.vault] = None
    BY <1>2 DEF SaveVault
  <2>3. stored # None => stored.vault = op.vault
    BY <1>1, <2>1 DEF SessionsInv
  <2> QED
    BY <2>2, <2>3 DEF RecordsInv, NoSessionOverDeletedVault
<1>3. CASE RemoveVault \/ DiscardVault
  BY <1>1, <1>3 DEF Bare, RemoveVault, DiscardVault
<1> QED
  BY <1>2, <1>3

\* The save of a mutation replaces the snapshot its session stands for, which is
\* then the one stored; who had persisted over that session before has a newer
\* snapshot than the session, so the save would not have found its own.
LEMMA SaveSnapshotKeepsPersisted ==
    ASSUME TypeInv, VersionsInv, LocalInv, SaveSnapshot
    PROVE  PersistedIsLocal'
<1> USE DEF At
<1>1. op # None /\ op.kind = "persist" /\ op.ctx \in Contexts /\ stored' = stored
  BY KindOfCall DEF SaveSnapshot
<1>2. CASE snapshot' = snapshot /\ client' = client
  BY <1>1, <1>2 DEF LocalInv, PersistedIsLocal
<1>3. CASE /\ snapshot[op.target.vault] = op.target.ver
           /\ snapshot' = [snapshot EXCEPT ![op.target.vault] = nextVersion + 1]
           /\ client' = [client EXCEPT ![op.ctx] =
                 [pc |-> "persisted", session |-> op.target, ver |-> nextVersion + 1]]
  <2>1. /\ op.target \in Material /\ op.target.vault \in Vaults /\ op.target.ver \in Versions
        /\ op.target.sid \in Nat
        /\ snapshot \in [Vaults -> Versions \cup {None}] /\ client \in [Contexts -> Clients]
    BY <1>1, VersionTypes DEF TypeInv, TypeOK
  <2>2. stored # None /\ stored = op.target
    <3>1. stored # None /\ stored.sid = op.target.sid
      BY <1>1 DEF LocalInv, PersistsStored
    <3>2. stored = op.target \/ Retired(op.target.vault, op.target.ver)
      BY <1>1, <3>1 DEF VersionsInv, MutationsInv, Follows
    <3> QED
      BY <1>3, <3>1, <3>2 DEF Retired
  <2>3. ASSUME NEW c \in Contexts, client'[c].pc = "persisted",
               stored.sid = client'[c].session.sid
        PROVE  snapshot'[client'[c].session.vault] = client'[c].ver
    <3>1. CASE c = op.ctx
      <4>1. client'[c] = [pc |-> "persisted", session |-> op.target, ver |-> nextVersion + 1]
        BY <1>3, <2>1, <3>1
      <4> QED
        BY <1>3, <2>1, <4>1
    <3>2. CASE c # op.ctx
      <4>1. client'[c] = client[c] /\ client[c].pc = "persisted"
        BY <1>3, <2>1, <2>3, <3>2
      <4>2. stored = client[c].session /\ client[c].session.ver < client[c].ver
        BY <2>2, <2>3, <4>1 DEF VersionsInv, MutationsInv, ClientInv
      <4>3. snapshot[op.target.vault] = client[c].ver
        BY <2>2, <4>1, <4>2 DEF LocalInv, PersistedIsLocal
      <4>4. client[c].ver \in Nat /\ client[c].session.ver \in Nat
        BY <4>1, VersionTypes
      <4> QED
        BY <1>3, <2>2, <4>2, <4>3, <4>4
    <3> QED
      BY <3>1, <3>2
  <2> QED
    BY <1>1, <2>3 DEF PersistedIsLocal
<1> QED
  BY <1>2, <1>3 DEF SaveSnapshot

LEMMA SaveMaterialKeepsPersisted ==
    ASSUME TypeInv, SessionsInv, VersionsInv, LocalInv, SaveMaterial
    PROVE  PersistedIsLocal'
<1> USE DEF At
<1>1. /\ op # None /\ op.kind \in {"activate", "commit"}
      /\ snapshot' = snapshot /\ client \in [Contexts -> Clients]
  BY KindOfCall DEF SaveMaterial, TypeInv, TypeOK
<1>2. stored' = stored \/ stored' = op.target
  BY DEF SaveMaterial
<1>3. \A c \in Contexts : client'[c].pc = "persisted" => client'[c] = client[c]
  <2>1. \/ client' = client
        \/ client' = [client EXCEPT ![op.ctx] = [pc |-> "enrolled", session |-> op.target]]
    BY DEF SaveMaterial, Activated
  <2> QED
    BY <1>1, <2>1
<1>4. CASE stored' = stored
  BY <1>1, <1>3, <1>4 DEF LocalInv, PersistedIsLocal
<1>5. CASE stored' = op.target
  <2>1. ASSUME NEW c \in Contexts, client[c].pc = "persisted",
               op.target.sid = client[c].session.sid
        PROVE  snapshot[client[c].session.vault] = client[c].ver
    <3>1. client[c].session.sid <= opened
      BY <2>1 DEF VersionsInv, MutationsInv, ClientInv
    <3>2. op.kind = "activate" => opened < op.target.sid
      BY <1>1 DEF SessionsInv
    <3>3. op.kind = "commit"
      BY <1>1, <2>1, <3>1, <3>2, VersionTypes
    <3>4. op.pc \in Installing
      BY DEF SaveMaterial, Installing
    <3>5. stored # None /\ stored.sid = op.target.sid
      BY <1>1, <3>3, <3>4 DEF SessionsInv
    <3> QED
      BY <2>1, <3>5 DEF LocalInv, PersistedIsLocal
  <2> QED
    BY <1>1, <1>3, <1>5, <2>1 DEF PersistedIsLocal
<1> QED
  BY <1>2, <1>4, <1>5

LEMMA CallKeepsPersisted ==
    ASSUME TypeInv, SessionsInv, VersionsInv, RecordsInv, LocalInv, Call,
           RestoreSnapshot => snapshot' = snapshot
    PROVE  PersistedIsLocal'
<1>1. CASE SaveSnapshot
  BY <1>1, SaveSnapshotKeepsPersisted
<1>2. CASE SaveMaterial
  BY <1>2, SaveMaterialKeepsPersisted
<1>3. CASE ~SaveSnapshot /\ ~SaveMaterial
  <2>1. client' = client /\ (stored' = stored \/ stored' = None)
    BY <1>3 DEF Call, AdvanceEpoch, SaveTask, ArmAlarm, SavePayload, RestoreSnapshot,
                ReadTasks, RemoveMaterial, RemovePayload, RemoveVault, RemoveTask,
                CancelAlarm, SaveVault, DiscardVault, shared
  <2>2. snapshot' = snapshot \/ stored = None
    BY <1>3, SnapshotChanges, RecordsChangeBare
  <2> QED
    BY <2>1, <2>2 DEF LocalInv, PersistedIsLocal
<1> QED
  BY <1>1, <1>2, <1>3

\* A call goes on to install what the one before it was to install, unless it
\* has just stored the vault.
LEMMA InstallsCarry ==
    ASSUME TypeInv, Call, Installs'
    PROVE  \/ Installs /\ op'.target = op.target /\ snapshot' = snapshot
           \/ SaveVault /\ Goto("save task")
<1> USE DEF At
<1>1. op # None /\ op \in Operations /\ op' # None
  BY CallRecalls, KindOfCall DEF Installs
<1>2. op'.kind \in {"activate", "commit"} /\ op'.kind = op.kind
  BY <1>1, CallRecalls, KindCarries DEF Installs
<1>3. op' # Revocation(op.ctx, op.known) /\ op' # Removal(op.ctx, op.known)
  BY <1>1, <1>2, KindOfCall, RevocationType, RemovalType DEF IsOperation
<1>4. ASSUME NEW pc, Goto(pc)
      PROVE  op'.pc = pc /\ op'.target = op.target
  BY <1>1, <1>4 DEF Goto, Operations
<1>5. op'.pc \in {"arm alarm", "save payload", "save material", "save task"} \/ op'.pc = "advance epoch"
  BY DEF Installs, Installing
<1>6. op'.pc = "advance epoch" => op.kind = "activate"
  BY <1>2 DEF Installs, Installing
<1>7. CASE AdvanceEpoch
  <2>1. op.kind = "activate" /\ Goto(IF op.vault = None THEN "save task" ELSE "save vault")
    BY <1>1, <1>2, <1>3, <1>7 DEF AdvanceEpoch, Finish, Cleanups
  <2>2. op.vault = None
    <3>1. ASSUME op.vault # None PROVE FALSE
      <4>1. Goto("save vault")
        BY <2>1, <3>1
      <4>2. op'.pc = "save vault"
        BY <1>4, <4>1
      <4> QED
        BY <1>5, <4>2
    <3> QED
      BY <3>1
  <2>3. op.pc = "advance epoch" /\ snapshot' = snapshot
    BY <1>7 DEF AdvanceEpoch
  <2> QED
    BY <1>1, <1>4, <2>1, <2>2, <2>3 DEF Installs
<1>8. CASE SaveVault
  BY <1>1, <1>3, <1>8 DEF SaveVault
<1>9. CASE SaveTask \/ ArmAlarm \/ SavePayload \/ SaveMaterial
  <2>1. op.pc \in Installing \cup {"save task"} /\ snapshot' = snapshot
    BY <1>9 DEF SaveTask, ArmAlarm, SavePayload, SaveMaterial, Installing
  <2>2. \E pc : Goto(pc)
    BY <1>1, <1>3, <1>9
    DEF SaveTask, ArmAlarm, SavePayload, SaveMaterial, AfterFailedSave, Finish
  <2> QED
    BY <1>1, <1>2, <1>4, <2>1, <2>2 DEF Installs
<1>10. CASE SaveSnapshot \/ RestoreSnapshot \/ DiscardVault
  BY <1>1, <1>3, <1>10 DEF SaveSnapshot, RestoreSnapshot, DiscardVault, Finish
<1>11. CASE ReadTasks \/ RemoveVault
  BY <1>1, <1>2, <1>11, KindOfCall DEF ReadTasks, RemoveVault, Cleanups
<1>12. CASE RemoveMaterial
  <2>1. op'.pc = "remove payload"
    BY <1>1, <1>12 DEF RemoveMaterial, MaterialRemoved, Operations
  <2> QED
    BY <1>5, <2>1
<1>13. CASE RemovePayload
  <2>1. op.kind = "activate"
    BY <1>1, <1>2, <1>13, KindOfCall DEF RemovePayload, Cleanups
  <2>2. Goto("cancel alarm")
    BY <1>13, <2>1 DEF RemovePayload, Cleanups
  <2>3. op'.pc = "cancel alarm"
    BY <1>4, <2>2
  <2> QED
    BY <1>5, <2>3
<1>14. CASE RemoveTask \/ CancelAlarm
  <2>1. op.kind = "activate"
    BY <1>1, <1>2, <1>14, KindOfCall DEF RemoveTask, CancelAlarm, Cleanups
  <2>2. Goto("discard vault") \/ Goto("remove task")
    BY <1>1, <1>14, <2>1 DEF RemoveTask, CancelAlarm, Finish, Cleanups
  <2>3. op'.pc = "discard vault" \/ op'.pc = "remove task"
    BY <1>4, <2>2
  <2> QED
    BY <1>5, <2>3
<1> QED
  BY <1>7, <1>8, <1>9, <1>10, <1>11, <1>12, <1>13, <1>14 DEF Call

LEMMA CallKeepsInstalls ==
    ASSUME TypeInv, SessionsInv, RecordsInv, LocalInv, Call
    PROVE  InstallsLocal'
<1>1. ASSUME Installs' PROVE snapshot'[op'.target.vault] = op'.target.ver
  <2>1. CASE Installs /\ op'.target = op.target /\ snapshot' = snapshot
    BY <2>1 DEF LocalInv, InstallsLocal
  <2>2. CASE SaveVault /\ Goto("save task")
    <3>1. op # None /\ op \in Operations /\ op.kind = "activate" /\ Bare
      BY <2>2, KindOfCall DEF SaveVault, At, RecordsInv
    <3>2. op.vault = op.target.vault
      BY <2>2, <3>1 DEF SaveVault, At, Bare
    <3>3. op'.target = op.target /\ op'.pc = "save task"
      BY <2>2, <3>1 DEF Goto, Operations
    <3>4. op' # Removal(op.ctx, op.known) /\ op' # None
      BY <1>1, <3>1, <3>3, KindOfCall, RemovalType DEF IsOperation, Installs
    <3>5. snapshot' = [snapshot EXCEPT ![op.vault] = op.target.ver]
      BY <2>2, <3>4 DEF SaveVault
    <3>6. snapshot \in [Vaults -> Versions \cup {None}] /\ op.target.vault \in Vaults
      BY <3>1, VersionTypes DEF TypeInv, TypeOK
    <3> QED
      BY <3>2, <3>3, <3>5, <3>6
  <2> QED
    BY <1>1, <2>1, <2>2, InstallsCarry
<1> QED
  BY <1>1 DEF InstallsLocal

LEMMA CallKeepsPersists ==
    ASSUME TypeInv, LocalInv, Call
    PROVE  PersistsStored'
<1> USE DEF At
<1>1. op # None /\ op \in Operations
  BY CallRecalls, KindOfCall
<1>2. ASSUME op' # None, op'.kind = "persist"
      PROVE  stored' # None /\ stored'.sid = op'.target.sid
  <2>1. op.kind = "persist"
    BY <1>1, <1>2, CallRecalls, KindCarries
  <2>2. op.pc \in {"advance epoch", "save snapshot"}
    BY <1>1, <2>1, KindOfCall DEF WellFormed, CallsOf
  <2>3. AdvanceEpoch \/ SaveSnapshot
    BY <2>2 DEF Call, SaveTask, ArmAlarm, SavePayload, SaveMaterial, RestoreSnapshot,
                ReadTasks, RemoveMaterial, RemovePayload, RemoveVault, RemoveTask,
                CancelAlarm, SaveVault, DiscardVault
  <2>4. AdvanceEpoch
    BY <1>2, <2>3 DEF SaveSnapshot, Finish
  <2>5. Goto("save snapshot") /\ stored' = stored
    BY <1>2, <2>1, <2>4 DEF AdvanceEpoch, Finish, Cleanups
  <2>6. op'.target = op.target
    BY <1>1, <2>5 DEF Goto, Operations
  <2> QED
    BY <1>1, <2>1, <2>5, <2>6 DEF LocalInv, PersistsStored
<1> QED
  BY <1>2 DEF PersistsStored

LEMMA CallKeepsLocal ==
    ASSUME TypeInv, TypeInv', AuthorityInv, SessionsInv, VersionsInv, RecordsInv, LocalInv,
           Call, RestoreSnapshot => snapshot' = snapshot
    PROVE  LocalInv'
<1>1. snapshot' = snapshot \/ EpochAhead
  BY SnapshotChanges, SnapshotChangesAhead
<1> QED
  BY <1>1, CallKeepsReady, CallKeepsPersisted, CallKeepsInstalls, CallKeepsPersists
  DEF LocalInv

\* Outside the operations: who loads gets the local snapshot, and what begins
\* finds that its own is the local one.
LocalStep ==
    /\ epoch' = epoch /\ snapshot' = snapshot
    /\ stored' = stored \/ stored' = None
    /\ \A c \in Contexts :
          /\ client'[c].pc = "ready" =>
                client'[c] = client[c] \/ snapshot[client'[c].vault] = client'[c].ver
          /\ client'[c].pc = "persisted" => client'[c] = client[c]

BeginsLocal ==
    op' # None =>
        /\ Installs' => snapshot[op'.target.vault] = op'.target.ver
        /\ op'.kind = "persist" => stored # None /\ stored.sid = op'.target.sid

LEMMA OutsideKeepsLocal ==
    ASSUME LocalInv, LocalStep, BeginsLocal \/ op' = op, stored' = stored \/ op' = None
    PROVE  LocalInv'
<1>1. ReadyIsLocal'
  BY DEF LocalInv, LocalStep, ReadyIsLocal
<1>2. PersistedIsLocal'
  BY DEF LocalInv, LocalStep, PersistedIsLocal
<1>3. InstallsLocal' /\ PersistsStored'
  <2>1. CASE op' = None
    BY <2>1 DEF Installs, InstallsLocal, PersistsStored
  <2>2. CASE op' # None /\ BeginsLocal /\ stored' = stored
    BY <2>2 DEF LocalStep, BeginsLocal, InstallsLocal, PersistsStored
  <2>3. CASE op' = op /\ stored' = stored
    BY <2>3 DEF LocalInv, LocalStep, Installs, InstallsLocal, PersistsStored
  <2> QED
    BY <2>1, <2>2, <2>3
<1> QED
  BY <1>1, <1>2, <1>3 DEF LocalInv

\* The operations that neither install nor persist.
LEMMA BeginsOther ==
    ASSUME op' # None => op'.kind \notin {"activate", "commit", "persist"}
    PROVE  BeginsLocal
BY DEF BeginsLocal, Installs

LEMMA UnlockKeepsLocal ==
    ASSUME TypeInv, LocalInv, NEW c \in Pages, Unlock(c)
    PROVE  LocalInv'
<1> c \in Contexts
  BY DEF Contexts
<1>1. TypeOK /\ client \in [Contexts -> Clients]
  BY DEF TypeInv, TypeOK
<1>2. epoch' = epoch /\ snapshot' = snapshot /\ stored' = stored
  BY DEF Unlock, Authorize, LoadVault, BeginActivation, RejectActivation, Abandon, shared
<1>3. ASSUME client' = client \/ \E y : /\ y.pc \notin {"ready", "persisted"}
                                        /\ client' = [client EXCEPT ![c] = y],
             BeginsLocal \/ op' = op
      PROVE  LocalInv'
  <2>1. LocalStep
    BY <1>1, <1>2, <1>3 DEF LocalStep
  <2> QED
    BY <1>2, <1>3, <2>1, OutsideKeepsLocal
<1>4. ASSUME NEW v \in Vaults, Authorize(c, v)
      PROVE  LocalInv'
  BY <1>3, <1>4 DEF Authorize
<1>5. CASE LoadVault(c)
  <2>1. op' = op /\ client' = [client EXCEPT ![c] = Loaded(c)]
    BY <1>5 DEF LoadVault
  <2>2. Loaded(c) = Idle \/ /\ Loaded(c).pc = "ready"
                            /\ snapshot[Loaded(c).vault] = Loaded(c).ver
    BY DEF Loaded
  <2>3. LocalStep
    BY <1>1, <1>2, <2>1, <2>2 DEF LocalStep, Idle
  <2> QED
    BY <1>2, <2>1, <2>3, OutsideKeepsLocal
<1>6. CASE BeginActivation(c)
  <2>1. /\ client[c].pc = "ready" /\ client[c].epoch = epoch
        /\ client' = [client EXCEPT ![c] = Idle]
    BY <1>6 DEF BeginActivation, AuthorityIsCurrent
  <2>2. /\ IsOperation(op', "activate", c, "advance epoch")
        /\ op'.target.vault = client[c].vault /\ op'.target.ver = client[c].ver
    BY <1>1, <1>6, ActivationType DEF BeginActivation
  <2>3. BeginsLocal
    BY <2>1, <2>2 DEF LocalInv, ReadyIsLocal, BeginsLocal, IsOperation
  <2> QED
    BY <1>3, <2>1, <2>3 DEF Idle
<1>7. CASE RejectActivation(c) \/ Abandon(c)
  <2>1. op' = op /\ client' = [client EXCEPT ![c] = Idle]
    BY <1>7 DEF RejectActivation, Abandon
  <2> QED
    BY <1>3, <2>1 DEF Idle
<1> QED
  BY <1>4, <1>5, <1>6, <1>7 DEF Unlock

LEMMA OtherPageStepKeepsLocal ==
    ASSUME TypeInv, LocalInv, NEW c \in Pages, Arrive(c) \/ Mutate(c) \/ Close(c)
    PROVE  LocalInv'
<1> c \in Contexts
  BY DEF Contexts
<1>1. TypeOK /\ client \in [Contexts -> Clients]
  BY DEF TypeInv, TypeOK
<1>2. epoch' = epoch /\ snapshot' = snapshot /\ stored' = stored
  BY DEF Arrive, Prepare, BeginArrival, BeginDiscard, Mutate, BeginPersist, BeginCommit,
         BeginRollback, Close, BeginLock, BeginDelete, shared
<1>3. ASSUME client' = client \/ client' = [client EXCEPT ![c] = Idle], BeginsLocal
      PROVE  LocalInv'
  <2>1. LocalStep
    BY <1>1, <1>2, <1>3 DEF LocalStep, Idle
  <2> QED
    BY <1>2, <1>3, <2>1, OutsideKeepsLocal
<1>4. CASE Prepare(c)
  <2>1. /\ op' = op /\ client[c].pc = "authorized"
        /\ client' = [client EXCEPT ![c].pc = "prepared"]
    BY <1>4 DEF Prepare
  <2>2. client[c] \in [pc : {"authorized", "prepared"}, vault : Vaults, epoch : Nat]
    BY <1>1, <2>1 DEF Clients, Idle
  <2>3. client'[c].pc = "prepared" /\ \A d \in Contexts \ {c} : client'[d] = client[d]
    BY <1>1, <2>1, <2>2
  <2>4. LocalStep
    BY <1>2, <2>3 DEF LocalStep
  <2> QED
    BY <1>2, <2>1, <2>4, OutsideKeepsLocal
<1>5. CASE BeginArrival(c)
  <2>1. /\ IsOperation(op', "activate", c, "advance epoch")
        /\ op'.vault = client[c].vault
    BY <1>1, <1>5, ArrivalType DEF BeginArrival
  <2>2. client[c].pc = "prepared"
    BY <1>5 DEF BeginArrival
  <2>3. client[c].vault \in Vaults
    BY <1>1, <2>2 DEF Clients, Idle
  <2>4. op'.vault # None
    BY <2>1, <2>3, MarkersAssumption
  <2>5. BeginsLocal
    BY <2>1, <2>4 DEF BeginsLocal, Installs, Installing, IsOperation
  <2> QED
    BY <1>3, <1>5, <2>5 DEF BeginArrival
<1>6. CASE BeginDiscard(c)
  <2>1. op' = None \/ op' = Discarding(c)
    BY <1>6 DEF BeginDiscard
  <2>2. op' = Discarding(c) => IsOperation(op', "discard", c, "read tasks")
    BY <1>1, <1>6, DiscardingType DEF BeginDiscard
  <2>3. BeginsLocal
    BY <2>1, <2>2, BeginsOther DEF IsOperation
  <2> QED
    BY <1>3, <1>6, <2>3 DEF BeginDiscard
<1>7. CASE BeginPersist(c)
  <2>1. op' = None \/ (op' = Persistence(c) /\ IsActiveSession(c, client[c].session))
    BY <1>7 DEF BeginPersist
  <2>2. op' = Persistence(c) => /\ IsOperation(op', "persist", c, "advance epoch")
                                /\ op'.target = client[c].session
    BY <1>1, <1>7, PersistenceType DEF BeginPersist
  <2>3. IsActiveSession(c, client[c].session) =>
           stored # None /\ stored.sid = client[c].session.sid
    BY <1>1, ReconcileType DEF IsActiveSession
  <2>4. BeginsLocal
    BY <2>1, <2>2, <2>3 DEF BeginsLocal, Installs, IsOperation
  <2> QED
    BY <1>3, <1>7, <2>4 DEF BeginPersist
<1>8. CASE BeginCommit(c)
  <2>1. op' = None \/ (op' = Commitment(c) /\ IsActiveSession(c, client[c].session))
    BY <1>8 DEF BeginCommit
  <2>2. op' = Commitment(c) => /\ IsOperation(op', "commit", c, "save payload")
                               /\ op'.target.vault = client[c].session.vault
                               /\ op'.target.ver = client[c].ver
    BY <1>1, <1>8, CommitmentType DEF BeginCommit
  <2>3. IsActiveSession(c, client[c].session) =>
           stored # None /\ stored.sid = client[c].session.sid
    BY <1>1, ReconcileType DEF IsActiveSession
  <2>4. IsActiveSession(c, client[c].session) =>
           snapshot[client[c].session.vault] = client[c].ver
    BY <1>8, <2>3 DEF BeginCommit, LocalInv, PersistedIsLocal
  <2>5. BeginsLocal
    BY <2>1, <2>2, <2>4 DEF BeginsLocal, IsOperation
  <2> QED
    BY <1>3, <1>8, <2>5 DEF BeginCommit
<1>9. CASE BeginRollback(c)
  <2>1. op' = None \/ op' = Restoration(c)
    BY <1>9 DEF BeginRollback
  <2>2. op' = Restoration(c) => op'.kind = "rollback"
    BY <1>1, <1>9, RestorationType DEF BeginRollback, IsOperation
  <2>3. BeginsLocal
    BY <2>1, <2>2, BeginsOther
  <2> QED
    BY <1>3, <1>9, <2>3 DEF BeginRollback
<1>10. CASE BeginLock(c)
  <2>1. \E failing \in Steps \cup {None} :
           op' = CleanupOf("lock", c, "advance epoch", failing)
    BY <1>10 DEF BeginLock, Failing, Steps
  <2>2. IsOperation(op', "lock", c, "advance epoch")
    BY <1>1, <2>1, LockType
  <2>3. BeginsLocal
    BY <2>2, BeginsOther DEF IsOperation
  <2> QED
    BY <1>3, <1>10, <2>3 DEF BeginLock
<1>11. CASE \E v \in Vaults : BeginDelete(c, v)
  <2>1. op' = None \/ \E v \in Vaults : op' = DeletionOf(c, v)
    BY <1>11 DEF BeginDelete
  <2>2. (\E v \in Vaults : op' = DeletionOf(c, v))
            => IsOperation(op', "delete", c, "advance epoch")
    BY <1>1, DeletionType
  <2>3. BeginsLocal
    BY <2>1, <2>2, BeginsOther DEF IsOperation
  <2> QED
    BY <1>3, <1>11, <2>3 DEF BeginDelete
<1> QED
  BY <1>4, <1>5, <1>6, <1>7, <1>8, <1>9, <1>10, <1>11 DEF Arrive, Mutate, Close

LEMMA OtherStepKeepsLocal ==
    ASSUME TypeInv, LocalInv,
           \/ \E i \in Ids : Alarm(i)
           \/ \E c \in Contexts : OpenSession(c) \/ GetStatus(c) \/ Die(c)
           \/ BrowserRestart
    PROVE  LocalInv'
<1>1. TypeOK /\ client \in [Contexts -> Clients]
  BY DEF TypeInv, TypeOK
<1>2. ASSUME epoch' = epoch, snapshot' = snapshot, stored' = stored, client' = client,
             op' = op \/ BeginsLocal
      PROVE  LocalInv'
  <2>1. LocalStep
    BY <1>2 DEF LocalStep
  <2> QED
    BY <1>2, <2>1, OutsideKeepsLocal
<1>3. ASSUME NEW i \in Ids, Alarm(i)
      PROVE  LocalInv'
  <2>1. CASE FireAlarm(i) \/ CheckOwnership(i) \/ ArmRetry(i) \/ SettleRetry(i)
    BY <1>2, <2>1 DEF FireAlarm, CheckOwnership, ArmRetry, SettleRetry
  <2>2. CASE BeginAlarmCleanup(i)
    <3>1. PICK failing \in Steps \cup {None} :
            IF ~OwnsLock(i) THEN UNCHANGED op ELSE op' = AlarmCleanup(i, failing)
      BY <2>2 DEF BeginAlarmCleanup, Failing, Steps
    <3>2. OwnsLock(i) => IsOperation(op', "alarm", Background, "read tasks")
      BY <1>1, <3>1, AlarmCleanupType DEF OwnsLock
    <3>3. op' = op \/ BeginsLocal
      BY <3>1, <3>2, BeginsOther DEF IsOperation
    <3> QED
      BY <1>2, <2>2, <3>3 DEF BeginAlarmCleanup, shared
  <2> QED
    BY <1>3, <2>1, <2>2 DEF Alarm
<1>4. ASSUME NEW c \in Contexts, OpenSession(c)
      PROVE  LocalInv'
  <2>1. \/ op' = None
        \/ op' = Revocation(c, None)
        \/ op' = Revocation(c, Reconcile(c).material)
    BY <1>4 DEF OpenSession
  <2>2. op' # None => IsOperation(op', "revoke", c, "advance epoch")
    BY <1>1, <2>1, ReconcileType, RevocationType
  <2>3. BeginsLocal
    BY <2>2, BeginsOther DEF IsOperation
  <2>4. client' = client \/ client' = [client EXCEPT ![c] =
                               [pc |-> "mutating", session |-> Reconcile(c).material]]
    BY <1>4 DEF OpenSession
  <2>5. epoch' = epoch /\ snapshot' = snapshot /\ stored' = stored
    BY <1>4 DEF OpenSession, shared
  <2>6. LocalStep
    BY <1>1, <2>4, <2>5 DEF LocalStep
  <2> QED
    BY <2>3, <2>5, <2>6, OutsideKeepsLocal
<1>5. ASSUME NEW c \in Contexts, GetStatus(c)
      PROVE  LocalInv'
  BY <1>2, <1>5 DEF GetStatus, shared
<1>6. ASSUME NEW c \in Contexts, Die(c)
      PROVE  LocalInv'
  <2>1. /\ epoch' = epoch /\ snapshot' = snapshot /\ stored' = stored
        /\ op' = None \/ op' = op
        /\ client' = [d \in Contexts |-> IF d \in {c} THEN Idle ELSE client[d]]
    BY <1>6 DEF Die, Forget, shared
  <2>2. LocalStep
    BY <1>1, <2>1 DEF LocalStep, Idle
  <2> QED
    BY <2>1, <2>2, OutsideKeepsLocal DEF BeginsLocal
<1>7. CASE BrowserRestart
  <2>1. /\ stored' = None /\ op' = None /\ \A c \in Contexts : client'[c] = Idle
    <3>1. op # None => op.ctx \in Contexts
      BY KindOfCall
    <3> QED
      BY <1>7, <3>1 DEF BrowserRestart, Forget
  <2>2. \A c \in Contexts : client'[c].pc = "idle"
    BY <2>1 DEF Idle
  <2>3. ReadyIsLocal' /\ PersistedIsLocal'
    BY <2>2 DEF ReadyIsLocal, PersistedIsLocal
  <2>4. InstallsLocal' /\ PersistsStored'
    BY <2>1 DEF InstallsLocal, PersistsStored, Installs
  <2> QED
    BY <2>3, <2>4 DEF LocalInv
<1> QED
  BY <1>3, <1>4, <1>5, <1>6, <1>7

LEMMA LocalInduction == Spec /\ DeletionsAdvance /\ NothingRestored => []LocalInv
<1>1. Init => LocalInv
  BY DEF Init, LocalInv, ReadyIsLocal, PersistedIsLocal, InstallsLocal, PersistsStored,
         Installs, Idle
<1>2. ASSUME TypeInv, TypeInv', AuthorityInv, SessionsInv, VersionsInv, RecordsInv, LocalInv,
             [Next]_vars, [RestoreSnapshot => snapshot' = snapshot]_vars
      PROVE  LocalInv'
  <2>1. CASE UNCHANGED vars
    BY <1>2, <2>1, OutsideKeepsLocal DEF vars, LocalStep
  <2>2. CASE Call /\ (RestoreSnapshot => snapshot' = snapshot)
    BY <1>2, <2>2, CallKeepsLocal
  <2>3. CASE \E c \in Pages : Unlock(c) \/ Arrive(c) \/ Mutate(c) \/ Close(c)
    BY <1>2, <2>3, UnlockKeepsLocal, OtherPageStepKeepsLocal
  <2>4. CASE \/ \E i \in Ids : Alarm(i)
             \/ \E c \in Contexts : OpenSession(c) \/ GetStatus(c) \/ Die(c)
             \/ BrowserRestart
    BY <1>2, <2>4, OtherStepKeepsLocal
  <2> QED
    BY <1>2, <2>1, <2>2, <2>3, <2>4 DEF Next
<1> QED
  BY <1>1, <1>2, TypeInduction, AuthorityInduction, SessionsInduction, VersionsInduction,
     RecordsInduction, PTL
  DEF Spec, NothingRestored

\* A session is only ever given the snapshot that is local when it is stored,
\* whatever fails and whoever dies, as long as no rollback restores a snapshot
\* and every deletion could write the epoch: an unlock, an arrival and a commit
\* alike install what nobody could replace since they read or wrote it.
THEOREM SessionsInstallTheLocalSnapshot ==
    Spec /\ DeletionsAdvance /\ NothingRestored => []SessionInstallsLocalSnapshot
<1>1. TypeInv /\ LocalInv => SessionInstallsLocalSnapshot
  <2>1. ASSUME TypeInv, At("save material") PROVE Installs
    BY <2>1, KindOfCall DEF At, Installs, Installing
  <2> QED
    BY <2>1 DEF LocalInv, InstallsLocal, SessionInstallsLocalSnapshot
<1> QED
  BY <1>1, TypeInduction, LocalInduction, PTL

\* Only a mutation of a synchronized vault rolls back.
LEMMA OnlySyncedRollBack ==
    ASSUME TypeInv, [Next]_vars, Synced = {}, op # None => op.kind # "rollback"
    PROVE  op' # None => op'.kind # "rollback"
<1> TypeOK
  BY DEF TypeInv
<1> Pages \subseteq Contexts
  BY DEF Contexts
<1>1. CASE Call
  BY <1>1, CallRecalls, KindCarries
<1>2. CASE op' = op \/ op' = None
  BY <1>2
<1>3. ASSUME NEW c \in Pages, BeginActivation(c) \/ BeginArrival(c)
      PROVE  op'.kind # "rollback"
  BY <1>3, ActivationType, ArrivalType DEF BeginActivation, BeginArrival, IsOperation
<1>4. ASSUME NEW c \in Pages, BeginPersist(c) \/ BeginCommit(c)
      PROVE  op' = None \/ op'.kind # "rollback"
  BY <1>4, PersistenceType, CommitmentType DEF BeginPersist, BeginCommit, IsOperation
<1>5. ASSUME NEW c \in Pages, BeginDiscard(c)
      PROVE  op' = op \/ op' = None \/ op'.kind # "rollback"
  BY <1>5, DiscardingType DEF BeginDiscard, IsOperation
<1>6. ASSUME NEW c \in Pages, BeginLock(c)
      PROVE  op'.kind # "rollback"
  <2>1. \E failing \in Steps \cup {None} :
           op' = CleanupOf("lock", c, "advance epoch", failing)
    BY <1>6 DEF BeginLock, Failing, Steps
  <2> QED
    BY <2>1, LockType DEF IsOperation
<1>7. ASSUME NEW c \in Pages, NEW v \in Vaults, BeginDelete(c, v)
      PROVE  op' = None \/ op'.kind # "rollback"
  BY <1>7, DeletionType DEF BeginDelete, IsOperation
<1>8. ASSUME NEW i \in Ids, BeginAlarmCleanup(i)
      PROVE  op' = op \/ op'.kind # "rollback"
  <2>1. PICK failing \in Steps \cup {None} :
          IF ~OwnsLock(i) THEN UNCHANGED op ELSE op' = AlarmCleanup(i, failing)
    BY <1>8 DEF BeginAlarmCleanup, Failing, Steps
  <2> QED
    BY <2>1, AlarmCleanupType DEF OwnsLock, IsOperation
<1>9. ASSUME NEW c \in Contexts, OpenSession(c)
       PROVE  op' = None \/ op'.kind # "rollback"
  <2>1. \/ op' = None
        \/ op' = Revocation(c, None)
        \/ op' = Revocation(c, Reconcile(c).material)
    BY <1>9 DEF OpenSession
  <2> QED
    BY <2>1, ReconcileType, RevocationType DEF IsOperation
<1>10. ASSUME NEW c \in Pages, BeginRollback(c)
       PROVE  FALSE
  BY <1>10 DEF BeginRollback
<1>11. \/ Call \/ op' = op \/ op' = None
       \/ \E c \in Pages : \/ BeginActivation(c) \/ BeginArrival(c) \/ BeginPersist(c)
                           \/ BeginCommit(c) \/ BeginDiscard(c) \/ BeginLock(c)
                           \/ \E v \in Vaults : BeginDelete(c, v)
                           \/ BeginRollback(c)
       \/ \E i \in Ids : BeginAlarmCleanup(i)
       \/ \E c \in Contexts : OpenSession(c)
  BY DEF Next, Alarm, Unlock, Arrive, Mutate, Close, Authorize, LoadVault, RejectActivation,
         Abandon, Prepare, FireAlarm, CheckOwnership, ArmRetry, SettleRetry, GetStatus, Die,
         BrowserRestart, Forget, vars
<1> QED
  BY <1>1, <1>2, <1>3, <1>4, <1>5, <1>6, <1>7, <1>8, <1>9, <1>10, <1>11

\* In particular where no vault is synchronized, so that none rolls back, and the
\* epoch can always be written.
COROLLARY UnsyncedSessionsInstallTheLocalSnapshot ==
    ASSUME Synced = {}, "epoch" \notin FaultySteps
    PROVE  Spec => []SessionInstallsLocalSnapshot
<1> DEFINE NoRollback == op # None => op.kind # "rollback"
<1>1. Init => NoRollback
  BY DEF Init
<1>2. TypeInv /\ NoRollback /\ [Next]_vars => NoRollback'
  BY OnlySyncedRollBack
<1>3. TypeInv /\ NoRollback => (RestoreSnapshot => FALSE)
  BY KindOfCall DEF RestoreSnapshot, At
<1>4. AdvanceEpoch => epoch' = epoch + 1
  <2>1. \A failing \in Failing({"epoch"}) : failing = None
    BY DEF Failing
  <2> QED
    BY <2>1 DEF AdvanceEpoch
<1>5. TypeInv /\ NoRollback /\ [Next]_vars
         => /\ [AdvanceEpoch /\ op.kind = "delete" => epoch' = epoch + 1]_vars
            /\ [RestoreSnapshot => snapshot' = snapshot]_vars
  BY <1>3, <1>4
<1> QED
  BY <1>1, <1>2, <1>5, TypeInduction, SessionsInstallTheLocalSnapshot, PTL
  DEF Spec, DeletionsAdvance, NothingRestored


-----------------------------------------------------------------------------
(***************************************************************************)
(* The automatic lock.  While at most one call fails and no context dies,  *)
(* an unlocked vault has a lock task with an alarm that is armed or being  *)
(* handled.  An activation saves the task and arms the alarm before the    *)
(* session; a handler leaves its alarm armed, or has found that the task   *)
(* names another action, or it may arm it again since the one call that    *)
(* fails has failed; a cleanup retires the task when the session is gone.  *)
(* The discard of an enrollment retires it before, so this part is about   *)
(* behaviours without enrollments: no vault that arrives is synchronized.  *)
(***************************************************************************)
OneFault == AtMostOneFault /\ deaths = 0

\* A handler that runs the cleanup of its lock action, or is about to.
Cleaning(i) == handler[i].pc \in {"lock", "locking", "cleaned", "failed"}

\* A session depends on the lock task, or one that is being saved.
Depends == \/ stored # None
           \/ op # None /\ op.kind = "activate" /\ op.pc \in {"save payload", "save material"}

HandlersInv ==
    \A i \in Ids :
       /\ i > nextId => i \notin alarms /\ handler[i].pc = "idle"
       /\ handler[i].pc = "cleaned" => ~OwnsLock(i)
       /\ Cleaning(i) /\ ~handler[i].armed => faults # 0
       /\ Cleaning(i) /\ handler[i].armed /\ OwnsLock(i) /\ Depends => i \in alarms

NoEnrollment ==
    /\ \A c \in Contexts : client[c].pc # "enrolled"
    /\ \A c \in Contexts : client[c].pc = "prepared" => client[c].vault \in Arriving
    /\ op # None => op.kind # "discard"
    /\ op # None /\ op.kind = "activate" /\ op.vault # None => op.vault \in Arriving

LockKept == stored # None => LockPending(stored.vault)

\* Before it saves its lock task, an activation keeps the one it found.
Fresh  == {"advance epoch", "save vault", "save task"}
Saves  == {"save payload", "save material"}
Undoes == {"remove payload", "cancel alarm", "remove task", "discard vault"}

ActivationLock ==
    /\ op.known = None => stored = None
    /\ op.pc \in Fresh => LockKept
    /\ op.pc \in Fresh \cup {"arm alarm"} =>
          op.action \notin alarms /\ handler[op.action].pc = "idle"
    /\ op.pc \in Saves \cup {"arm alarm"} => task.vault = op.target.vault
    /\ op.pc \in Saves => LockPending(op.target.vault)
    /\ op.pc \in Undoes => stored = None
    /\ handler[op.action].pc \in {"idle", "check", "arm", "lock"}

CleanupLock ==
    /\ LockKept
    /\ op.pc = "remove payload" /\ (op.removed \/ ~op.failed) => stored = None
    /\ op.pc \in Retiring => stored = None
    /\ op.pc = "cancel alarm" => ~OwnsLock(op.action)
    /\ op.kind = "alarm" => handler[op.action].pc = "locking"
    /\ op.kind = "alarm" /\ op.pc = "read tasks" => task # None /\ task.vault = op.vault

LockInv ==
    /\ HandlersInv
    /\ NoEnrollment
    /\ op # None /\ op.kind = "activate" => ActivationLock
    /\ op # None /\ op.kind \in Cleanups => CleanupLock
    /\ op = None \/ op.kind \in {"commit", "revoke", "persist", "rollback"} => LockKept

LEMMA LockTypes ==
    ASSUME TypeInv
    PROVE  /\ Ids \subseteq Nat /\ nextId \in Nat /\ alarms \subseteq Ids
           /\ handler \in [Ids -> Handlers]
           /\ \A i \in Ids : handler[i].armed \in BOOLEAN
           /\ task # None => task.id \in Ids /\ task.vault \in Vaults
           /\ op # None /\ op.kind \in {"activate", "alarm"} => op.action \in Ids
<1>1. Ids \subseteq Nat
  BY DEF Ids
<1>2. handler \in [Ids -> Handlers] /\ alarms \subseteq Ids
  BY DEF TypeInv, TypeOK
<1>3. \A i \in Ids : handler[i].armed \in BOOLEAN
  BY <1>2 DEF Handlers
<1>4. task # None => task.id \in Ids /\ task.vault \in Vaults
  BY DEF TypeInv, TypeOK, LockTask
<1>5. op # None /\ op.kind \in {"activate", "alarm"} => op.action \in Ids
  BY DEF TypeInv, WellFormed
<1> QED
  BY <1>1, <1>2, <1>3, <1>4, <1>5, SessionTypes

LEMMA HandlerSet ==
    ASSUME TypeInv, NEW i \in Ids, NEW pc, HandlerTo(i, pc)
    PROVE  /\ handler'[i].pc = pc /\ handler'[i].armed = handler[i].armed
           /\ \A j \in Ids \ {i} : handler'[j] = handler[j]
<1>1. handler \in [Ids -> Handlers] /\ handler[i] \in Handlers
  BY LockTypes
<1>2. handler' = [handler EXCEPT ![i] = [handler[i] EXCEPT !.pc = pc]]
  BY <1>1 DEF HandlerTo
<1>3. /\ [handler[i] EXCEPT !.pc = pc].pc = pc
      /\ [handler[i] EXCEPT !.pc = pc].armed = handler[i].armed
  BY <1>1 DEF Handlers
<1> QED
  BY <1>1, <1>2, <1>3

\* The runs of the handlers go on, or end with the cleanup.
LEMMA HandlersStay ==
    ASSUME TypeInv, HandlersInv, nextId' \in Nat, nextId' >= nextId,
           faults # 0 => faults' # 0, task' = task \/ task' = None,
           \A i \in alarms' : i \in alarms \/ i <= nextId,
           Depends' => Depends /\ alarms \subseteq alarms',
           \A i \in Ids :
              \/ handler'[i] = handler[i]
              \/ /\ Cleaning(i) /\ handler'[i].armed = handler[i].armed
                 /\ handler'[i].pc \in {"locking", "cleaned", "failed"}
                 /\ handler'[i].pc = "cleaned" => ~OwnsLock(i)'
    PROVE  HandlersInv'
<1>1. ASSUME NEW i \in Ids
      PROVE  /\ i > nextId' => i \notin alarms' /\ handler'[i].pc = "idle"
             /\ handler'[i].pc = "cleaned" => ~OwnsLock(i)'
             /\ Cleaning(i)' /\ ~handler'[i].armed => faults' # 0
             /\ Cleaning(i)' /\ handler'[i].armed /\ OwnsLock(i)' /\ Depends' => i \in alarms'
  <2>1. OwnsLock(i)' => OwnsLock(i)
    BY DEF OwnsLock
  <2>2. Cleaning(i)' => Cleaning(i) /\ handler'[i].armed = handler[i].armed
    BY DEF Cleaning
  <2>3. ASSUME i > nextId' PROVE i \notin alarms' /\ handler'[i].pc = "idle"
    <3>1. i > nextId /\ ~(i <= nextId)
      BY <2>3, LockTypes
    <3>2. i \notin alarms /\ handler[i].pc = "idle"
      BY <3>1 DEF HandlersInv
    <3>3. ~Cleaning(i)
      BY <3>2 DEF Cleaning
    <3> QED
      BY <3>1, <3>2, <3>3
  <2>4. handler'[i].pc = "cleaned" => ~OwnsLock(i)'
    BY <2>1 DEF HandlersInv
  <2> QED
    BY <2>1, <2>2, <2>3, <2>4 DEF HandlersInv
<1> QED
  BY <1>1 DEF HandlersInv, OwnsLock, Cleaning

\* What a call that goes on keeps.
LEMMA LockCarries ==
    ASSUME TypeInv, op # None, NEW next, Goto(next) \/ \E f : Proceed(next, f)
    PROVE  /\ op'.pc = next /\ op'.kind = op.kind /\ op'.target = op.target
           /\ op'.known = op.known /\ op'.action = op.action /\ op'.vault = op.vault
           /\ op'.removed = op.removed /\ handler' = handler
<1>1. op \in Operations
  BY KindOfCall
<1> QED
  BY <1>1 DEF Goto, Proceed, Operations

LEMMA LockGoesOn ==
    ASSUME TypeInv, op # None, NEW next \in Pcs,
           Goto(next) \/ \E f \in BOOLEAN : Proceed(next, f)
    PROVE  op' # None
BY OperationGoesOn

LEMMA CallSteps ==
    ASSUME TypeInv, Call, OneFault'
    PROVE  /\ nextId' = nextId /\ deaths' = deaths /\ OneFault
           /\ faults # 0 => faults' # 0
<1>1. nextId' = nextId /\ deaths' = deaths
  BY DEF Call, AdvanceEpoch, SaveTask, ArmAlarm, SavePayload, SaveMaterial, SaveSnapshot,
         RestoreSnapshot, ReadTasks, RemoveMaterial, RemovePayload, RemoveVault, RemoveTask,
         CancelAlarm, SaveVault, DiscardVault
<1>2. \E failing : Count(failing)
  BY DEF Call, AdvanceEpoch, SaveTask, ArmAlarm, SavePayload, SaveMaterial, SaveSnapshot,
         RestoreSnapshot, ReadTasks, RemoveMaterial, RemovePayload, RemoveVault, RemoveTask,
         CancelAlarm, SaveVault, DiscardVault
<1> QED
  BY <1>1, <1>2, FaultsCount DEF OneFault

\* The calls before an activation saves its lock task leave the one it found.
LEMMA FreshCallKeepsLock ==
    ASSUME TypeInv, EndsInv, LockInv, OneFault', AdvanceEpoch \/ SaveVault,
           op # None, op.kind = "activate"
    PROVE  LockInv'
<1> USE DEF At
<1>1. /\ ActivationLock /\ HandlersInv /\ NoEnrollment /\ Call
      /\ handler' = handler /\ alarms' = alarms /\ task' = task /\ stored' = stored
      /\ client' = client
  BY DEF LockInv, AdvanceEpoch, SaveVault, Finish, Goto, Proceed, Call, Cleanups
<1>2. LockKept' /\ LockKept
  <2>1. op.pc \in Fresh
    BY DEF AdvanceEpoch, SaveVault, Fresh
  <2>2. LockKept
    BY <1>1, <2>1 DEF ActivationLock
  <2> QED
    BY <1>1, <2>2 DEF LockKept, LockPending
<1>3. \/ op' = None
      \/ op' = Removal(op.ctx, op.known)
      \/ Goto("save task") \/ Goto("save vault")
  BY DEF AdvanceEpoch, SaveVault, Finish, Cleanups
<1>4. op' # None => op'.kind \in {op.kind, "revoke"}
  BY <1>1, CallRecalls, KindCarries
<1>5. ASSUME NEW next \in {"save task", "save vault"}, Goto(next)
      PROVE  ActivationLock' /\ op'.vault = op.vault /\ op'.pc = next
  <2>1. /\ op'.pc = next /\ op'.known = op.known /\ op'.action = op.action
        /\ op'.vault = op.vault
    BY <1>5, LockCarries
  <2>2. op.action \notin alarms /\ handler[op.action].pc = "idle"
    BY <1>1 DEF ActivationLock, AdvanceEpoch, SaveVault, Fresh
  <2> QED
    BY <1>1, <1>2, <1>5, <2>1, <2>2 DEF ActivationLock, Fresh, Saves, Undoes
<1>6. op' # None => op'.kind = "revoke" \/ (ActivationLock' /\ op'.vault = op.vault)
  <2>1. op' = Removal(op.ctx, op.known) => op'.kind = "revoke"
    BY KindOfCall, RemovalType DEF IsOperation
  <2> QED
    BY <1>3, <1>5, <2>1
<1>7. Depends' => Depends
  <2>1. ASSUME op' # None, op'.kind = "activate", op'.pc \in {"save payload", "save material"}
        PROVE  FALSE
    <3>1. Goto("save task") \/ Goto("save vault")
      BY <1>3, <2>1, KindOfCall, RemovalType DEF IsOperation
    <3> QED
      BY <1>5, <2>1, <3>1
  <2> QED
    BY <1>1, <2>1 DEF Depends
<1>8. HandlersInv'
  BY <1>1, <1>7, HandlersStay, CallSteps, LockTypes
<1>9. NoEnrollment'
  BY <1>1, <1>4, <1>6 DEF NoEnrollment
<1> QED
  BY <1>2, <1>4, <1>6, <1>8, <1>9 DEF LockInv, Cleanups

LEMMA SaveTaskKeepsLock ==
    ASSUME TypeInv, SessionsInv, EndsInv, LockInv, OneFault', SaveTask
    PROVE  LockInv'
<1> USE DEF At
<1>1. /\ op # None /\ op.kind = "activate" /\ Call
      /\ ActivationLock /\ HandlersInv /\ NoEnrollment /\ op.action \in Ids
      /\ handler' = handler /\ alarms' = alarms /\ stored' = stored /\ client' = client
  BY KindOfCall, LockTypes DEF SaveTask, LockInv, Goto, Call
<1>2. PICK failing \in Failing({"task"}) :
         /\ Count(failing)
         /\ task' = IF failing = None
                    THEN [id |-> op.action, vault |-> op.target.vault] ELSE task
         /\ Goto(IF failing = None THEN "arm alarm" ELSE AfterFailedInstall)
  BY DEF SaveTask
<1>3. op.action \notin alarms /\ handler[op.action].pc = "idle"
  BY <1>1 DEF SaveTask, ArmAlarm, ActivationLock, Fresh, Saves
<1>4. /\ op'.kind = op.kind /\ op'.target = op.target /\ op'.known = op.known
      /\ op'.action = op.action /\ op'.vault = op.vault
  BY <1>1, <1>2, LockCarries
<1>5. op'.pc = IF failing = None THEN "arm alarm" ELSE AfterFailedInstall
  BY <1>1, <1>2, LockCarries
<1>6. Depends' => Depends
  BY <1>1, <1>5 DEF Depends, AfterFailedInstall
<1>7. ActivationLock'
  <2>1. CASE failing = None
    <3>1. task' = [id |-> op.action, vault |-> op.target.vault] /\ op'.pc = "arm alarm"
      BY <1>2, <1>5, <2>1
    <3> QED
      BY <1>1, <1>3, <1>4, <3>1 DEF ActivationLock, Fresh, Saves, Undoes
  <2>2. CASE failing # None
    <3>1. op'.pc = AfterFailedInstall
      BY <1>5, <2>2
    <3>2. op'.pc \in {"remove material", "cancel alarm"} /\ (op'.pc = "cancel alarm" => stored = None)
      BY <1>1, <3>1 DEF AfterFailedInstall, ActivationLock
    <3> QED
      BY <1>1, <1>3, <1>4, <3>2 DEF ActivationLock, Fresh, Saves, Undoes
  <2> QED
    BY <2>1, <2>2
<1>8. HandlersInv'
  <2>1. CASE task' = task
    BY <1>1, <1>6, <2>1, HandlersStay, CallSteps, LockTypes
  <2>2. CASE task' = [id |-> op.action, vault |-> op.target.vault]
    <3>1. \A i \in Ids : OwnsLock(i)' => i = op.action
      BY <2>2 DEF OwnsLock
    <3>2. nextId' = nextId /\ (faults # 0 => faults' # 0)
      BY <1>1, CallSteps
    <3>3. \A i \in Ids : Cleaning(i)' => Cleaning(i) /\ i # op.action
      BY <1>1, <1>3 DEF Cleaning
    <3> QED
      BY <1>1, <1>3, <3>1, <3>2, <3>3 DEF HandlersInv
  <2> QED
    BY <1>2, <2>1, <2>2
<1>9. NoEnrollment'
  BY <1>1, <1>4 DEF NoEnrollment
<1>10. op' # None
  BY <1>1, <1>2, LockGoesOn DEF AfterFailedInstall, FirstSave, Pcs
<1> QED
  BY <1>1, <1>4, <1>7, <1>8, <1>9, <1>10 DEF LockInv, Cleanups

LEMMA ArmAlarmKeepsLock ==
    ASSUME TypeInv, SessionsInv, EndsInv, LockInv, OneFault', ArmAlarm
    PROVE  LockInv'
<1> USE DEF At
<1>1. /\ op # None /\ op.kind = "activate" /\ Call
      /\ ActivationLock /\ HandlersInv /\ NoEnrollment /\ op.action \in Ids
      /\ handler' = handler /\ task' = task /\ stored' = stored /\ client' = client
  BY KindOfCall, LockTypes DEF ArmAlarm, LockInv, Goto, Call
<1>2. PICK failing \in Failing({"alarm"}) :
         /\ Count(failing)
         /\ alarms' = IF failing = None THEN alarms \cup {op.action} ELSE alarms
         /\ Goto(IF failing = None THEN FirstSave ELSE AfterFailedInstall)
  BY DEF ArmAlarm
<1>3. /\ op.action \notin alarms /\ handler[op.action].pc = "idle"
      /\ task.vault = op.target.vault
  BY <1>1 DEF SaveTask, ArmAlarm, ActivationLock, Fresh, Saves
<1>4. /\ op'.kind = op.kind /\ op'.target = op.target /\ op'.known = op.known
      /\ op'.action = op.action /\ op'.vault = op.vault
  BY <1>1, <1>2, LockCarries
<1>5. op'.pc = IF failing = None THEN FirstSave ELSE AfterFailedInstall
  BY <1>1, <1>2, LockCarries
<1>6. task # None /\ task.id = op.action
  BY <1>1 DEF ArmAlarm, SessionsInv, Installing
<1>7. ActivationLock'
  <2>1. CASE failing = None
    <3>1. op'.pc = "save payload" /\ op.action \in alarms'
      BY <1>2, <1>5, <2>1 DEF FirstSave
    <3>2. LockPending(op.target.vault)'
      BY <1>1, <1>3, <1>6, <3>1, <1>4 DEF LockPending
    <3> QED
      BY <1>1, <1>3, <1>4, <3>1, <3>2 DEF ActivationLock, Fresh, Saves, Undoes
  <2>2. CASE failing # None
    <3>1. op'.pc = AfterFailedInstall
      BY <1>5, <2>2
    <3>2. op'.pc \in {"remove material", "cancel alarm"} /\ (op'.pc = "cancel alarm" => stored = None)
      BY <1>1, <3>1 DEF AfterFailedInstall, ActivationLock
    <3> QED
      BY <1>1, <1>3, <1>4, <3>2 DEF ActivationLock, Fresh, Saves, Undoes
  <2> QED
    BY <2>1, <2>2
<1>8. HandlersInv'
  <2>1. nextId' = nextId /\ (faults # 0 => faults' # 0)
    BY <1>1, CallSteps
  <2>2. \A i \in Ids : /\ OwnsLock(i)' => OwnsLock(i) /\ i = op.action
                       /\ Cleaning(i)' => Cleaning(i) /\ i # op.action
    BY <1>1, <1>3, <1>6 DEF OwnsLock, Cleaning
  <2>3. op.action <= nextId
    BY <1>1, LockTypes DEF SessionsInv
  <2>4. \A i \in Ids : i > nextId => i \notin alarms'
    BY <1>1, <1>2, <2>3, LockTypes DEF HandlersInv
  <2> QED
    BY <1>1, <2>1, <2>2, <2>4 DEF HandlersInv
<1>9. NoEnrollment'
  BY <1>1, <1>4 DEF NoEnrollment
<1>10. op' # None
  BY <1>1, <1>2, LockGoesOn DEF AfterFailedInstall, FirstSave, Pcs
<1> QED
  BY <1>1, <1>4, <1>7, <1>8, <1>9, <1>10 DEF LockInv, Cleanups

LEMMA SavePayloadKeepsLock ==
    ASSUME TypeInv, SessionsInv, EndsInv, LockInv, OneFault', SavePayload, op.kind = "activate"
    PROVE  LockInv'
<1> USE DEF At
<1>1. /\ op # None /\ Call /\ ActivationLock /\ HandlersInv /\ NoEnrollment
      /\ handler' = handler /\ alarms' = alarms /\ task' = task /\ stored' = stored
      /\ client' = client
  BY DEF SavePayload, LockInv, Goto, AfterFailedSave, Call
<1>2. Depends' => Depends
  BY <1>1 DEF SavePayload, Depends
<1>3. HandlersInv'
  BY <1>1, <1>2, HandlersStay, CallSteps, LockTypes
<1>4. PICK next \in {"save material", "remove material"} : Goto(next)
  BY DEF SavePayload, AfterFailedSave
<1>5. /\ op'.kind = op.kind /\ op'.target = op.target /\ op'.known = op.known
      /\ op'.action = op.action /\ op'.vault = op.vault
  BY <1>1, <1>4, LockCarries
<1>6. op'.pc = next /\ op' # None
  BY <1>1, <1>4, LockCarries, LockGoesOn DEF Pcs
<1>7. task.vault = op.target.vault /\ LockPending(op.target.vault)'
  BY <1>1, <1>5 DEF SavePayload, ActivationLock, Saves, LockPending
<1>8. ActivationLock'
  BY <1>1, <1>4, <1>5, <1>6, <1>7 DEF ActivationLock, Fresh, Saves, Undoes
<1>9. NoEnrollment'
  BY <1>1, <1>5 DEF NoEnrollment
<1> QED
  BY <1>3, <1>5, <1>6, <1>8, <1>9, Zenon DEF LockInv, Cleanups

\* The session of an activation is stored under its own lock task.
LEMMA SaveMaterialKeepsLock ==
    ASSUME TypeInv, SessionsInv, EndsInv, LockInv, OneFault', SaveMaterial, op.kind = "activate",
           Synced \cap Arriving = {}
    PROVE  LockInv'
<1> USE DEF At
<1>1. /\ op # None /\ Call /\ ActivationLock /\ HandlersInv /\ NoEnrollment
      /\ handler' = handler /\ alarms' = alarms /\ task' = task
  BY DEF SaveMaterial, LockInv, Goto, AfterFailedSave, Finish, Call
<1>2. task.vault = op.target.vault /\ LockPending(op.target.vault)
  BY <1>1 DEF SaveMaterial, ActivationLock, Saves
<1>3. ~Enrolling
  BY <1>1 DEF NoEnrollment, Enrolling
<1>4. client' = client
  BY <1>1, <1>3 DEF SaveMaterial, Activated
<1>5. Depends
  BY <1>1 DEF SaveMaterial, Depends
<1>6. HandlersInv'
  BY <1>1, <1>5, HandlersStay, CallSteps, LockTypes
<1>7. CASE op' = None /\ stored' = op.target
  <2>1. LockKept'
    BY <1>1, <1>2, <1>7 DEF LockKept, LockPending
  <2>2. NoEnrollment'
    BY <1>1, <1>4, <1>7 DEF NoEnrollment
  <2> QED
    BY <1>6, <1>7, <2>1, <2>2 DEF LockInv
<1>8. CASE Goto("remove material") /\ stored' = stored
  <2>1. /\ op'.kind = op.kind /\ op'.target = op.target /\ op'.known = op.known
        /\ op'.action = op.action /\ op'.vault = op.vault
    BY <1>1, <1>8, LockCarries
  <2>2. op'.pc = "remove material" /\ op' # None
    BY <1>1, <1>8, LockCarries, LockGoesOn DEF Pcs
  <2>3. ActivationLock'
    BY <1>1, <1>8, <2>1, <2>2 DEF ActivationLock, Fresh, Saves, Undoes
  <2>4. NoEnrollment'
    BY <1>1, <1>4, <2>1 DEF NoEnrollment
  <2> QED
    BY <1>6, <2>1, <2>2, <2>3, <2>4, Zenon DEF LockInv, Cleanups
<1>9. \/ op' = None /\ stored' = op.target
      \/ Goto("remove material") /\ stored' = stored
  BY DEF SaveMaterial, AfterFailedSave, Finish
<1> QED
  BY <1>7, <1>8, <1>9

\* The rollback of an activation removes the session before it retires the task:
\* a call has failed, so none of these does.
LEMMA RollbackKeepsLock ==
    ASSUME TypeInv, SessionsInv, EndsInv, LockInv, OneFault', op # None, op.kind = "activate",
           \/ RemoveMaterial \/ RemovePayload \/ RemoveTask \/ CancelAlarm \/ DiscardVault
    PROVE  LockInv'
<1> USE DEF At
<1>1. /\ Call /\ ActivationLock /\ HandlersInv /\ NoEnrollment /\ op \in Operations
      /\ client' = client /\ (task' = task \/ task' = None)
  BY KindOfCall DEF RemoveMaterial, RemovePayload, RemoveTask, CancelAlarm, DiscardVault, LockInv,
         Call
<1>2. handler' = handler
  BY DEF RemoveMaterial, RemovePayload, RemoveTask, CancelAlarm, DiscardVault, Finish, Goto,
         Proceed, GoesOn, Cleanups
<1>3. \A i \in alarms' : i \in alarms
  BY DEF RemoveMaterial, RemovePayload, RemoveTask, CancelAlarm, DiscardVault
<1>4. stored' = None
  <2>1. CASE RemoveMaterial
    <3>1. op.pc \in RollingBack
      BY <2>1 DEF RemoveMaterial, RollingBack
    <3>2. faults # 0 /\ AtMostOneFault'
      BY <3>1 DEF EndsInv, ActivationEnd, OneFault
    <3> QED
      BY <2>1, <3>2, FaultsCount DEF RemoveMaterial
  <2>2. CASE RemovePayload \/ RemoveTask \/ CancelAlarm \/ DiscardVault
    <3>1. op.pc \in Undoes
      BY <2>2 DEF RemovePayload, RemoveTask, CancelAlarm, DiscardVault, Undoes
    <3> QED
      BY <1>1, <2>2, <3>1 DEF ActivationLock, RemovePayload, RemoveTask, CancelAlarm, DiscardVault
  <2> QED
    BY <2>1, <2>2
<1>5. \/ op' = None
      \/ /\ op'.kind = op.kind /\ op'.known = op.known /\ op'.action = op.action
         /\ op'.vault = op.vault /\ op'.pc \in Undoes /\ op' # None
  <2>1. CASE RemoveMaterial
    <3>1. PICK failing : MaterialRemoved(failing)
      BY <2>1 DEF RemoveMaterial
    <3>2. op' # None
      BY <3>1, OperationGoesOn
    <3>3. /\ op'.kind = op.kind /\ op'.known = op.known /\ op'.action = op.action
          /\ op'.vault = op.vault /\ op'.pc = "remove payload"
      BY <1>1, <3>1 DEF MaterialRemoved, Operations
    <3> QED
      BY <3>2, <3>3 DEF Undoes
  <2>2. CASE op' = None \/ \E next \in Undoes : Goto(next)
    <3>1. \A next \in Undoes : next \in Pcs
      BY DEF Undoes, Pcs
    <3> QED
      BY <2>2, <3>1, LockCarries, LockGoesOn
  <2>3. RemovePayload \/ RemoveTask \/ CancelAlarm \/ DiscardVault
           => op' = None \/ \E next \in Undoes : Goto(next)
    BY DEF RemovePayload, RemoveTask, CancelAlarm, DiscardVault, Finish, Undoes, Cleanups
  <2> QED
    BY <2>1, <2>2, <2>3
<1>6. ~Depends'
  BY <1>4, <1>5 DEF Depends, Undoes
<1>7. HandlersInv'
  BY <1>1, <1>2, <1>3, <1>6, HandlersStay, CallSteps, LockTypes
<1>8. CASE op' = None
  BY <1>1, <1>4, <1>7, <1>8 DEF LockInv, NoEnrollment, LockKept
<1>9. CASE op' # None
  <2>1. ActivationLock'
    BY <1>1, <1>2, <1>4, <1>5, <1>9 DEF ActivationLock, Fresh, Saves, Undoes
  <2>2. NoEnrollment'
    BY <1>1, <1>5, <1>9 DEF NoEnrollment
  <2> QED
    BY <1>5, <1>7, <1>9, <2>1, <2>2, Zenon DEF LockInv, Cleanups
<1> QED
  BY <1>8, <1>9

LEMMA ActivationCallKeepsLock ==
    ASSUME TypeInv, SessionsInv, EndsInv, LockInv, OneFault', Call, op # None,
           op.kind = "activate", Synced \cap Arriving = {}
    PROVE  LockInv'
<1>1. ~SaveSnapshot /\ ~RestoreSnapshot /\ ~ReadTasks /\ ~RemoveVault
  BY KindOfCall DEF SaveSnapshot, RestoreSnapshot, ReadTasks, RemoveVault, At, Cleanups
<1> QED
  BY <1>1, FreshCallKeepsLock, SaveTaskKeepsLock, ArmAlarmKeepsLock, SavePayloadKeepsLock,
     SaveMaterialKeepsLock, RollbackKeepsLock DEF Call

\* A commit, a revocation and a mutation touch no lock task, and store no session
\* of another vault.
LEMMA OtherCallKeepsLock ==
    ASSUME TypeInv, SessionsInv, EndsInv, LockInv, OneFault', Call, op # None,
           op.kind \in {"commit", "revoke", "persist", "rollback"}
    PROVE  LockInv'
<1> USE DEF At
<1>1. /\ HandlersInv /\ NoEnrollment /\ LockKept
  BY DEF LockInv
<1>2. \/ AdvanceEpoch \/ SavePayload \/ SaveMaterial \/ SaveSnapshot \/ RestoreSnapshot
      \/ RemoveMaterial \/ RemovePayload
  BY KindOfCall DEF Call, SaveTask, ArmAlarm, ReadTasks, RemoveVault, RemoveTask, CancelAlarm,
         SaveVault, DiscardVault, Cleanups
<1>3. handler' = handler /\ alarms' = alarms /\ task' = task
  BY <1>2 DEF AdvanceEpoch, SavePayload, SaveMaterial, SaveSnapshot, RestoreSnapshot,
         RemoveMaterial, RemovePayload, Finish, Goto, Proceed, AfterFailedSave, Cleanups
<1>4. op' # None => op'.kind \in {"commit", "revoke", "persist", "rollback"}
  BY CallRecalls, KindCarries
<1>5. stored' # None => stored # None /\ stored'.vault = stored.vault
  <2>1. CASE SaveMaterial
    <3>1. op.kind = "commit" /\ op.pc \in Installing
      BY <2>1, KindOfCall DEF SaveMaterial, Installing
    <3>2. stored # None /\ stored.vault = op.target.vault
      BY <3>1 DEF SessionsInv
    <3>3. stored' = stored \/ stored' = op.target
      BY <2>1 DEF SaveMaterial
    <3> QED
      BY <3>2, <3>3
  <2>2. CASE ~SaveMaterial
    <3>1. stored' = stored \/ stored' = None
      BY <1>2, <2>2 DEF AdvanceEpoch, SavePayload, SaveSnapshot, RestoreSnapshot,
         RemoveMaterial, RemovePayload
    <3> QED
      BY <3>1
  <2> QED
    BY <2>1, <2>2
<1>6. LockKept'
  BY <1>1, <1>3, <1>5 DEF LockKept, LockPending
<1>7. Depends' => Depends
  BY <1>4, <1>5 DEF Depends
<1>8. HandlersInv'
  BY <1>1, <1>3, <1>7, HandlersStay, CallSteps, LockTypes
<1>9. NoEnrollment'
  <2>1. \/ client' = client
        \/ client' = [client EXCEPT ![op.ctx] =
              [pc |-> "persisted", session |-> op.target, ver |-> nextVersion + 1]]
    <3>1. SaveMaterial => op.kind = "commit"
      BY KindOfCall DEF SaveMaterial
    <3> QED
      BY <1>2, <3>1 DEF AdvanceEpoch, SavePayload, SaveMaterial, SaveSnapshot, RestoreSnapshot,
         RemoveMaterial, RemovePayload
  <2>2. client \in [Contexts -> Clients]
    BY DEF TypeInv, TypeOK
  <2>3. \A c \in Contexts : client'[c] = client[c] \/ client'[c].pc = "persisted"
    BY <2>1, <2>2
  <2> QED
    BY <1>1, <1>4, <2>3 DEF NoEnrollment
<1> QED
  BY <1>4, <1>6, <1>8, <1>9 DEF LockInv, Cleanups

\* The cleanup of an alarm ends: its handler learns how.
LEMMA CleanupEnds ==
    ASSUME TypeInv, EndsInv, LockInv, OneFault', Call, op # None, op.kind \in Cleanups,
           NEW f \in BOOLEAN, Finish(f), client' = client,
           task' = task \/ task' = None, \A i \in alarms' : i \in alarms,
           stored' = None \/ (stored' = stored /\ task' = task /\ alarms' = alarms),
           \A i \in Ids : op.kind = "alarm" /\ i = op.action /\ ~f => ~OwnsLock(i)'
    PROVE  LockInv'
<1>1. HandlersInv /\ NoEnrollment /\ CleanupLock /\ op' = None
  BY DEF LockInv, Finish
<1>2. \/ handler' = handler
      \/ /\ op.kind = "alarm" /\ op.action \in Ids
         /\ HandlerTo(op.action, IF f THEN "failed" ELSE "cleaned")
  BY LockTypes DEF Finish
<1>3. \A i \in Ids :
         \/ handler'[i] = handler[i]
         \/ /\ Cleaning(i) /\ handler'[i].armed = handler[i].armed
            /\ handler'[i].pc \in {"locking", "cleaned", "failed"}
            /\ handler'[i].pc = "cleaned" => ~OwnsLock(i)'
  <2>1. CASE handler' = handler
    BY <2>1
  <2>2. CASE /\ op.kind = "alarm" /\ op.action \in Ids
             /\ HandlerTo(op.action, IF f THEN "failed" ELSE "cleaned")
    <3>1. /\ handler'[op.action].pc = IF f THEN "failed" ELSE "cleaned"
          /\ handler'[op.action].armed = handler[op.action].armed
          /\ \A j \in Ids \ {op.action} : handler'[j] = handler[j]
      BY <2>2, HandlerSet
    <3>2. Cleaning(op.action)
      BY <1>1, <2>2 DEF CleanupLock, Cleaning
    <3>3. ASSUME NEW i \in Ids, i = op.action
          PROVE  /\ Cleaning(i) /\ handler'[i].armed = handler[i].armed
                 /\ handler'[i].pc \in {"locking", "cleaned", "failed"}
                 /\ handler'[i].pc = "cleaned" => ~OwnsLock(i)'
      <4>1. CASE f
        BY <3>1, <3>2, <3>3, <4>1
      <4>2. CASE ~f
        BY <2>2, <3>1, <3>2, <3>3, <4>2
      <4> QED
        BY <4>1, <4>2
    <3> QED
      BY <3>1, <3>3
  <2> QED
    BY <1>2, <2>1, <2>2
<1>4. Depends' => Depends /\ alarms \subseteq alarms'
  BY <1>1 DEF Depends
<1>5. HandlersInv'
  BY <1>1, <1>3, <1>4, HandlersStay, CallSteps, LockTypes
<1>6. LockKept'
  <2>1. \A i \in Ids : handler'[i].pc = "idle" => handler[i].pc = "idle"
    BY <1>3
  <2>2. CASE stored' = None
    BY <2>2 DEF LockKept
  <2>3. CASE stored' # None
    <3>1. stored' = stored /\ task' = task /\ alarms' = alarms
      BY <2>3
    <3>2. LockPending(stored.vault)
      BY <1>1, <2>3, <3>1 DEF CleanupLock, LockKept
    <3>3. task # None => task.id \in Ids
      BY LockTypes
    <3>4. LockPending(stored.vault)'
      BY <2>1, <3>1, <3>2, <3>3 DEF LockPending
    <3> QED
      BY <3>4 DEF LockKept
  <2> QED
    BY <2>2, <2>3
<1>7. NoEnrollment'
  BY <1>1 DEF NoEnrollment
<1> QED
  BY <1>1, <1>5, <1>6, <1>7 DEF LockInv

\* It goes on.
LEMMA CleanupGoesOn ==
    ASSUME TypeInv, EndsInv, LockInv, OneFault', Call, op # None, op.kind \in Cleanups,
           op' # None, op'.kind = op.kind, handler' = handler, client' = client,
           alarms' = alarms, task' = task \/ task' = None,
           stored' = None \/ (stored' = stored /\ task' = task),
           CleanupLock'
    PROVE  LockInv'
<1>1. HandlersInv /\ NoEnrollment
  BY DEF LockInv
<1>2. op.kind # "activate"
  BY DEF Cleanups
<1>3. Depends' => Depends
  BY <1>2 DEF Depends
<1>4. HandlersInv'
  BY <1>1, <1>3, HandlersStay, CallSteps, LockTypes
<1>5. NoEnrollment'
  BY <1>1, <1>2 DEF NoEnrollment
<1> QED
  BY <1>2, <1>4, <1>5 DEF LockInv, Cleanups

\* Its calls, one by one.
LEMMA CleanupAdvanceKeepsLock ==
    ASSUME TypeInv, EndsInv, LockInv, OneFault', AdvanceEpoch, op.kind \in Cleanups
    PROVE  LockInv'
<1> USE DEF At
<1>1. /\ op # None /\ Call /\ CleanupLock
      /\ handler' = handler /\ alarms' = alarms /\ task' = task /\ stored' = stored
      /\ client' = client
  BY DEF AdvanceEpoch, LockInv, Proceed, Call, Cleanups
<1>2. PICK next \in {"read tasks", "remove material"} : \E f \in BOOLEAN :
         Proceed(next, f) /\ (op.kind = "alarm" => next = "remove material")
  <2>1. PICK failing : Proceed(IF op.kind \in {"lock", "delete"}
                               THEN "read tasks" ELSE "remove material",
                               op.failed \/ failing # None)
    BY DEF AdvanceEpoch, Cleanups
  <2> QED
    BY <2>1
<1>3. /\ op'.pc = next /\ op'.kind = op.kind /\ op'.action = op.action
      /\ op'.vault = op.vault
  BY <1>1, <1>2, LockCarries
<1>4. op' # None
  BY <1>1, <1>2, LockGoesOn DEF Pcs
<1>5. LockKept'
  BY <1>1 DEF CleanupLock, LockKept, LockPending
<1>6. CleanupLock'
  BY <1>1, <1>2, <1>3, <1>5 DEF CleanupLock, Retiring
<1> QED
  BY <1>1, <1>3, <1>4, <1>6, CleanupGoesOn

\* An alarm that finds the session of another vault could not read the session:
\* the one that is stored is that of the lock task.
LEMMA CleanupLookKeepsLock ==
    ASSUME TypeInv, EndsInv, LockInv, OneFault', ReadTasks, op.kind \in Cleanups
    PROVE  LockInv'
<1> USE DEF At
<1>1. /\ op # None /\ Call /\ CleanupLock /\ op \in Operations
      /\ alarms' = alarms /\ task' = task /\ stored' = stored /\ client' = client
  BY KindOfCall DEF ReadTasks, LockInv, Call, Cleanups, shared
<1>2. PICK failing : IF AlarmIsStale THEN Finish(op.failed)
                     ELSE Looked(failing) /\ UNCHANGED handler
  BY DEF ReadTasks
<1>3. CASE AlarmIsStale
  <2>1. op.failed
    <3>1. op.kind = "alarm" => task.vault = op.vault
      BY <1>1 DEF ReadTasks, CleanupLock
    <3>2. stored # None => task.vault = stored.vault
      BY <1>1 DEF CleanupLock, LockKept, LockPending
    <3> QED
      BY <1>3, <3>1, <3>2 DEF AlarmIsStale, Active
  <2>2. Finish(op.failed) /\ op.failed \in BOOLEAN
    BY <1>2, <1>3, <1>1, KindOfCall
  <2> QED
    BY <1>1, <2>1, <2>2, CleanupEnds
<1>4. CASE ~AlarmIsStale
  <2>1. Looked(failing) /\ handler' = handler
    BY <1>2, <1>4
  <2>2. /\ op'.pc = AfterTasks /\ op'.kind = op.kind
        /\ op.kind = "alarm" => op'.action = op.action
    BY <1>1, <2>1 DEF Looked, Operations
  <2>3. op'.pc \in {"advance epoch", "remove material"}
    BY <2>2 DEF AfterTasks, Cleanups
  <2>4. op' # None
    BY <1>1, <2>1, OperationGoesOn
  <2>5. LockKept'
    BY <1>1, <2>1 DEF CleanupLock, LockKept, LockPending
  <2>6. CleanupLock'
    BY <1>1, <2>1, <2>2, <2>3, <2>5 DEF CleanupLock, Retiring
  <2> QED
    BY <1>1, <2>1, <2>2, <2>4, <2>6, CleanupGoesOn
<1> QED
  BY <1>3, <1>4

LEMMA CleanupRemovalKeepsLock ==
    ASSUME TypeInv, EndsInv, LockInv, OneFault', RemoveMaterial, op.kind \in Cleanups
    PROVE  LockInv'
<1> USE DEF At
<1>1. /\ op # None /\ Call /\ CleanupLock /\ op \in Operations
      /\ handler' = handler /\ alarms' = alarms /\ task' = task /\ client' = client
      /\ stored' \in {stored, None}
  BY KindOfCall DEF RemoveMaterial, LockInv, Call, Cleanups
<1>2. PICK failing : /\ MaterialRemoved(failing)
                     /\ stored' = IF failing = None THEN None ELSE stored
  BY DEF RemoveMaterial
<1>3. /\ op'.pc = "remove payload" /\ op'.kind = op.kind /\ op'.action = op.action
      /\ op'.removed = (failing = None) /\ op'.failed = (op.failed \/ failing # None)
  <2> DEFINE r == failing = None
             f == op.failed \/ failing # None
  <2>1. op' = [op EXCEPT !.pc = "remove payload", !.removed = r, !.failed = f]
    BY <1>2 DEF MaterialRemoved
  <2>2. r \in BOOLEAN /\ f \in BOOLEAN
    OBVIOUS
  <2> HIDE DEF r, f
  <2>3. /\ op'.pc = "remove payload" /\ op'.kind = op.kind /\ op'.action = op.action
        /\ op'.removed = r /\ op'.failed = f
    BY <1>1, <2>1, <2>2 DEF Operations
  <2> USE DEF r, f
  <2> QED
    BY <2>3
<1>4. op' # None
  BY <1>1, <1>2, OperationGoesOn
<1>5. op'.removed \/ ~op'.failed => stored' = None
  BY <1>2, <1>3
<1>6. LockKept'
  <2>1. CASE stored' = None
    BY <2>1 DEF LockKept
  <2>2. CASE stored' = stored
    BY <1>1, <2>2 DEF CleanupLock, LockKept, LockPending
  <2> QED
    BY <1>1, <2>1, <2>2
<1>7. CleanupLock'
  BY <1>1, <1>3, <1>5, <1>6 DEF CleanupLock, Retiring
<1> QED
  BY <1>1, <1>3, <1>4, <1>7, CleanupGoesOn

\* When the session is gone, the cleanup goes on to retire the lock task.
LEMMA CleanupPayloadKeepsLock ==
    ASSUME TypeInv, EndsInv, LockInv, OneFault', RemovePayload, op.kind \in Cleanups
    PROVE  LockInv'
<1> USE DEF At
<1>1. /\ op # None /\ Call /\ CleanupLock
      /\ alarms' = alarms /\ task' = task /\ client' = client /\ stored' = stored
  BY DEF RemovePayload, LockInv, Call, Cleanups
<1>2. PICK failing :
         IF (op.removed /\ failing = None /\ op.had) \/ ~(op.failed \/ failing # None)
         THEN \E next \in {"remove vault", "remove task"} :
                 Proceed(next, op.failed \/ failing # None)
         ELSE Finish(TRUE)
  BY DEF RemovePayload, Cleanups
<1>3. CASE Finish(TRUE)
  BY <1>1, <1>3, CleanupEnds
<1>4. CASE /\ (op.removed /\ failing = None /\ op.had) \/ ~(op.failed \/ failing # None)
           /\ \E next \in {"remove vault", "remove task"} :
                 Proceed(next, op.failed \/ failing # None)
  <2>1. stored = None
    BY <1>1, <1>4 DEF RemovePayload, CleanupLock
  <2>2. PICK next \in {"remove vault", "remove task"} : \E f \in BOOLEAN : Proceed(next, f)
    BY <1>4
  <2>3. /\ op'.pc = next /\ op'.kind = op.kind /\ op'.action = op.action /\ handler' = handler
    BY <1>1, <2>2, LockCarries
  <2>4. op' # None
    BY <1>1, <2>2, LockGoesOn DEF Pcs
  <2>5. CleanupLock'
    BY <1>1, <2>1, <2>2, <2>3 DEF CleanupLock, LockKept, Retiring
  <2> QED
    BY <1>1, <2>3, <2>4, <2>5, CleanupGoesOn
<1> QED
  BY <1>2, <1>3, <1>4

LEMMA CleanupRetiresAfterSession ==
    ASSUME TypeInv, EndsInv, LockInv, OneFault', RemoveVault \/ RemoveTask \/ CancelAlarm,
           op.kind \in Cleanups
    PROVE  LockInv'
<1> USE DEF At
<1>1. /\ op # None /\ Call /\ CleanupLock /\ client' = client /\ stored' = stored
      /\ op.pc \in Retiring
  BY DEF RemoveVault, RemoveTask, CancelAlarm, LockInv, Call, Cleanups, Retiring
<1>2. stored = None
  BY <1>1 DEF CleanupLock
<1>3. CASE RemoveVault
  <2>1. PICK failing : Proceed("remove task", op.failed \/ failing # None)
    BY <1>3 DEF RemoveVault
  <2>2. \E f \in BOOLEAN : Proceed("remove task", f)
    BY <2>1
  <2>3. /\ op'.pc = "remove task" /\ op'.kind = op.kind /\ op'.action = op.action
        /\ handler' = handler /\ alarms' = alarms /\ task' = task
    BY <1>1, <1>3, <2>2, LockCarries DEF RemoveVault
  <2>4. op' # None
    BY <1>1, <2>2, LockGoesOn DEF Pcs
  <2>5. CleanupLock'
    BY <1>1, <1>2, <2>3 DEF CleanupLock, LockKept, Retiring
  <2> QED
    BY <1>1, <2>3, <2>4, <2>5, CleanupGoesOn
<1>4. CASE RemoveTask
  <2>1. PICK failing :
           /\ task' = IF RetiresTask /\ failing = None /\ task # None /\ task.id = op.action
                      THEN None ELSE task
           /\ IF ~RetiresTask \/ failing # None
              THEN Finish(op.failed \/ op.taskFailed \/ failing # None)
              ELSE Goto("cancel alarm")
    BY <1>4 DEF RemoveTask, Cleanups
  <2>2. alarms' = alarms /\ (task' = task \/ task' = None)
    BY <1>4 DEF RemoveTask
  <2>3. op.kind = "alarm" => RetiresTask
    BY <1>1, LockTypes, EndTypes DEF RetiresTask
  <2>4. CASE ~RetiresTask \/ failing # None
    <3> DEFINE f == op.failed \/ op.taskFailed \/ failing # None
    <3>1. Finish(f) /\ f \in BOOLEAN /\ (op.kind = "alarm" => f)
      BY <2>1, <2>3, <2>4
    <3> HIDE DEF f
    <3> QED
      BY <1>1, <1>2, <2>2, <3>1, CleanupEnds
  <2>5. CASE RetiresTask /\ failing = None
    <3>1. Goto("cancel alarm")
      BY <2>1, <2>5
    <3>2. /\ op'.pc = "cancel alarm" /\ op'.kind = op.kind /\ op'.action = op.action
          /\ handler' = handler
      BY <1>1, <3>1, LockCarries
    <3>3. op' # None
      BY <1>1, <3>1, LockGoesOn DEF Pcs
    <3>4. task' # None => task'.id # op'.action
      BY <2>1, <2>5, <3>2
    <3>5. CleanupLock'
      BY <1>1, <1>2, <3>2, <3>4 DEF CleanupLock, LockKept, OwnsLock
    <3> QED
      BY <1>1, <1>2, <2>2, <3>2, <3>3, <3>5, CleanupGoesOn
  <2> QED
    BY <2>4, <2>5
<1>5. CASE CancelAlarm
  <2>1. PICK failing : Finish(op.failed \/ op.taskFailed \/ failing # None)
    BY <1>5 DEF CancelAlarm, Cleanups
  <2>2. task' = task /\ \A i \in alarms' : i \in alarms
    BY <1>5 DEF CancelAlarm
  <2>3. ~OwnsLock(op.action)
    BY <1>1, <1>5 DEF CancelAlarm, CleanupLock
  <2>4. \A i \in Ids : op.kind = "alarm" /\ i = op.action => ~OwnsLock(i)'
    BY <2>2, <2>3 DEF OwnsLock
  <2> DEFINE f == op.failed \/ op.taskFailed \/ failing # None
  <2>5. Finish(f) /\ f \in BOOLEAN
    BY <2>1
  <2> HIDE DEF f
  <2> QED
    BY <1>1, <1>2, <2>2, <2>4, <2>5, CleanupEnds
<1> QED
  BY <1>3, <1>4, <1>5

LEMMA CallKeepsLock ==
    ASSUME TypeInv, SessionsInv, EndsInv, LockInv, OneFault', Call, Synced \cap Arriving = {}
    PROVE  LockInv'
<1> USE DEF At
<1>1. op # None
  BY CallRecalls
<1>2. op.kind # "discard"
  BY <1>1 DEF LockInv, NoEnrollment
<1>3. CASE op.kind = "activate"
  BY <1>1, <1>3, ActivationCallKeepsLock
<1>4. CASE op.kind \in {"commit", "revoke", "persist", "rollback"}
  BY <1>1, <1>4, OtherCallKeepsLock
<1>5. CASE op.kind \in Cleanups
  <2>1. \/ AdvanceEpoch \/ ReadTasks \/ RemoveMaterial \/ RemovePayload \/ RemoveVault
        \/ RemoveTask \/ CancelAlarm
    BY <1>1, <1>5, KindOfCall DEF Call, SaveTask, ArmAlarm, SavePayload, SaveMaterial, SaveSnapshot,
           RestoreSnapshot, SaveVault, DiscardVault, Cleanups
  <2> QED
    BY <1>5, <2>1, CleanupAdvanceKeepsLock, CleanupLookKeepsLock, CleanupRemovalKeepsLock,
       CleanupPayloadKeepsLock, CleanupRetiresAfterSession
<1> QED
  BY <1>1, <1>2, <1>3, <1>4, <1>5, KindOfCall DEF Kinds

\* A step of the handler for one lock action, outside its cleanup.
LEMMA HandlerStepKeepsLock ==
    ASSUME TypeInv, LockInv, NEW i \in Ids,
           op' = op, stored' = stored, task' = task, client' = client, nextId' = nextId,
           faults # 0 => faults' # 0,
           i \in alarms \/ handler[i].pc # "idle",
           handler[i].pc # "locking", handler'[i].pc \in {"idle", "check", "arm", "lock"},
           \A j \in Ids \ {i} : handler'[j] = handler[j] /\ (j \in alarms' <=> j \in alarms),
           handler'[i].pc = "lock" =>
              /\ ~handler'[i].armed => faults' # 0
              /\ handler'[i].armed => i \in alarms',
           OwnsLock(i) /\ Depends => i \in alarms' \/ handler'[i].pc # "idle"
    PROVE  LockInv'
<1>1. HandlersInv /\ NoEnrollment
  BY DEF LockInv
<1>2. ~(i > nextId)
  BY <1>1 DEF HandlersInv
<1>3. HandlersInv'
  <2>1. /\ \A j \in Ids : OwnsLock(j)' <=> OwnsLock(j)
        /\ Depends' <=> Depends
    BY DEF OwnsLock, Depends
  <2>2. ASSUME NEW j \in Ids, j # i
        PROVE  /\ j > nextId' => j \notin alarms' /\ handler'[j].pc = "idle"
               /\ handler'[j].pc = "cleaned" => ~OwnsLock(j)'
               /\ Cleaning(j)' /\ ~handler'[j].armed => faults' # 0
               /\ Cleaning(j)' /\ handler'[j].armed /\ OwnsLock(j)' /\ Depends' => j \in alarms'
    BY <1>1, <2>1, <2>2 DEF HandlersInv, Cleaning
  <2>3. /\ i > nextId' => i \notin alarms' /\ handler'[i].pc = "idle"
        /\ handler'[i].pc = "cleaned" => ~OwnsLock(i)'
        /\ Cleaning(i)' /\ ~handler'[i].armed => faults' # 0
        /\ Cleaning(i)' /\ handler'[i].armed /\ OwnsLock(i)' /\ Depends' => i \in alarms'
    BY <1>2 DEF Cleaning
  <2> QED
    BY <2>2, <2>3 DEF HandlersInv
<1>4. ASSUME NEW v, LockPending(v), Depends
      PROVE  LockPending(v)'
  <2>1. task # None /\ task.vault = v /\ task.id \in Ids
    BY <1>4, LockTypes DEF LockPending
  <2>2. CASE task.id = i
    BY <1>4, <2>1, <2>2 DEF LockPending, OwnsLock
  <2>3. CASE task.id # i
    BY <1>4, <2>1, <2>3 DEF LockPending
  <2> QED
    BY <2>2, <2>3
<1>5. LockKept => LockKept'
  BY <1>4 DEF LockKept, Depends
<1>6. op # None /\ op.kind = "activate" => ActivationLock'
  <2> HAVE op # None /\ op.kind = "activate"
  <2>1. ActivationLock /\ op.action \in Ids
    BY LockTypes DEF LockInv
  <2>2. op.pc \in Saves => LockPending(op.target.vault)'
    <3> HAVE op.pc \in Saves
    <3>1. Depends /\ LockPending(op.target.vault)
      BY <2>1 DEF Depends, Saves, ActivationLock
    <3>2. PICK v : v = op.target.vault
      OBVIOUS
    <3>3. LockPending(v)'
      BY <1>4, <3>1, <3>2
    <3> QED
      BY <3>2, <3>3
  <2>3. op.pc \in Fresh \cup {"arm alarm"} =>
           op.action \notin alarms' /\ handler'[op.action].pc = "idle"
    <3> HAVE op.pc \in Fresh \cup {"arm alarm"}
    <3>1. op.action \notin alarms /\ handler[op.action].pc = "idle"
      BY <2>1 DEF ActivationLock
    <3>2. op.action # i
      BY <3>1
    <3> QED
      BY <2>1, <3>1, <3>2
  <2>4. handler'[op.action].pc \in {"idle", "check", "arm", "lock"}
    BY <2>1 DEF ActivationLock
  <2> QED
    BY <1>5, <2>1, <2>2, <2>3, <2>4 DEF ActivationLock
<1>7. op # None /\ op.kind \in Cleanups => CleanupLock'
  <2> HAVE op # None /\ op.kind \in Cleanups
  <2>1. CleanupLock /\ (op.kind = "alarm" => op.action \in Ids)
    BY LockTypes DEF LockInv
  <2>2. op.kind = "alarm" => handler'[op.action].pc = "locking"
    <3> HAVE op.kind = "alarm"
    <3>1. handler[op.action].pc = "locking"
      BY <2>1 DEF CleanupLock
    <3>2. op.action # i
      BY <3>1
    <3> QED
      BY <2>1, <3>1, <3>2
  <2>3. ~OwnsLock(op.action) => ~OwnsLock(op.action)'
    BY DEF OwnsLock
  <2> QED
    BY <1>5, <2>1, <2>2, <2>3 DEF CleanupLock
<1>8. NoEnrollment'
  BY <1>1 DEF NoEnrollment
<1> QED
  BY <1>3, <1>5, <1>6, <1>7, <1>8 DEF LockInv

LEMMA AlarmStepKeepsLock ==
    ASSUME TypeInv, LockInv, OneFault', NEW i \in Ids,
           FireAlarm(i) \/ CheckOwnership(i) \/ ArmRetry(i) \/ SettleRetry(i)
    PROVE  LockInv'
<1>1. HandlersInv /\ AtMostOneFault'
  BY DEF LockInv, OneFault
<1>2. /\ op' = op /\ stored' = stored /\ task' = task /\ client' = client /\ nextId' = nextId
  BY DEF FireAlarm, CheckOwnership, ArmRetry, SettleRetry
<1>3. /\ handler \in [Ids -> Handlers] /\ handler[i] \in Handlers
      /\ handler[i].armed \in BOOLEAN
  BY LockTypes
<1>4. CASE FireAlarm(i)
  <2>1. /\ i \in alarms /\ handler[i].pc = "idle" /\ alarms' = alarms \ {i} /\ faults' = faults
        /\ HandlerTo(i, "check")
    BY <1>4 DEF FireAlarm
  <2>2. /\ handler'[i].pc = "check" /\ \A j \in Ids \ {i} : handler'[j] = handler[j]
    BY <2>1, HandlerSet
  <2> QED
    BY <1>2, <2>1, <2>2, HandlerStepKeepsLock
<1>5. CASE CheckOwnership(i)
  <2>1. PICK failing :
           /\ Count(failing)
           /\ alarms' = IF failing # None THEN alarms \cup {i} ELSE alarms
           /\ IF failing # None \/ ~OwnsLock(i)
              THEN handler' = [handler EXCEPT ![i] = Resting]
              ELSE HandlerTo(i, "arm")
    BY <1>5 DEF CheckOwnership
  <2>2. faults # 0 => faults' # 0
    BY <2>1, FaultsCount
  <2>3. handler[i].pc = "check"
    BY <1>5 DEF CheckOwnership
  <2>4. CASE failing # None \/ ~OwnsLock(i)
    <3>1. handler'[i].pc = "idle" /\ \A j \in Ids \ {i} : handler'[j] = handler[j]
      BY <1>3, <2>1, <2>4 DEF Resting
    <3>2. OwnsLock(i) => i \in alarms'
      BY <2>1, <2>4
    <3>3. \A j \in Ids \ {i} : j \in alarms' <=> j \in alarms
      BY <2>1
    <3> QED
      BY <1>2, <2>2, <2>3, <3>1, <3>2, <3>3, HandlerStepKeepsLock
  <2>5. CASE ~(failing # None \/ ~OwnsLock(i))
    <3>1. HandlerTo(i, "arm") /\ alarms' = alarms
      BY <2>1, <2>5
    <3>2. handler'[i].pc = "arm" /\ \A j \in Ids \ {i} : handler'[j] = handler[j]
      BY <3>1, HandlerSet
    <3> QED
      BY <1>2, <2>2, <2>3, <3>1, <3>2, HandlerStepKeepsLock
  <2> QED
    BY <2>4, <2>5
<1>6. CASE ArmRetry(i)
  <2>1. PICK failing :
           /\ Count(failing)
           /\ alarms' = IF failing = None THEN alarms \cup {i} ELSE alarms
           /\ handler' = [handler EXCEPT ![i] = [pc |-> "lock", armed |-> failing = None]]
    BY <1>6 DEF ArmRetry
  <2>2. /\ faults # 0 => faults' # 0
        /\ failing # None => faults' # 0
    BY <2>1, FaultsCount
  <2>3. handler[i].pc = "arm"
    BY <1>6 DEF ArmRetry
  <2> DEFINE a == failing = None
  <2>4. handler' = [handler EXCEPT ![i] = [pc |-> "lock", armed |-> a]] /\ a \in BOOLEAN
    BY <2>1
  <2> HIDE DEF a
  <2>5. /\ handler'[i].pc = "lock" /\ handler'[i].armed = a
        /\ \A j \in Ids \ {i} : handler'[j] = handler[j]
    BY <1>3, <2>4
  <2> USE DEF a
  <2>6. /\ ~handler'[i].armed => faults' # 0
        /\ handler'[i].armed => i \in alarms'
        /\ \A j \in Ids \ {i} : j \in alarms' <=> j \in alarms
    BY <2>1, <2>2, <2>5
  <2> QED
    BY <1>2, <2>2, <2>3, <2>5, <2>6, HandlerStepKeepsLock
<1>7. CASE SettleRetry(i)
  <2>1. /\ handler[i].pc \in {"cleaned", "failed"}
        /\ handler' = [handler EXCEPT ![i] = Resting]
    BY <1>7 DEF SettleRetry
  <2>2. handler'[i].pc = "idle" /\ \A j \in Ids \ {i} : handler'[j] = handler[j]
    BY <1>3, <2>1 DEF Resting
  <2>3. \/ KeepsRetry(i) = handler[i].armed /\ alarms' = alarms /\ faults' = faults
        \/ /\ KeepsRetry(i) # handler[i].armed
           /\ \E failing :
                /\ Count(failing)
                /\ alarms' = IF failing # None THEN alarms
                             ELSE IF KeepsRetry(i) THEN alarms \cup {i} ELSE alarms \ {i}
    BY <1>7 DEF SettleRetry
  <2>4. faults # 0 => faults' # 0
    BY <2>3, FaultsCount
  <2>5. \A j \in Ids \ {i} : j \in alarms' <=> j \in alarms
    BY <2>3
  <2>6. ASSUME OwnsLock(i), Depends PROVE i \in alarms'
    <3>1. KeepsRetry(i) /\ Cleaning(i)
      BY <1>1, <2>1, <2>6 DEF HandlersInv, KeepsRetry, Cleaning
    <3>2. CASE handler[i].armed
      <4>1. i \in alarms
        BY <1>1, <2>6, <3>1, <3>2 DEF HandlersInv
      <4>2. KeepsRetry(i) = TRUE /\ handler[i].armed = TRUE
        BY <1>3, <3>1, <3>2 DEF KeepsRetry
      <4> QED
        BY <2>3, <4>1, <4>2
    <3>3. CASE ~handler[i].armed
      <4>1. faults # 0
        BY <1>1, <3>1, <3>3 DEF HandlersInv
      <4>2. KeepsRetry(i) # handler[i].armed
        BY <3>1, <3>3
      <4> QED
        BY <1>1, <2>3, <3>1, <4>1, <4>2, FaultsCount
    <3> QED
      BY <3>2, <3>3
  <2>7. handler[i].pc # "locking" /\ handler[i].pc # "idle"
    BY <2>1
  <2> QED
    BY <1>2, <2>2, <2>4, <2>5, <2>6, <2>7, HandlerStepKeepsLock
<1> QED
  BY <1>4, <1>5, <1>6, <1>7

LEMMA BeginAlarmCleanupKeepsLock ==
    ASSUME TypeInv, LockInv, OneFault', NEW i \in Ids, BeginAlarmCleanup(i)
    PROVE  LockInv'
<1>1. /\ op = None /\ handler[i].pc = "lock" /\ stored' = stored /\ task' = task
      /\ alarms' = alarms /\ client' = client /\ nextId' = nextId
  BY DEF BeginAlarmCleanup, shared
<1>2. HandlersInv /\ NoEnrollment /\ LockKept
  BY <1>1 DEF LockInv
<1>3. PICK failing \in Steps \cup {None} :
         /\ Count(failing)
         /\ \/ ~OwnsLock(i) /\ HandlerTo(i, "cleaned") /\ op' = op
            \/ OwnsLock(i) /\ HandlerTo(i, "locking") /\ op' = AlarmCleanup(i, failing)
  BY DEF BeginAlarmCleanup, Failing, Steps
<1>4. faults # 0 => faults' # 0
  BY <1>3, FaultsCount
<1>5. PICK pc \in {"locking", "cleaned"} : HandlerTo(i, pc) /\ (pc = "cleaned" => ~OwnsLock(i))
  BY <1>3
<1>6. /\ handler'[i].pc = pc /\ handler'[i].armed = handler[i].armed
      /\ \A j \in Ids \ {i} : handler'[j] = handler[j]
  BY <1>5, HandlerSet
<1>7. OwnsLock(i) => op' # None /\ op'.kind = "alarm" /\ op'.pc = "read tasks"
                     /\ op'.action = i /\ op'.vault = task.vault
  <2> HAVE OwnsLock(i)
  <2>1. task # None /\ op' = AlarmCleanup(i, failing)
    BY <1>3 DEF OwnsLock
  <2>2. WellFormed(op') /\ IsOperation(op', "alarm", Background, "read tasks")
        /\ op'.action = i /\ op'.vault = task.vault
    BY <2>1, AlarmCleanupType DEF TypeInv
  <2> QED
    BY <2>2, OperationsAssumption DEF IsOperation
<1>8. Depends' => Depends
  <2>1. ~OwnsLock(i) => op' = None
    BY <1>1, <1>3
  <2> QED
    BY <1>1, <1>7, <2>1 DEF Depends
<1>9. HandlersInv'
  <2>1. \A j \in Ids :
           \/ handler'[j] = handler[j]
           \/ /\ Cleaning(j) /\ handler'[j].armed = handler[j].armed
              /\ handler'[j].pc \in {"locking", "cleaned", "failed"}
              /\ handler'[j].pc = "cleaned" => ~OwnsLock(j)'
    BY <1>1, <1>5, <1>6 DEF Cleaning, OwnsLock
  <2> QED
    BY <1>1, <1>2, <1>4, <1>8, <2>1, HandlersStay, LockTypes
<1>10. LockKept'
  <2>1. task # None => task.id \in Ids
    BY LockTypes
  <2>2. \A j \in Ids : handler'[j].pc = "idle" => handler[j].pc = "idle"
    BY <1>5, <1>6
  <2> QED
    BY <1>1, <1>2, <2>1, <2>2 DEF LockKept, LockPending
<1>11. CASE OwnsLock(i)
  <2>1. pc = "locking"
    BY <1>3, <1>5, <1>6, <1>11, HandlerSet
  <2>2. task' # None
    BY <1>1, <1>11 DEF OwnsLock
  <2>3. CleanupLock'
    BY <1>1, <1>6, <1>7, <1>10, <1>11, <2>1, <2>2 DEF CleanupLock, Retiring
  <2>4. NoEnrollment'
    BY <1>1, <1>2, <1>7, <1>11 DEF NoEnrollment
  <2> QED
    BY <1>7, <1>9, <1>11, <2>3, <2>4 DEF LockInv, Cleanups
<1>12. CASE ~OwnsLock(i)
  <2>1. op' = None
    BY <1>1, <1>3, <1>12
  <2>2. NoEnrollment'
    BY <1>1, <1>2, <2>1 DEF NoEnrollment
  <2> QED
    BY <1>9, <1>10, <2>1, <2>2 DEF LockInv
<1> QED
  BY <1>11, <1>12

(***************************************************************************)
(* The steps outside the session operations: they leave the lock task, its *)
(* alarms and the session alone, and the operations they begin find the    *)
(* automatic lock in place.                                                *)
(***************************************************************************)
LockStays ==
    /\ stored' = stored /\ task' = task /\ alarms' = alarms /\ handler' = handler
    /\ nextId' >= nextId /\ faults' >= faults
    /\ op = None \/ op' = op

ClientKeepsPlace(c) ==
    \/ client'[c] = client[c]
    \/ client'[c].pc \in {"idle", "authorized", "ready", "mutating"}
    \/ client'[c].pc = "prepared" /\ client'[c].vault \in Arriving

BeginsLocked ==
    \/ op' = op
    \/ op' = None
    \/ op'.kind \in {"commit", "persist", "rollback", "revoke"}
    \/ op'.kind \in {"lock", "delete"} /\ op'.pc = "advance epoch"
    \/ /\ op'.kind = "activate" /\ op'.pc = "advance epoch"
       /\ op'.action = nextId + 1 /\ op'.action \in Ids /\ op'.known = stored
       /\ op'.vault # None => op'.vault \in Arriving

LEMMA OutsideKeepsLock ==
    ASSUME TypeInv, TypeInv', LockInv, LockStays, BeginsLocked, \A c \in Contexts : ClientKeepsPlace(c)
    PROVE  LockInv'
<1>1. /\ nextId \in Nat /\ nextId' \in Nat /\ faults \in Nat /\ faults' \in Nat
  <2>1. nextId' \in Nat /\ faults' \in Nat
    BY ConstantsAssumption DEF TypeInv, TypeOK
  <2> QED
    BY <2>1, EndTypes
<1>2. HandlersInv /\ NoEnrollment
  BY DEF LockInv
<1>3. Depends' => Depends
  BY DEF Depends, LockStays, BeginsLocked
<1>4. HandlersInv'
  <2>1. faults # 0 => faults' # 0
    BY <1>1 DEF LockStays
  <2>2. \A i \in alarms' : i \in alarms \/ i <= nextId
    BY DEF LockStays
  <2> QED
    BY <1>1, <1>2, <1>3, <2>1, <2>2, HandlersStay DEF LockStays
<1>5. NoEnrollment'
  <2>1. \A c \in Contexts : /\ client'[c].pc # "enrolled"
                            /\ client'[c].pc = "prepared" => client'[c].vault \in Arriving
    BY <1>2 DEF NoEnrollment, ClientKeepsPlace
  <2>2. /\ op' # None => op'.kind # "discard"
        /\ op' # None /\ op'.kind = "activate" /\ op'.vault # None => op'.vault \in Arriving
    BY <1>2 DEF NoEnrollment, BeginsLocked
  <2> QED
    BY <2>1, <2>2 DEF NoEnrollment
<1>6. LockKept => LockKept'
  BY DEF LockKept, LockPending, LockStays
<1>7. CASE op' = op
  <2>1. ActivationLock => ActivationLock'
    BY <1>6, <1>7 DEF ActivationLock, LockStays, LockKept, LockPending
  <2>2. CleanupLock => CleanupLock'
    BY <1>6, <1>7 DEF CleanupLock, LockStays, OwnsLock
  <2> QED
    BY <1>4, <1>5, <1>6, <1>7, <2>1, <2>2 DEF LockInv
<1>8. CASE op' # op
  <2>1. LockKept'
    BY <1>6, <1>8 DEF LockStays, LockInv
  <2>2. op' # None /\ op'.kind \in Cleanups => CleanupLock'
    BY <1>8, <2>1 DEF BeginsLocked, CleanupLock, Retiring, Cleanups
  <2>3. op' # None /\ op'.kind = "activate" => ActivationLock'
    <3> HAVE op' # None /\ op'.kind = "activate"
    <3>1. /\ op'.pc = "advance epoch" /\ op'.action = nextId + 1 /\ op'.known = stored
          /\ op'.action \in Ids
      BY <1>8 DEF BeginsLocked
    <3>2. op'.action > nextId
      <4>1. op'.action = nextId + 1
        BY <3>1
      <4> HIDE <3>1
      <4> QED
        BY <1>1, <4>1
    <3>3. op'.action \notin alarms' /\ handler'[op'.action].pc = "idle"
      BY <1>2, <3>1, <3>2 DEF HandlersInv, LockStays
    <3>4. /\ "advance epoch" \notin Saves /\ "advance epoch" \notin Undoes
          /\ "advance epoch" # "arm alarm"
      BY DEF Saves, Undoes
    <3>5. op'.known = None => stored' = None
      BY <3>1 DEF LockStays
    <3> QED
      BY <2>1, <3>1, <3>3, <3>4, <3>5, Zenon DEF ActivationLock
  <2> QED
    BY <1>4, <1>5, <2>1, <2>2, <2>3 DEF LockInv
<1> QED
  BY <1>7, <1>8

LEMMA ClientAt ==
    ASSUME TypeInv, NEW c \in Contexts, NEW x,
           \/ client' = client
           \/ client' = [client EXCEPT ![c] = x] /\ x.pc \in {"idle", "authorized", "ready", "mutating"}
    PROVE  \A b \in Contexts : ClientKeepsPlace(b)
<1>1. client \in [Contexts -> Clients]
  BY DEF TypeInv, TypeOK
<1> QED
  BY <1>1 DEF ClientKeepsPlace

LEMMA ClientStepKeepsClients ==
    ASSUME TypeInv, LockInv, NEW c \in Contexts,
           \/ Unlock(c) \/ Arrive(c) \/ Mutate(c) \/ Close(c) \/ OpenSession(c) \/ GetStatus(c)
    PROVE  \A b \in Contexts : ClientKeepsPlace(b)
<1>1. client \in [Contexts -> Clients] /\ Idle.pc = "idle"
  BY DEF TypeInv, TypeOK, Idle
<1>2. CASE Prepare(c)
  <2>1. client[c].pc = "authorized" /\ client[c].vault \in Arriving /\ client[c] \in Clients
        /\ client' = [client EXCEPT ![c] = [client[c] EXCEPT !.pc = "prepared"]]
    BY <1>1, <1>2 DEF Prepare
  <2>2. /\ [client[c] EXCEPT !.pc = "prepared"].pc = "prepared"
        /\ [client[c] EXCEPT !.pc = "prepared"].vault = client[c].vault
    BY <2>1 DEF Clients, Idle
  <2> QED
    BY <1>1, <2>1, <2>2 DEF ClientKeepsPlace
<1>3. CASE ~Prepare(c)
  <2>1. \/ client' = client
        \/ client' = [client EXCEPT ![c] = Idle]
        \/ \E v : client' = [client EXCEPT ![c] =
                      [pc |-> "authorized", vault |-> v, epoch |-> epoch]]
        \/ client' = [client EXCEPT ![c] = Loaded(c)]
        \/ \E m : client' = [client EXCEPT ![c] = [pc |-> "mutating", session |-> m]]
    BY <1>3, Zenon DEF Unlock, Authorize, LoadVault, BeginActivation, RejectActivation, Abandon,
           Arrive, BeginArrival, BeginDiscard, Mutate, BeginPersist, BeginCommit,
           BeginRollback, Close, BeginLock, BeginDelete, OpenSession, GetStatus
  <2>2. Loaded(c).pc \in {"idle", "ready"}
    BY <1>1 DEF Loaded
  <2>3. CASE \E v : client' = [client EXCEPT ![c] =
                      [pc |-> "authorized", vault |-> v, epoch |-> epoch]]
    <3> DEFINE x(v) == [pc |-> "authorized", vault |-> v, epoch |-> epoch]
    <3>1. PICK v : client' = [client EXCEPT ![c] = x(v)]
      BY <2>3
    <3>2. x(v).pc = "authorized"
      OBVIOUS
    <3> QED
      BY <3>1, <3>2, ClientAt
  <2>4. CASE \E m : client' = [client EXCEPT ![c] = [pc |-> "mutating", session |-> m]]
    <3> DEFINE x(m) == [pc |-> "mutating", session |-> m]
    <3>1. PICK m : client' = [client EXCEPT ![c] = x(m)]
      BY <2>4
    <3>2. x(m).pc = "mutating"
      OBVIOUS
    <3> QED
      BY <3>1, <3>2, ClientAt
  <2> QED
    BY <1>1, <2>1, <2>2, <2>3, <2>4, ClientAt
<1> QED
  BY <1>2, <1>3

LEMMA UserStepKeepsLock ==
    ASSUME TypeInv, TypeInv', LockInv, NEW c \in Pages,
           Unlock(c) \/ Arrive(c) \/ Mutate(c) \/ Close(c)
    PROVE  LockInv'
<1> c \in Contexts /\ TypeOK
  BY DEF Contexts, TypeInv
<1>1. stored' = stored /\ task' = task /\ alarms' = alarms /\ handler' = handler
  BY DEF Unlock, Authorize, LoadVault, BeginActivation, RejectActivation, Abandon, Arrive,
         Prepare, BeginArrival, BeginDiscard, Mutate, BeginPersist, BeginCommit,
         BeginRollback, Close, BeginLock, BeginDelete, shared
<1>2. nextId' = nextId \/ nextId' = nextId + 1
  BY DEF Unlock, Authorize, LoadVault, BeginActivation, RejectActivation, Abandon, Arrive,
         Prepare, BeginArrival, BeginDiscard, Mutate, BeginPersist, BeginCommit,
         BeginRollback, Close, BeginLock, BeginDelete
<1>3. faults' = faults \/ \E failing : Count(failing)
  BY DEF Unlock, Authorize, LoadVault, BeginActivation, RejectActivation, Abandon, Arrive,
         Prepare, BeginArrival, BeginDiscard, Mutate, BeginPersist, BeginCommit,
         BeginRollback, Close, BeginLock, BeginDelete
<1>4. op = None \/ op' = op
  BY DEF Unlock, Authorize, LoadVault, BeginActivation, RejectActivation, Abandon, Arrive,
         Prepare, BeginArrival, BeginDiscard, Mutate, BeginPersist, BeginCommit,
         BeginRollback, Close, BeginLock, BeginDelete
<1>5. LockStays
  BY <1>1, <1>2, <1>3, <1>4, CountGrows, EndTypes DEF LockStays
<1>6. \/ op' = op \/ op' = None
      \/ /\ client[c].pc = "ready" /\ nextId < MaxId /\ op' = Activation(c)
         /\ Reconcile(c).material = stored
      \/ /\ client[c].pc = "prepared" /\ nextId < MaxId /\ nextVersion < MaxVersion
         /\ op' = Arrival(c) /\ Reconcile(c).material = stored
      \/ client[c].pc = "enrolled"
      \/ client[c].pc = "mutating" /\ op' = Persistence(c)
      \/ client[c].pc = "persisted" /\ op' = Commitment(c)
      \/ client[c].pc = "persisted" /\ op' = Restoration(c)
      \/ \E failing \in Steps \cup {None} : op' = CleanupOf("lock", c, "advance epoch", failing)
      \/ \E v \in Vaults : op' = DeletionOf(c, v)
  BY Zenon DEF Unlock, Authorize, LoadVault, BeginActivation, RejectActivation, Abandon, Arrive,
         Prepare, BeginArrival, BeginDiscard, Mutate, BeginPersist, BeginCommit,
         BeginRollback, Close, BeginLock, BeginDelete, Failing, Steps, ActivationIsAllowed
<1>7. BeginsLocked
  <2>1. CASE op' = op \/ op' = None
    BY <2>1 DEF BeginsLocked
  <2>2. CASE /\ client[c].pc = "ready" /\ nextId < MaxId /\ op' = Activation(c)
             /\ Reconcile(c).material = stored
    <3>1. op'.known = stored
      BY <2>2, KnownOfOperations DEF Activation
    <3>2. /\ WellFormed(op') /\ IsOperation(op', "activate", c, "advance epoch")
          /\ op'.action = nextId + 1 /\ op'.vault = None
      BY <2>2, ActivationType
    <3> QED
      BY <3>1, <3>2 DEF BeginsLocked, IsOperation, WellFormed
  <2>3. CASE /\ client[c].pc = "prepared" /\ nextId < MaxId /\ nextVersion < MaxVersion
             /\ op' = Arrival(c) /\ Reconcile(c).material = stored
    <3>1. op'.known = stored
      BY <2>3, KnownOfOperations DEF Arrival
    <3>2. /\ WellFormed(op') /\ IsOperation(op', "activate", c, "advance epoch")
          /\ op'.action = nextId + 1 /\ op'.vault = client[c].vault
      BY <2>3, ArrivalType
    <3>3. client[c].vault \in Arriving
      BY <2>3 DEF LockInv, NoEnrollment
    <3> QED
      BY <3>1, <3>2, <3>3 DEF BeginsLocked, IsOperation, WellFormed
  <2>4. client[c].pc # "enrolled"
    BY DEF LockInv, NoEnrollment
  <2>5. CASE client[c].pc = "mutating" /\ op' = Persistence(c)
    BY <2>5, PersistenceType DEF BeginsLocked, IsOperation
  <2>6. CASE client[c].pc = "persisted" /\ op' = Commitment(c)
    BY <2>6, CommitmentType DEF BeginsLocked, IsOperation
  <2>7. CASE client[c].pc = "persisted" /\ op' = Restoration(c)
    BY <2>7, RestorationType DEF BeginsLocked, IsOperation
  <2>8. CASE \E failing \in Steps \cup {None} :
               op' = CleanupOf("lock", c, "advance epoch", failing)
    BY <2>8, LockType DEF BeginsLocked, IsOperation
  <2>9. CASE \E v \in Vaults : op' = DeletionOf(c, v)
    BY <2>9, DeletionType DEF BeginsLocked, IsOperation
  <2> QED
    BY <1>6, <2>1, <2>2, <2>3, <2>4, <2>5, <2>6, <2>7, <2>8, <2>9
<1> QED
  BY <1>5, <1>7, ClientStepKeepsClients, OutsideKeepsLock

LEMMA LookKeepsLock ==
    ASSUME TypeInv, TypeInv', LockInv, NEW c \in Contexts, OpenSession(c) \/ GetStatus(c)
    PROVE  LockInv'
<1> TypeOK
  BY DEF TypeInv
<1>1. /\ stored' = stored /\ task' = task /\ alarms' = alarms /\ handler' = handler
      /\ nextId' = nextId /\ op = None
      /\ faults' = faults \/ \E failing : Count(failing)
  BY DEF OpenSession, GetStatus, shared
<1>2. LockStays
  BY <1>1, CountGrows, EndTypes DEF LockStays
<1>3. \/ op' = None \/ op' = op
      \/ op' = Revocation(c, None)
      \/ op' = Revocation(c, Reconcile(c).material)
  BY Zenon DEF OpenSession, GetStatus
<1>4. BeginsLocked
  BY <1>3, ReconcileType, RevocationType DEF BeginsLocked, IsOperation
<1> QED
  BY <1>2, <1>4, ClientStepKeepsClients, OutsideKeepsLock

(***************************************************************************)
(* What fails and who dies is counted, up to the bounds.                   *)
(***************************************************************************)
FaultStep == faults' = faults \/ (faults < MaxFaults /\ faults' = faults + 1)
DeathStep == deaths' = deaths \/ (deaths < MaxDeaths /\ deaths' = deaths + 1)

LEMMA FaultsStep ==
    ASSUME NEW steps, NEW failing \in Failing(steps), Count(failing)
    PROVE  FaultStep
BY DEF Failing, Count, FaultStep

LEMMA CallsCount == Call => FaultStep
<1>1. AdvanceEpoch => FaultStep
  BY FaultsStep, Zenon DEF AdvanceEpoch
<1>2. SaveVault => FaultStep
  BY FaultsStep, Zenon DEF SaveVault
<1>3. SaveTask => FaultStep
  BY FaultsStep, Zenon DEF SaveTask
<1>4. ArmAlarm => FaultStep
  BY FaultsStep, Zenon DEF ArmAlarm
<1>5. SavePayload => FaultStep
  BY FaultsStep, Zenon DEF SavePayload
<1>6. SaveMaterial => FaultStep
  BY FaultsStep, Zenon DEF SaveMaterial
<1>7. SaveSnapshot => FaultStep
  BY FaultsStep, Zenon DEF SaveSnapshot
<1>8. RestoreSnapshot => FaultStep
  BY FaultsStep, Zenon DEF RestoreSnapshot
<1>9. ReadTasks => FaultStep
  BY FaultsStep, Zenon DEF ReadTasks
<1>10. RemoveMaterial => FaultStep
  BY FaultsStep, Zenon DEF RemoveMaterial
<1>11. RemovePayload => FaultStep
  BY FaultsStep, Zenon DEF RemovePayload
<1>12. RemoveVault => FaultStep
  BY FaultsStep, Zenon DEF RemoveVault
<1>13. RemoveTask => FaultStep
  BY FaultsStep, Zenon DEF RemoveTask
<1>14. CancelAlarm => FaultStep
  BY FaultsStep, Zenon DEF CancelAlarm
<1>15. DiscardVault => FaultStep
  BY FaultsStep, Zenon DEF DiscardVault
<1> QED
  BY <1>1, <1>2, <1>3, <1>4, <1>5, <1>6, <1>7, <1>8, <1>9, <1>10, <1>11, <1>12, <1>13, <1>14, <1>15, Zenon DEF Call

LEMMA BoundSteps ==
    ASSUME [Next]_vars
    PROVE  FaultStep /\ DeathStep
<1>1. ASSUME NEW i, Alarm(i) PROVE FaultStep
  <2>1. CASE FireAlarm(i)
    BY <2>1 DEF FireAlarm, FaultStep
  <2>2. CASE CheckOwnership(i)
    BY <2>2, FaultsStep, Zenon DEF CheckOwnership
  <2>3. CASE ArmRetry(i)
    BY <2>3, FaultsStep, Zenon DEF ArmRetry
  <2>4. CASE BeginAlarmCleanup(i)
    BY <2>4, FaultsStep, Zenon DEF BeginAlarmCleanup
  <2>5. CASE SettleRetry(i)
    BY <2>5, FaultsStep, Zenon DEF SettleRetry, FaultStep
  <2> QED
    BY <1>1, <2>1, <2>2, <2>3, <2>4, <2>5 DEF Alarm
<1>2. ASSUME NEW c, BeginDiscard(c) \/ BeginLock(c) \/ OpenSession(c) PROVE FaultStep
  BY <1>2, FaultsStep, Zenon DEF BeginDiscard, BeginLock, OpenSession
<1>3. ASSUME NEW c, Unlock(c) \/ Arrive(c) \/ Mutate(c) \/ Close(c) PROVE FaultStep
  BY <1>2, <1>3 DEF FaultStep, Unlock, Authorize, LoadVault, BeginActivation, RejectActivation,
     Abandon, Arrive, Prepare, BeginArrival, Mutate, BeginPersist, BeginCommit, BeginRollback,
     Close, BeginDelete
<1>4. ASSUME NEW c, OpenSession(c) \/ GetStatus(c) \/ Die(c) PROVE FaultStep
  BY <1>2, <1>4 DEF FaultStep, GetStatus, Die
<1>5. FaultStep
  BY <1>1, <1>3, <1>4, CallsCount DEF Next, vars, FaultStep, BrowserRestart
<1>6. DeathStep
  BY DEF DeathStep, Next, vars, Call, AdvanceEpoch, SaveTask, ArmAlarm, SavePayload, SaveMaterial,
     SaveSnapshot, RestoreSnapshot, ReadTasks, RemoveMaterial, RemovePayload, RemoveVault,
     RemoveTask, CancelAlarm, SaveVault, DiscardVault, Alarm, FireAlarm, CheckOwnership,
     ArmRetry, BeginAlarmCleanup, SettleRetry, Unlock, Authorize, LoadVault, BeginActivation,
     RejectActivation, Abandon, Arrive, Prepare, BeginArrival, BeginDiscard, Mutate,
     BeginPersist, BeginCommit, BeginRollback, Close, BeginLock, BeginDelete, OpenSession,
     GetStatus, Die, BrowserRestart, Forget
<1> QED
  BY <1>5, <1>6

LEMMA BoundsHold == Spec => [](faults <= MaxFaults /\ deaths <= MaxDeaths)
<1> DEFINE Bounded == faults <= MaxFaults /\ deaths <= MaxDeaths
<1>1. Init => Bounded
  BY ConstantsAssumption DEF Init
<1>2. ASSUME TypeInv, Bounded, [Next]_vars PROVE Bounded'
  <2>1. /\ faults \in Nat /\ deaths \in Nat
        /\ MaxFaults \in Nat /\ MaxDeaths \in Nat
    BY <1>2, ConstantsAssumption DEF TypeInv, TypeOK
  <2>2. FaultStep /\ DeathStep
    BY <1>2, BoundSteps
  <2> QED
    BY <1>2, <2>1, <2>2 DEF FaultStep, DeathStep
<1> QED
  BY <1>1, <1>2, TypeInduction, PTL DEF Spec

LEMMA LockInduction ==
    ASSUME Synced \cap Arriving = {}
    PROVE  Spec => [](OneFault => LockInv)
<1>1. Init => LockInv
  <2>1. ASSUME Init PROVE HandlersInv
    BY <2>1 DEF Init, HandlersInv, Cleaning, Resting
  <2>2. ASSUME Init PROVE NoEnrollment
    BY <2>2 DEF Init, NoEnrollment, Idle
  <2> QED
    BY <2>1, <2>2 DEF Init, LockInv, LockKept
<1>2. ASSUME TypeInv, TypeInv', SessionsInv, EndsInv, LockInv, OneFault', [Next]_vars
      PROVE  LockInv'
  <2>1. CASE UNCHANGED vars
    BY <1>2, <2>1 DEF vars, LockInv, HandlersInv, NoEnrollment, LockKept, LockPending,
       ActivationLock, CleanupLock, Cleaning, Depends, OwnsLock
  <2>2. CASE Call
    BY <1>2, <2>2, CallKeepsLock
  <2>3. ASSUME NEW i \in Ids, Alarm(i) PROVE LockInv'
    BY <1>2, <2>3, AlarmStepKeepsLock, BeginAlarmCleanupKeepsLock DEF Alarm
  <2>4. CASE \E c \in Pages : Unlock(c) \/ Arrive(c) \/ Mutate(c) \/ Close(c)
    BY <1>2, <2>4, UserStepKeepsLock
  <2>5. CASE \E c \in Contexts : OpenSession(c) \/ GetStatus(c)
    BY <1>2, <2>5, LookKeepsLock
  <2>6. ~(\E c \in Contexts : Die(c)) /\ ~BrowserRestart
    <3>1. deaths \in Nat /\ deaths' = 0
      BY <1>2 DEF TypeInv, TypeOK, OneFault
    <3> QED
      BY <3>1 DEF Die, BrowserRestart, Forget
  <2> QED
    BY <1>2, <2>1, <2>2, <2>3, <2>4, <2>5, <2>6 DEF Next
<1>3. ASSUME TypeInv, [Next]_vars, OneFault' PROVE OneFault
  <2>1. faults \in Nat /\ deaths \in Nat
    BY <1>3 DEF TypeInv, TypeOK
  <2>2. FaultStep /\ DeathStep
    BY <1>3, BoundSteps
  <2> QED
    BY <1>3, <2>1, <2>2 DEF OneFault, AtMostOneFault, FaultStep, DeathStep
<1> QED
  BY <1>1, <1>2, <1>3, TypeInduction, SessionsInduction, EndsInduction, PTL DEF Spec

\* Between operations an unlocked vault has its lock task and an alarm for it,
\* armed or being handled, whatever call fails, an alarm's or a cleanup's own
\* among them, and however handlers and activations interleave.  One call may
\* fail and no context die; a vault that is synchronized does not arrive, for
\* the discard of an enrollment retires the task before it removes the session.
THEOREM UnlockedVaultsHaveAutoLock ==
    ASSUME Synced \cap Arriving = {}
    PROVE  Spec => [](faults <= 1 /\ deaths = 0 => UnlockedHasAutoLock)
<1>1. TypeInv /\ (OneFault => LockInv) =>
         (faults <= 1 /\ deaths = 0 => UnlockedHasAutoLock)
  BY DEF OneFault, AtMostOneFault, LockInv, LockKept, UnlockedHasAutoLock
<1> QED
  BY <1>1, TypeInduction, LockInduction, PTL

\* The same, of the instances in which one call fails at most.
COROLLARY AutoLockSurvivesOneFault ==
    ASSUME Synced \cap Arriving = {}, MaxFaults <= 1, MaxDeaths = 0
    PROVE  Spec => []UnlockedHasAutoLock
<1>1. ASSUME TypeInv, faults <= MaxFaults /\ deaths <= MaxDeaths
      PROVE  faults <= 1 /\ deaths = 0
  <2>1. faults \in Nat /\ deaths \in Nat /\ MaxFaults \in Nat
    BY <1>1, ConstantsAssumption DEF TypeInv, TypeOK
  <2> QED
    BY <1>1, <2>1
<1> QED
  BY <1>1, TypeInduction, BoundsHold, UnlockedVaultsHaveAutoLock, PTL
====
