--------------------------- MODULE SkillsTransaction ---------------------------
(***************************************************************************)
(* Several Managers, one per process, share one user-global state          *)
(* directory: registry.json, the registry.lock directory, the content      *)
(* store and the transaction directories; each product has a receipt of    *)
(* its own (transaction.go, Apply and the planners of manager.go, the lock *)
(* and the JSON files of state.go).                                        *)
(*                                                                         *)
(* A process plans without the lock, then applies the plan under it; a     *)
(* step of the model is one file-system effect, so that another process,   *)
(* a user edit, a failed write, a crash or the loss of the lock can fall   *)
(* between any two of them.                                                *)
(***************************************************************************)
EXTENDS InstallPlanner

CONSTANTS
    Procs,          \* processes running a product CLI
    ProductOf,      \* the product of each process's Manager
    Dead,           \* the lock token of a process that crashed
    InitialTrees,   \* what the runtime directories may hold at the start
    EditContents,   \* what a user edit may leave in a directory
    MaxApplies,     \* bound: calls of Apply
    MaxCrashes,     \* bound: process crashes
    MaxFaults,      \* bound: file-system calls that return an error
    MaxEdits,       \* bound: user edits of a runtime directory
    MaxExpiries     \* bound: live holders whose lock outlives the stale window

ASSUME ProductOfAssumption == ProductOf \in [Procs -> Products]
ASSUME TokenAssumption == None \notin Procs /\ Dead \notin Procs /\ Dead # None
ASSUME TreesAssumption == /\ InitialTrees \subseteq [Keys -> Contents]
                          /\ EditContents \subseteq Contents
ASSUME BoundsAssumption == /\ MaxApplies \in Nat \ {0}
                           /\ {MaxCrashes, MaxFaults, MaxEdits, MaxExpiries} \subseteq Nat

VARIABLES
    registry,   \* registry.json
    receipt,    \* agent-skills.lock.json of each product, None when absent
    runtime,    \* content of each runtime target
    store,      \* digests present in the content-addressed store
    journal,    \* transactions/<id>: journal.json and the two -before files
    backup,     \* transactions/<id>/backups
    lock,       \* owner of registry.lock: a process, Dead, or None
    pc,         \* where each process is
    plan,       \* the plan each process holds, None before PlanInstall etc.
    job,        \* the local variables of Apply, commitPlan, rollbackTransaction
    count,      \* how much of each bound is used
    edited,     \* ghost: targets a user edited
    origin      \* ghost: the runtime tree at the start of each transaction

files == <<registry, receipt, runtime, store, journal, backup>>
ghosts == <<edited, origin>>
vars == <<registry, receipt, runtime, store, journal, backup, lock, pc, plan,
          job, count, edited, origin>>

TxIds == 1..MaxApplies

\* fileMutation: the target is the key, the backup is backup[t][k].
Mutations == [existed: BOOLEAN, result: Digests \cup {None}]

NoMutations == [k \in Keys |-> None]

\* transactionJournal with registry-before.json and receipt-before.json
\* (ReceiptExisted is receiptBefore # None).
Statuses == {"absent", "prepared", "applying", "committed", "rolled_back"}

Journals == [ status: Statuses,
              product: Products,
              mutations: [Keys -> Mutations \cup {None}],
              registryBefore: Registries,
              receiptBefore: Receipts \cup {None} ]

NoJournal == [ status |-> "absent", product |-> CHOOSE q \in Products : TRUE,
               mutations |-> NoMutations, registryBefore |-> EmptyRegistry,
               receiptBefore |-> None ]

\* InstallPlan
Plans == [ op: Operations, desired: Snapshots, revision: Nat,
           decisions: Decisions \cup {None} ]

ASSUME NullAssumption == None \notin Plans \cup Mutations

Outcomes == { "none", "success", "partial", "unchanged", "stale", "conflict",
              "invalid", "busy", "failed", "incomplete" }

\* tx, status and mutations are the in-memory journal; pending the mutations
\* still to make or to undo; todo the incomplete transactions still to recover;
\* reg the registry in hand (read, then projected).
Jobs == [ tx: TxIds \cup {0}, status: Statuses,
          mutations: [Keys -> Mutations \cup {None}], pending: SUBSET Keys,
          todo: SUBSET TxIds, recovering: BOOLEAN, reg: Registries,
          outcome: Outcomes ]

NoJob == [ tx |-> 0, status |-> "prepared", mutations |-> NoMutations,
           pending |-> {}, todo |-> {}, recovering |-> FALSE,
           reg |-> EmptyRegistry, outcome |-> "none" ]

CommitSteps == { "begin", "advance", "stage", "project", "mutate", "backup",
                 "install", "receipt", "commit", "abort" }
RollbackSteps == { "rollback", "undo", "remove", "restore", "rb_registry",
                   "rb_receipt", "rb_journal" }
\* The points of Apply between acquireLock and release.
LockedSteps == {"scan", "recover", "recheck", "release"} \cup CommitSteps \cup RollbackSteps
Points == {"idle", "load", "evaluate", "acquire"} \cup LockedSteps

Counters == {"applies", "crashes", "faults", "edits", "expiries"}

TypeOK ==
    /\ registry \in Registries
    /\ receipt \in [Products -> Receipts \cup {None}]
    /\ runtime \in [Keys -> Contents]
    /\ store \subseteq Digests
    /\ journal \in [TxIds -> Journals]
    /\ backup \in [TxIds -> [Keys -> Contents]]
    /\ lock \in Procs \cup {None, Dead}
    /\ pc \in [Procs -> Points]
    /\ plan \in [Procs -> Plans \cup {None}]
    /\ job \in [Procs -> Jobs]
    /\ count \in [Counters -> Nat]
    /\ edited \subseteq Keys
    /\ origin \in [TxIds -> [Keys -> Contents]]

Init ==
    /\ registry = EmptyRegistry
    /\ receipt = [q \in Products |-> None]
    /\ runtime \in InitialTrees
    /\ store = {}
    /\ journal = [t \in TxIds |-> NoJournal]
    /\ backup = [t \in TxIds |-> [k \in Keys |-> None]]
    /\ lock = None
    /\ pc = [p \in Procs |-> "idle"]
    /\ plan = [p \in Procs |-> None]
    /\ job = [p \in Procs |-> NoJob]
    /\ count = [c \in Counters |-> 0]
    /\ edited = {}
    /\ origin = [t \in TxIds |-> [k \in Keys |-> None]]

-----------------------------------------------------------------------------
(* Helpers *)

Incomplete == {t \in TxIds : journal[t].status \in {"prepared", "applying"}}

\* assertOwned
Owned(p) == lock = p

\* writeJSONAtomic succeeds, fails without a trace, or fails after the rename
\* (syncDir), when the new content is in place although the caller sees an error.
WriteResults ==
    {"ok"} \cup (IF count.faults < MaxFaults THEN {"lost", "late"} ELSE {})

\* Directory moves and copies succeed or fail and leave the source in place.
MoveResults ==
    {"ok"} \cup (IF count.faults < MaxFaults THEN {"lost"} ELSE {})

Landed(o) == o # "lost"

CountFault(o) ==
    count' = IF o = "ok" THEN count ELSE [count EXCEPT !.faults = @ + 1]

Goto(p, point) == pc' = [pc EXCEPT ![p] = point]

\* Apply returns: the deferred release is all that is left.
Return(p, outcome) ==
    /\ Goto(p, "release")
    /\ job' = [job EXCEPT ![p].outcome = outcome]

\* The in-memory journal over the file: product and ReceiptExisted never change.
Written(t, status, mutations) ==
    [journal EXCEPT ![t].status = status, ![t].mutations = mutations]

-----------------------------------------------------------------------------
(* Planning, without the lock *)

\* PlanInstall, PlanLegacyAdoption, PlanUninstall and PlanRollback: the receipt
\* is read first.
PlanRequest(p) ==
    /\ pc[p] = "idle"
    /\ count.applies < MaxApplies
    /\ \E request \in Requests(ProductOf[p], receipt[ProductOf[p]]) :
          plan' = [plan EXCEPT ![p] =
              [ op |-> request.op, desired |-> request.desired,
                revision |-> 0, decisions |-> None ]]
    /\ Goto(p, "load")
    /\ UNCHANGED <<files, lock, job, count, ghosts>>

\* planDesired: loadRegistry
PlanLoad(p) ==
    /\ pc[p] = "load"
    /\ plan' = [plan EXCEPT ![p].revision = registry.revision]
    /\ job' = [job EXCEPT ![p].reg = registry]
    /\ Goto(p, "evaluate")
    /\ UNCHANGED <<files, lock, count, ghosts>>

\* planDesired: evaluatePlan walks the runtime directories
PlanEvaluate(p) ==
    /\ pc[p] = "evaluate"
    /\ plan' = [plan EXCEPT ![p].decisions =
          Evaluate(job[p].reg, runtime, plan[p].op, ProductOf[p], plan[p].desired)]
    /\ job' = [job EXCEPT ![p] = NoJob]
    /\ Goto(p, "idle")
    /\ UNCHANGED <<files, lock, count, ghosts>>

-----------------------------------------------------------------------------
(* Apply: the lock, recovery and the recheck *)

\* Apply up to acquireLock
Apply(p) ==
    /\ pc[p] = "idle"
    /\ plan[p] # None
    /\ count.applies < MaxApplies
    /\ count' = [count EXCEPT !.applies = @ + 1]
    /\ Goto(p, "acquire")
    /\ UNCHANGED <<files, lock, plan, job, ghosts>>

\* acquireLock: os.Mkdir succeeds
AcquireLock(p) ==
    /\ pc[p] = "acquire"
    /\ lock = None
    /\ lock' = p
    /\ Goto(p, "scan")
    /\ UNCHANGED <<files, plan, job, count, ghosts>>

\* acquireLock: the deadline passes or the context is cancelled
AcquireTimeout(p) ==
    /\ pc[p] = "acquire"
    /\ lock # None
    /\ Goto(p, "idle")
    /\ UNCHANGED <<files, lock, plan, job, count, ghosts>>

\* Faulty: the age of the owner's record is not looked at.
ReapAnyLock(p) ==
    /\ pc[p] = "acquire"
    /\ lock # None
    /\ lock' = None
    /\ UNCHANGED <<files, pc, plan, job, count, ghosts>>

\* reapStaleLock: the owner's record is older than the stale window, because the
\* owner died, or because it is still at work after all that time.
ReapStaleLock(p) ==
    /\ pc[p] = "acquire"
    /\ \/ /\ lock = Dead
          /\ UNCHANGED count
       \/ /\ lock \in Procs
          /\ count.expiries < MaxExpiries
          /\ count' = [count EXCEPT !.expiries = @ + 1]
    /\ lock' = None
    /\ UNCHANGED <<files, pc, plan, job, ghosts>>

\* Faulty: a transaction still "prepared" is taken for one that did nothing.
ScanApplying(p) ==
    /\ pc[p] = "scan"
    /\ job' = [job EXCEPT ![p].todo = {t \in Incomplete : journal[t].status = "applying"}]
    /\ Goto(p, "recover")
    /\ UNCHANGED <<files, lock, plan, count, ghosts>>

\* incompleteTransactionPaths
Scan(p) ==
    /\ pc[p] = "scan"
    /\ job' = [job EXCEPT ![p].todo = Incomplete]
    /\ Goto(p, "recover")
    /\ UNCHANGED <<files, lock, plan, count, ghosts>>

\* recoverIncompleteTransactions: read the next journal, in the order of the
\* random transaction names, or go on when none is left.
Recover(p) ==
    /\ pc[p] = "recover"
    /\ \/ /\ job[p].todo = {}
          /\ Goto(p, "recheck")
          /\ UNCHANGED job
       \/ \E t \in job[p].todo :
             /\ job' = [job EXCEPT ![p].tx = t,
                                   ![p].status = journal[t].status,
                                   ![p].mutations = journal[t].mutations,
                                   ![p].recovering = TRUE]
             /\ Goto(p, "rollback")
    /\ UNCHANGED <<files, lock, plan, count, ghosts>>

\* Apply: revision, actions and conflicts must be the reviewed ones.
\* replace is options.ReplaceConflicts, which nothing reads earlier.
Recheck(p) ==
    LET fresh == Evaluate(registry, runtime, plan[p].op, ProductOf[p], plan[p].desired)
    IN  /\ pc[p] = "recheck"
        /\ IF registry.revision # plan[p].revision \/ fresh # plan[p].decisions
           THEN Return(p, "stale")
           ELSE \E replace \in BOOLEAN :
                   IF Stopped(fresh, replace)
                   THEN Return(p, "conflict")
                   ELSE /\ job' = [job EXCEPT ![p] = [NoJob EXCEPT !.reg = registry]]
                        /\ Goto(p, "begin")
        /\ UNCHANGED <<files, lock, plan, count, ghosts>>

-----------------------------------------------------------------------------
(* commitPlan *)

\* An id nobody used, the way newID's random one is; ids are taken in order.
FreshTx ==
    {t \in TxIds : /\ journal[t].status = "absent"
                   /\ \A s \in TxIds : s < t => journal[s].status # "absent"}

\* commitPlan up to the first journal write: the receipt must be the product's
\* own, nothing to do means "unchanged", else the snapshots and the journal are
\* written.  An error here returns before the deferred rollback is set up.
Begin(p) ==
    LET q == ProductOf[p]
        mine == receipt[q]
        foreign == mine # None /\ mine.product # q
        unchanged == /\ HasNoAction(plan[p].decisions)
                     /\ mine # None /\ mine.current = plan[p].desired
    IN  /\ pc[p] = "begin"
        /\ IF foreign \/ unchanged
           THEN /\ Return(p, IF foreign THEN "invalid" ELSE "unchanged")
                /\ UNCHANGED <<journal, origin, count>>
           ELSE \E t \in FreshTx : \E o \in WriteResults :
                /\ CountFault(o)
                /\ journal' = IF ~Landed(o) THEN journal ELSE
                      [journal EXCEPT ![t] =
                          [ status |-> "prepared", product |-> q,
                            mutations |-> NoMutations, registryBefore |-> job[p].reg,
                            receiptBefore |-> mine ]]
                /\ origin' = IF ~Landed(o) THEN origin ELSE [origin EXCEPT ![t] = runtime]
                /\ IF o = "ok"
                   THEN /\ job' = [job EXCEPT ![p].tx = t, ![p].status = "prepared"]
                        /\ Goto(p, "advance")
                   ELSE Return(p, "failed")
        /\ UNCHANGED <<registry, receipt, runtime, store, backup, lock, plan, edited>>

\* assertOwned, then the journal goes to "applying"
Advance(p) ==
    /\ pc[p] = "advance"
    /\ IF ~Owned(p)
       THEN /\ Goto(p, "abort")
            /\ UNCHANGED <<journal, job, count>>
       ELSE \E o \in WriteResults :
            /\ CountFault(o)
            /\ job' = [job EXCEPT ![p].status = "applying"]
            /\ journal' = IF Landed(o)
                          THEN Written(job[p].tx, "applying", NoMutations)
                          ELSE journal
            /\ Goto(p, IF o = "ok" THEN "stage" ELSE "abort")
    /\ UNCHANGED <<registry, receipt, runtime, store, backup, lock, plan, ghosts>>

\* Whether the plan's source still holds the bytes of a desired entry: the
\* bundle directory does, the runtime directory may have been edited, the store
\* is no source of its own.
SourceMatches(p, k) ==
    \/ plan[p].op = "install"
    \/ plan[p].op = "adopt" /\ runtime[k] = plan[p].desired.digest[k]

\* prepareDesiredStore: entries are staged in key order up to the first that
\* cannot be; the ones before it stay in the store.
Stage(p) ==
    LET wanted  == {k \in Keys : plan[p].desired.digest[k] # None}
        invalid == {k \in wanted : plan[p].desired.digest[k] \notin store
                                   /\ ~SourceMatches(p, k)}
    IN  /\ pc[p] = "stage"
        /\ \E broken \in {{}} \cup
                 (IF count.faults < MaxFaults THEN {{k} : k \in wanted} ELSE {}) :
              /\ CountFault(IF broken = {} THEN "ok" ELSE "lost")
              /\ store' = store \cup
                    {plan[p].desired.digest[k] :
                        k \in {w \in wanted : \A b \in invalid \cup broken : w < b}}
              /\ Goto(p, IF invalid \cup broken = {} THEN "project" ELSE "abort")
        /\ UNCHANGED <<registry, receipt, runtime, journal, backup, lock, plan, job, ghosts>>

\* projectRegistry, and the list of actions that touch the runtime
ProjectRegistry(p) ==
    LET q == ProductOf[p] IN
    /\ pc[p] = "project"
    /\ IF ProjectionConflict(job[p].reg, q, plan[p].desired)
       THEN /\ Goto(p, "abort")
            /\ UNCHANGED job
       ELSE /\ job' = [job EXCEPT
                  ![p].reg = Project(@, runtime, q, plan[p].desired),
                  ![p].pending = {k \in Keys : Mutates(plan[p].decisions[k])}]
            /\ Goto(p, "mutate")
    /\ UNCHANGED <<files, lock, plan, count, ghosts>>

-----------------------------------------------------------------------------
(* mutateRuntimeTarget, for the first target still to change *)

Target(p) == Min(job[p].pending)

NextTarget(p) == job' = [job EXCEPT ![p].pending = @ \ {Target(p)}]

\* The mutation is journalled before anything moves; the in-memory journal has
\* it even when the write fails.
RecordMutation(p) ==
    LET k == Target(p)
        mutations == [job[p].mutations EXCEPT ![k] =
            [existed |-> runtime[k] # None, result |-> plan[p].desired.digest[k]]]
    IN  /\ pc[p] = "mutate"
        /\ job[p].pending # {}
        /\ IF ~Owned(p)
           THEN /\ Goto(p, "abort")
                /\ UNCHANGED <<journal, job, count>>
           ELSE \E o \in WriteResults :
                /\ CountFault(o)
                /\ job' = [job EXCEPT ![p].mutations = mutations]
                /\ journal' = IF Landed(o)
                              THEN Written(job[p].tx, job[p].status, mutations)
                              ELSE journal
                /\ Goto(p, IF o = "ok" THEN "backup" ELSE "abort")
        /\ UNCHANGED <<registry, receipt, runtime, store, backup, lock, plan, ghosts>>

\* Faulty: the target is deleted, the store having every digest.
BackUpByDeleting(p) ==
    /\ pc[p] = "backup"
    /\ runtime' = [runtime EXCEPT ![Target(p)] = None]
    /\ Goto(p, "install")
    /\ UNCHANGED <<registry, receipt, store, journal, backup, lock, plan, job, count, ghosts>>

\* moveDir(target, backup), unless there was nothing to move
BackUp(p) ==
    LET k == Target(p) IN
    /\ pc[p] = "backup"
    /\ IF ~job[p].mutations[k].existed
       THEN /\ Goto(p, "install")
            /\ UNCHANGED <<runtime, backup, count>>
       ELSE \E o \in MoveResults :
            /\ CountFault(o)
            /\ IF o = "ok" /\ runtime[k] # None
               THEN /\ backup' = [backup EXCEPT ![job[p].tx][k] = runtime[k]]
                    /\ runtime' = [runtime EXCEPT ![k] = None]
                    /\ Goto(p, "install")
               ELSE /\ Goto(p, "abort")
                    /\ UNCHANGED <<runtime, backup>>
    /\ UNCHANGED <<registry, receipt, store, journal, lock, plan, job, ghosts>>

\* The copy from the store is renamed into place, which fails when the target
\* exists again; a removal is done.
InstallTarget(p) ==
    LET k == Target(p) IN
    /\ pc[p] = "install"
    /\ IF plan[p].decisions[k].branch = "remove"
       THEN /\ Goto(p, "mutate")
            /\ NextTarget(p)
            /\ UNCHANGED <<runtime, count>>
       ELSE \E o \in MoveResults :
            /\ CountFault(o)
            /\ IF o = "ok" /\ runtime[k] = None
               THEN /\ runtime' = [runtime EXCEPT ![k] = plan[p].desired.digest[k]]
                    /\ NextTarget(p)
                    /\ Goto(p, "mutate")
               ELSE /\ Goto(p, "abort")
                    /\ UNCHANGED <<runtime, job>>
    /\ UNCHANGED <<registry, receipt, store, journal, backup, lock, plan, ghosts>>

-----------------------------------------------------------------------------
(* The three writes that commit *)

\* assertOwned, then registry.json
PublishRegistry(p) ==
    /\ pc[p] = "mutate"
    /\ job[p].pending = {}
    /\ IF ~Owned(p)
       THEN /\ Goto(p, "abort")
            /\ UNCHANGED <<registry, count>>
       ELSE \E o \in WriteResults :
            /\ CountFault(o)
            /\ registry' = IF Landed(o) THEN job[p].reg ELSE registry
            /\ Goto(p, IF o = "ok" THEN "receipt" ELSE "abort")
    /\ UNCHANGED <<receipt, runtime, store, journal, backup, lock, plan, job, ghosts>>

\* Faulty: the whole old receipt becomes the previous claim set.
NewReceiptNested(p) ==
    [ product |-> ProductOf[p], revision |-> job[p].reg.revision,
      current |-> plan[p].desired, previous |-> journal[job[p].tx].receiptBefore ]

\* The receipt commitPlan read is the one it saved as receipt-before.json.
NewReceipt(p) ==
    LET old == journal[job[p].tx].receiptBefore
    IN  [ product |-> ProductOf[p], revision |-> job[p].reg.revision,
          current |-> plan[p].desired,
          previous |-> IF old = None THEN None ELSE old.current ]

\* Faulty: the error of the write is dropped.
PublishReceiptUnchecked(p) ==
    /\ pc[p] = "receipt"
    /\ \E o \in WriteResults :
          /\ CountFault(o)
          /\ receipt' = IF Landed(o)
                        THEN [receipt EXCEPT ![ProductOf[p]] = NewReceipt(p)]
                        ELSE receipt
    /\ Goto(p, "commit")
    /\ UNCHANGED <<registry, runtime, store, journal, backup, lock, plan, job, ghosts>>

PublishReceipt(p) ==
    /\ pc[p] = "receipt"
    /\ \E o \in WriteResults :
          /\ CountFault(o)
          /\ receipt' = IF Landed(o)
                        THEN [receipt EXCEPT ![ProductOf[p]] = NewReceipt(p)]
                        ELSE receipt
          /\ Goto(p, IF o = "ok" THEN "commit" ELSE "abort")
    /\ UNCHANGED <<registry, runtime, store, journal, backup, lock, plan, job, ghosts>>

\* The in-memory status is "committed" even when the write fails.
CommitJournal(p) ==
    /\ pc[p] = "commit"
    /\ \E o \in WriteResults :
          /\ CountFault(o)
          /\ journal' = IF Landed(o)
                        THEN Written(job[p].tx, "committed", job[p].mutations)
                        ELSE journal
          /\ job' = [job EXCEPT ![p].status = "committed",
                ![p].outcome = IF o # "ok" THEN "none"
                               ELSE IF Preserves(plan[p].decisions)
                               THEN "partial" ELSE "success"]
          /\ Goto(p, IF o = "ok" THEN "release" ELSE "abort")
    /\ UNCHANGED <<registry, receipt, runtime, store, backup, lock, plan, ghosts>>

-----------------------------------------------------------------------------
(* rollbackTransaction, from a failed commitPlan or from recovery *)

\* commitPlan's deferred function writes the in-memory journal, whatever the
\* lock, and goes on whether or not the write worked.
Abort(p) ==
    /\ pc[p] = "abort"
    /\ \E o \in WriteResults :
          /\ CountFault(o)
          /\ journal' = IF Landed(o)
                        THEN Written(job[p].tx, job[p].status, job[p].mutations)
                        ELSE journal
    /\ Goto(p, "rollback")
    /\ UNCHANGED <<registry, receipt, runtime, store, backup, lock, plan, job, ghosts>>

\* An error inside rollbackTransaction
RollbackFails(p) == Return(p, "incomplete")

\* assertOwned; the mutations are undone from the last to the first
StartRollback(p) ==
    /\ pc[p] = "rollback"
    /\ IF Owned(p)
       THEN /\ job' = [job EXCEPT ![p].pending =
                          {k \in Keys : job[p].mutations[k] # None}]
            /\ Goto(p, "undo")
       ELSE Return(p, IF job[p].recovering THEN "busy" ELSE "incomplete")
    /\ UNCHANGED <<files, lock, plan, count, ghosts>>

LastTarget(p) == Max(job[p].pending)

\* A target that exists must hold the digest the transaction put there: then it
\* may be removed; anything else fails closed.
UndoInspect(p) ==
    LET k == LastTarget(p) IN
    /\ pc[p] = "undo"
    /\ job[p].pending # {}
    /\ \/ /\ runtime[k] = None
          /\ Goto(p, "restore")
          /\ UNCHANGED job
       \/ /\ runtime[k] # None
          /\ runtime[k] = job[p].mutations[k].result
          /\ Goto(p, "remove")
          /\ UNCHANGED job
       \/ /\ runtime[k] \notin {None, job[p].mutations[k].result}
          /\ RollbackFails(p)
    /\ UNCHANGED <<files, lock, plan, count, ghosts>>

\* os.RemoveAll of whatever is there by now
UndoRemove(p) ==
    /\ pc[p] = "remove"
    /\ \E o \in MoveResults :
          /\ CountFault(o)
          /\ IF o = "ok"
             THEN /\ runtime' = [runtime EXCEPT ![LastTarget(p)] = None]
                  /\ Goto(p, "restore")
                  /\ UNCHANGED job
             ELSE /\ RollbackFails(p)
                  /\ UNCHANGED runtime
    /\ UNCHANGED <<registry, receipt, store, journal, backup, lock, plan, ghosts>>

\* Faulty: the backup is left where it is.
UndoRestoreNothing(p) ==
    /\ pc[p] = "restore"
    /\ Goto(p, "undo")
    /\ job' = [job EXCEPT ![p].pending = @ \ {LastTarget(p)}]
    /\ UNCHANGED <<files, lock, plan, count, ghosts>>

\* moveDir(backup, target) when there is a backup; it fails on a target that
\* appeared in the meantime.
UndoRestore(p) ==
    LET k == LastTarget(p)
        t == job[p].tx
        done == /\ Goto(p, "undo")
                /\ job' = [job EXCEPT ![p].pending = @ \ {k}]
    IN  /\ pc[p] = "restore"
        /\ IF ~job[p].mutations[k].existed \/ backup[t][k] = None
           THEN done /\ UNCHANGED <<runtime, backup, count>>
           ELSE \E o \in MoveResults :
                /\ CountFault(o)
                /\ IF o = "ok" /\ runtime[k] = None
                   THEN /\ runtime' = [runtime EXCEPT ![k] = backup[t][k]]
                        /\ backup' = [backup EXCEPT ![t][k] = None]
                        /\ done
                   ELSE /\ RollbackFails(p)
                        /\ UNCHANGED <<runtime, backup>>
        /\ UNCHANGED <<registry, receipt, store, journal, lock, plan, ghosts>>

\* Faulty: the registry is left to the next commit.
RestoreRegistryNever(p) ==
    /\ pc[p] = "undo"
    /\ job[p].pending = {}
    /\ Goto(p, "rb_receipt")
    /\ UNCHANGED <<files, lock, plan, job, count, ghosts>>

\* registry.json gets back the content saved when the transaction began
RestoreRegistry(p) ==
    /\ pc[p] = "undo"
    /\ job[p].pending = {}
    /\ \E o \in WriteResults :
          /\ CountFault(o)
          /\ registry' = IF Landed(o) THEN journal[job[p].tx].registryBefore ELSE registry
          /\ IF o = "ok"
             THEN /\ Goto(p, "rb_receipt")
                  /\ UNCHANGED job
             ELSE RollbackFails(p)
    /\ UNCHANGED <<receipt, runtime, store, journal, backup, lock, plan, ghosts>>

\* m.paths.ReceiptPath() is the receipt of the process that rolls back, whatever
\* the product of the transaction.
RestoreReceipt(p) ==
    /\ pc[p] = "rb_receipt"
    /\ \E o \in WriteResults :
          /\ CountFault(o)
          /\ receipt' = IF Landed(o)
                        THEN [receipt EXCEPT ![ProductOf[p]] =
                                 journal[job[p].tx].receiptBefore]
                        ELSE receipt
          /\ IF o = "ok"
             THEN /\ Goto(p, "rb_journal")
                  /\ UNCHANGED job
             ELSE RollbackFails(p)
    /\ UNCHANGED <<registry, runtime, store, journal, backup, lock, plan, ghosts>>

\* Faulty: recovery does not go past the transaction it has just undone.
FinishRollbackRepeating(p) ==
    /\ pc[p] = "rb_journal"
    /\ journal' = Written(job[p].tx, "rolled_back", job[p].mutations)
    /\ IF job[p].recovering
       THEN /\ Goto(p, "recover")
            /\ UNCHANGED job
       ELSE Return(p, "failed")
    /\ UNCHANGED <<registry, receipt, runtime, store, backup, lock, plan, count, ghosts>>

\* The journal is rolled back: recovery turns to the next transaction, a failed
\* commitPlan returns its error.
FinishRollback(p) ==
    /\ pc[p] = "rb_journal"
    /\ \E o \in WriteResults :
          /\ CountFault(o)
          /\ journal' = IF Landed(o)
                        THEN Written(job[p].tx, "rolled_back", job[p].mutations)
                        ELSE journal
          /\ IF o # "ok" THEN RollbackFails(p)
             ELSE IF ~job[p].recovering THEN Return(p, "failed")
             ELSE /\ Goto(p, "recover")
                  /\ job' = [job EXCEPT ![p] =
                                [NoJob EXCEPT !.todo = job[p].todo \ {job[p].tx}]]
    /\ UNCHANGED <<registry, receipt, runtime, store, backup, lock, plan, ghosts>>

-----------------------------------------------------------------------------
(* The end of Apply, and the environment *)

\* The deferred release leaves a lock that is no longer its own alone.
Release(p) ==
    /\ pc[p] = "release"
    /\ lock' = IF Owned(p) THEN None ELSE lock
    /\ plan' = IF job[p].outcome \in {"success", "partial", "unchanged"}
               THEN [plan EXCEPT ![p] = None] ELSE plan
    /\ job' = [job EXCEPT ![p] = NoJob]
    /\ Goto(p, "idle")
    /\ UNCHANGED <<files, count, ghosts>>

\* The process dies; the files, the lock directory and a finished plan remain.
Crash(p) ==
    /\ pc[p] # "idle"
    /\ count.crashes < MaxCrashes
    /\ count' = [count EXCEPT !.crashes = @ + 1]
    /\ lock' = IF Owned(p) THEN Dead ELSE lock
    /\ plan' = IF pc[p] \in {"load", "evaluate"} THEN [plan EXCEPT ![p] = None] ELSE plan
    /\ job' = [job EXCEPT ![p] = NoJob]
    /\ Goto(p, "idle")
    /\ UNCHANGED <<files, ghosts>>

\* A user writes, edits or deletes a Skill directory at any time.
UserEdit ==
    /\ count.edits < MaxEdits
    /\ count' = [count EXCEPT !.edits = @ + 1]
    /\ \E k \in Keys : \E c \in EditContents \ {runtime[k]} :
          /\ runtime' = [runtime EXCEPT ![k] = c]
          /\ edited' = edited \cup {k}
    /\ UNCHANGED <<registry, receipt, store, journal, backup, lock, pc, plan, job, origin>>

\* What a process does by itself once Apply is called.
Step(p) ==
    \/ AcquireLock(p) \/ AcquireTimeout(p) \/ ReapStaleLock(p)
    \/ Scan(p) \/ Recover(p) \/ Recheck(p)
    \/ Begin(p) \/ Advance(p) \/ Stage(p) \/ ProjectRegistry(p)
    \/ RecordMutation(p) \/ BackUp(p) \/ InstallTarget(p)
    \/ PublishRegistry(p) \/ PublishReceipt(p) \/ CommitJournal(p)
    \/ Abort(p) \/ StartRollback(p)
    \/ UndoInspect(p) \/ UndoRemove(p) \/ UndoRestore(p)
    \/ RestoreRegistry(p) \/ RestoreReceipt(p) \/ FinishRollback(p)
    \/ Release(p)

Next ==
    \/ \E p \in Procs : 
          \/ PlanRequest(p) \/ PlanLoad(p) \/ PlanEvaluate(p)
          \/ Apply(p) \/ Step(p) \/ Crash(p)
    \/ UserEdit

Spec == Init /\ [][Next]_vars

\* A running process keeps running until it crashes.
FairSpec == Spec /\ \A p \in Procs : WF_vars(Step(p))

-----------------------------------------------------------------------------
(* Properties *)

\* Nobody is inside the locked part of Apply and no transaction is incomplete.
Settled ==
    /\ \A p \in Procs : pc[p] \notin LockedSteps
    /\ Incomplete = {}

\* When the system is settled, the claims each product has in the shared
\* registry are exactly the entries of its own receipt, with the same version
\* and digest: commitPlan and rollbackTransaction write the two files one after
\* the other, and neither an error nor a crash between the writes may leave
\* them telling different stories (what Doctor calls "product receipt and
\* shared registry disagree").
ReceiptRegistryAgreement ==
    Settled =>
        \A q \in Products : \A k \in Keys :
            LET r == receipt[q]
                wanted == IF r = None THEN None ELSE r.current.digest[k]
            IN  /\ (registry.claims[k][q] # None) <=> (wanted # None)
                /\ wanted # None =>
                      /\ registry.claims[k][q] = r.current.version
                      /\ registry.digest[k] = wanted
                      /\ r.product = q

\* When the system is settled, every claimed target no user touched holds the
\* bytes its registry entry names, as long as no live holder lost its lock:
\* mutateRuntimeTarget and rollbackTransaction move the directories before the
\* registry follows.
RuntimeMatchesRegistry ==
    Settled /\ count.expiries = 0 =>
        \A k \in Keys \ edited :
            (\E q \in Products : registry.claims[k][q] # None)
                => runtime[k] = registry.digest[k]

\* The lock serialises transactions: recovery runs before every commit, so a
\* second transaction is never in flight while one is still to be undone, and
\* rollbackTransaction never restores a registry older than a later commit.
AtMostOneIncomplete == \A s, t \in Incomplete : s = t

\* The reason for AtMostOneIncomplete, and more than it: what a process under the
\* lock finds unfinished is still on its recovery list, nothing is unfinished
\* between recovery and the first journal write, and from then on its own
\* transaction is the only one, so that the registry commitPlan projected and the
\* one rollbackTransaction restores are never behind another transaction's.
InFlightIsOwn ==
    \A p \in Procs :
        /\ pc[p] = "recover" => Incomplete \subseteq job[p].todo
        /\ pc[p] \in {"recheck", "begin"} => Incomplete = {}
        /\ pc[p] \in CommitSteps => ~job[p].recovering
        /\ pc[p] \in CommitSteps \ {"begin"} => Incomplete \subseteq {job[p].tx}
        /\ pc[p] \in RollbackSteps /\ job[p].recovering => Incomplete \subseteq job[p].todo
        /\ pc[p] \in RollbackSteps /\ ~job[p].recovering => Incomplete \subseteq {job[p].tx}

\* Until a transaction is decided, the bytes every target had when it began are
\* in the runtime directory or in the transaction's backups, for every target no
\* user touched: at no point between the moves of mutateRuntimeTarget and
\* rollbackTransaction is the only copy deleted.
OriginalsKept ==
    \A t \in Incomplete : \A k \in Keys \ edited :
        origin[t][k] \in {runtime[k], backup[t][k]}

\* A transaction is marked rolled_back only when everything is as it was when
\* it began: registry, receipt of its product, and every target no user touched
\* (rollbackTransaction undoes the mutations in reverse order, then writes the
\* two snapshots back, then the journal).
RolledBackRestores ==
    [][\A t \in TxIds :
          journal[t].status # "rolled_back" /\ journal'[t].status = "rolled_back"
          => /\ registry = journal[t].registryBefore
             /\ receipt[journal[t].product] = journal[t].receiptBefore
             /\ \A k \in Keys \ edited : runtime[k] = origin[t][k]]_vars

\* A settled registry has been through exactly as many revisions as transactions
\* were committed, each from a base revision of its own: no commit is lost under
\* a later one, none is applied twice when a plan is retried after a crash, and
\* a rolled back one leaves no trace in the revision Apply compares plans with.
RevisionCountsCommits ==
    LET committed == {t \in TxIds : journal[t].status = "committed"}
    IN  Settled =>
          /\ registry.revision = Cardinality(committed)
          /\ \A s, t \in committed :
                s # t => journal[s].registryBefore.revision
                         # journal[t].registryBefore.revision

\* An Apply that reports an error without TRANSACTION_INCOMPLETE has left no
\* transaction of its own in flight beyond a journal that says "prepared", has
\* not published anything, and one that reports success has committed.
OutcomeIsTrue ==
    \A p \in Procs : pc[p] = "release" =>
        LET t == job[p].tx IN
        CASE job[p].outcome \in {"success", "partial"} ->
                /\ journal[t].status = "committed"
                /\ registry = job[p].reg
                /\ receipt[ProductOf[p]] # None
                /\ receipt[ProductOf[p]].current = plan[p].desired
          [] job[p].outcome = "failed" ->
                /\ \A s \in Incomplete : journal[s].status = "prepared"
                /\ registry.revision = plan[p].revision
          [] OTHER -> TRUE

\* A process works on the shared files only while nobody else does, and the lock
\* is not lost on the way: every path out of Apply, through recovery, rollback
\* and a crash, leaves it to one holder at most.
LockDiscipline ==
    \A p \in Procs : pc[p] \in LockedSteps <=> lock = p

\* A product's claims in the shared registry change only by a step of that
\* product's own Apply or by rolling back a transaction of that product: another
\* product's commit neither drops nor adds them, even though it rewrites the
\* whole registry file from the copy it read under the lock.
OthersClaimsKept ==
    [][\A q \in Products : \A k \in Keys :
          registry'.claims[k][q] # registry.claims[k][q]
          => \E p \in Procs :
                /\ pc'[p] # pc[p]
                /\ \/ ProductOf[p] = q
                   \/ job[p].tx # 0 /\ journal[job[p].tx].product = q]_vars

\* The bytes of a target another product claims, and no user touched, never change
\* under it: a digest conflict stops the plan and a release keeps the directory.
SharedBytesKept ==
    [][\A p \in Procs : \A k \in Keys \ edited :
          pc[p] \in {"backup", "install"} /\ runtime'[k] # runtime[k] /\ pc'[p] # pc[p]
          => \/ ~Shared(registry, k, ProductOf[p])
             \/ runtime[k] # registry.digest[k]]_vars

\* Where bytes a user wrote are: <<0, k>> for a target, <<t, k>> for a backup.
UserCopies ==
    {<<0, k>> : k \in {x \in Keys : runtime[x] = UserBytes}}
        \cup {c \in TxIds \X Keys : backup[c[1]][c[2]] = UserBytes}

\* Bytes a user wrote are moved to the backups or left in place, never deleted,
\* except by the user, or by a rollback that inspected the target before the
\* user wrote to it.
UserBytesKept ==
    [][Cardinality(UserCopies') < Cardinality(UserCopies)
       => \/ count'.edits # count.edits
          \/ \E p \in Procs : pc[p] = "remove" /\ pc'[p] # "remove"]_vars

\* Every call of Apply returns, or its process crashes: waiting for the lock has
\* a deadline and recovery and rollback have finitely many transactions and
\* mutations to undo.
ApplyTerminates ==
    \A p \in Procs : pc[p] = "acquire" ~> pc[p] = "idle"
=============================================================================
