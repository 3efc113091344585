-------------------- MODULE SkillsTransactionRefinementProofs --------------------
(***************************************************************************)
(* Apply is atomic: SkillsTransaction implements AtomicApply, for any      *)
(* number of processes, products, targets, applies, crashes and edits.     *)
(*                                                                         *)
(* The premises are what the violation configurations show to be needed:   *)
(* no live holder outlives the stale window (MaxExpiries = 0), no          *)
(* file-system call fails (MaxFaults = 0: a failed journal write can undo  *)
(* a commit), and, where receipts are spoken of, no product recovers a     *)
(* transaction another product left behind (OwnRecovery).                  *)
(***************************************************************************)
EXTENDS SkillsTransactionRefinement, SkillsTransactionProofs, FiniteSetTheorems

LEMMA NoFault ==
    ASSUME MaxFaults = 0, Typing
    PROVE  WriteResults = {"ok"} /\ MoveResults = {"ok"}
<1>1. ~(count.faults < MaxFaults)
    BY DEF Typing, TypeOK, Counters
<1> QED
    BY <1>1 DEF WriteResults, MoveResults

-----------------------------------------------------------------------------
(* Until it commits or is rolled back, the transaction a process is in is  *)
(* the unfinished one.                                                     *)

UndecidedAt(p) ==
    /\ pc[p] \in TxSteps => job[p].tx \in Incomplete
    /\ pc[p] \in TxSteps /\ ~job[p].recovering => job[p].status \in {"prepared", "applying"}
    /\ pc[p] \in {"rb_receipt", "rb_journal"} => registry = Before(p)

Undecided == \A p \in Procs : UndecidedAt(p)

Faultless == Serial /\ UnderLock /\ Undecided

LEMMA UnfinishedOne ==
    ASSUME Faultless, NEW p \in Procs, pc[p] \in TxSteps
    PROVE  job[p].tx \in TxIds /\ Incomplete = {job[p].tx}
BY OnlyThisOne DEF Faultless, Undecided, UndecidedAt

\* A step of p that leaves others where they are, outside the transactions.
LEMMA UndecidedStep ==
    ASSUME Serial, NEW p \in Procs, NEW point, pc[p] \in LockedSteps,
           pc' = [pc EXCEPT ![p] = point],
           point \in TxSteps => UndecidedAt(p)'
    PROVE  Undecided'
<1>1. pc'[p] = point /\ \A x \in Procs \ {p} : pc'[x] \notin TxSteps
    BY InsideStep, WatchedAreLocked DEF Serial, Typing, TypeOK, WatchedSteps
<1>2. ASSUME NEW x \in Procs, pc'[x] \notin TxSteps PROVE UndecidedAt(x)'
    BY <1>2 DEF UndecidedAt, TxSteps, RollbackSteps
<1> QED
    BY <1>1, <1>2 DEF Undecided

\* A step inside a transaction that leaves the journal's status undecided.
LEMMA UndecidedTxStep ==
    ASSUME Faultless, NEW p \in Procs, pc[p] \in TxSteps, NEW point,
           pc' = [pc EXCEPT ![p] = point],
           point \in TxSteps =>
              /\ job'[p].tx = job[p].tx /\ job'[p].recovering = job[p].recovering
              /\ job'[p].status \in {job[p].status, "applying"}
              /\ \/ UNCHANGED journal
                 \/ \E status \in {"prepared", "applying"} : \E mutations :
                       journal' = Written(job[p].tx, status, mutations)
              /\ point \in {"rb_receipt", "rb_journal"}
                    => registry' = Before(p) /\ UNCHANGED journal
    PROVE  Undecided'
<1>1. pc[p] \in LockedSteps
    BY WatchedAreLocked DEF WatchedSteps
<1>2. pc'[p] = point
    BY DEF Faultless, Serial, Typing, TypeOK
<1>3. ASSUME point \in TxSteps PROVE UndecidedAt(p)'
    <2>1. job'[p].tx = job[p].tx /\ job[p].tx \in TxIds /\ job[p].tx \in Incomplete
        BY <1>3, UnfinishedOne
    <2>2. job[p].tx \in Incomplete'
        <3>1. CASE UNCHANGED journal
            BY <2>1, <3>1, SameIncomplete
        <3>2. ASSUME NEW status \in {"prepared", "applying"}, NEW mutations,
                     journal' = Written(job[p].tx, status, mutations)
              PROVE  job[p].tx \in Incomplete'
            <4>1. journal'[job[p].tx].status \in {journal[job[p].tx].status, status}
                BY <2>1, <3>2, WrittenKeeps DEF Faultless, Serial
            <4> QED
                BY <2>1, <4>1 DEF Incomplete
        <3> QED
            BY <1>3, <3>1, <3>2
    <2>3. ~job'[p].recovering => job'[p].status \in {"prepared", "applying"}
        BY <1>3 DEF Faultless, Undecided, UndecidedAt
    <2>4. point \in {"rb_receipt", "rb_journal"} => registry' = Before(p)'
        BY <1>3, <2>1 DEF Before
    <2> QED
        BY <1>2, <2>1, <2>2, <2>3, <2>4 DEF UndecidedAt
<1> QED
    BY <1>1, <1>3, UndecidedStep DEF Faultless

LEMMA InitUndecided == Init => Undecided
BY DEF Init, Undecided, UndecidedAt, TxSteps, CommitSteps, RollbackSteps

LEMMA NextUndecided ==
    ASSUME MaxExpiries = 0, MaxFaults = 0, Faultless, [Next]_vars
    PROVE  Undecided'
<1> USE DEF Goto, files, ghosts
<1>0. /\ job \in [Procs -> Jobs] /\ pc \in [Procs -> Points] /\ Serial
      /\ journal \in [TxIds -> Journals]
      /\ WriteResults = {"ok"} /\ MoveResults = {"ok"}
    BY NoFault DEF Faultless, Serial, Typing, TypeOK
<1>a. \A p \in Procs : UndecidedAt(p)
    BY DEF Faultless, Undecided
<1>1. ASSUME UNCHANGED <<registry, journal>>,
             \A p \in Procs : pc'[p] \in TxSteps => pc'[p] = pc[p] /\ job'[p] = job[p]
      PROVE  Undecided'
    <2> SUFFICES ASSUME NEW p \in Procs PROVE UndecidedAt(p)'
        BY DEF Undecided
    <2>1. CASE pc'[p] \in TxSteps
        BY <1>1, <1>a, <2>1, SameIncomplete DEF UndecidedAt, Before
    <2>2. CASE pc'[p] \notin TxSteps
        BY <2>2 DEF UndecidedAt, TxSteps, RollbackSteps
    <2> QED
        BY <2>1, <2>2
<1>2. ASSUME NEW p \in Procs,
             \/ PlanRequest(p) \/ PlanLoad(p) \/ PlanEvaluate(p) \/ Apply(p)
             \/ AcquireLock(p) \/ AcquireTimeout(p) \/ Release(p) \/ Crash(p)
             \/ Scan(p) \/ Recheck(p)
      PROVE  Undecided'
    <2>1. UNCHANGED <<registry, journal>> /\ \A x \in Procs \ {p} : job'[x] = job[x]
        BY <1>0, <1>2 DEF PlanRequest, PlanLoad, PlanEvaluate, Apply, AcquireLock,
                          AcquireTimeout, Release, Crash, Scan, Recheck, Return
    <2>2. \E point \in {"load", "evaluate", "idle", "acquire", "scan", "recover", "begin",
                        "release"} : pc' = [pc EXCEPT ![p] = point]
        BY <1>2 DEF PlanRequest, PlanLoad, PlanEvaluate, Apply, AcquireLock,
                    AcquireTimeout, Release, Crash, Scan, Recheck, Return
    <2>3. pc'[p] \notin TxSteps /\ \A x \in Procs \ {p} : pc'[x] = pc[x]
        BY <1>0, <2>2 DEF TxSteps, CommitSteps, RollbackSteps
    <2> QED
        BY <1>1, <2>1, <2>3
<1>3. ASSUME \/ \E p \in Procs : ReapStaleLock(p)
             \/ UserEdit \/ UNCHANGED vars
      PROVE  Undecided'
    BY <1>1, <1>3 DEF ReapStaleLock, UserEdit, vars
<1>4. ASSUME NEW p \in Procs, Recover(p) PROVE Undecided'
    <2>1. pc[p] = "recover" /\ pc[p] \in LockedSteps /\ UNCHANGED journal
        BY <1>4 DEF Recover, LockedSteps
    <2>2. CASE pc' = [pc EXCEPT ![p] = "recheck"]
        BY <1>0, <2>1, <2>2, UndecidedStep DEF TxSteps, CommitSteps, RollbackSteps
    <2>3. ASSUME NEW t \in job[p].todo, pc' = [pc EXCEPT ![p] = "rollback"],
                 job' = [job EXCEPT ![p].tx = t, ![p].status = journal[t].status,
                                    ![p].mutations = journal[t].mutations,
                                    ![p].recovering = TRUE]
          PROVE  Undecided'
        <3>1. pc'[p] = "rollback" /\ job'[p].tx = t /\ job'[p].recovering = TRUE
            BY <1>0, <2>3 DEF Jobs
        <3>2. t \in Incomplete'
            BY <2>1, <2>3, SameIncomplete DEF Faultless, UnderLock, TransactionAt
        <3>3. UndecidedAt(p)'
            BY <3>1, <3>2 DEF UndecidedAt
        <3> QED
            BY <1>0, <2>1, <2>3, <3>3, UndecidedStep
    <2> QED
        BY <1>4, <2>2, <2>3 DEF Recover
<1>5. ASSUME NEW p \in Procs, Begin(p) PROVE Undecided'
    <2>1. pc[p] = "begin" /\ pc[p] \in LockedSteps
        BY <1>5 DEF Begin, LockedSteps, CommitSteps
    <2>2. CASE pc' = [pc EXCEPT ![p] = "release"]
        BY <1>0, <2>1, <2>2, UndecidedStep DEF TxSteps, CommitSteps, RollbackSteps
    <2>3. ASSUME NEW t \in TxIds,
                 journal' = [journal EXCEPT ![t] =
                    [ status |-> "prepared", product |-> ProductOf[p],
                      mutations |-> NoMutations, registryBefore |-> job[p].reg,
                      receiptBefore |-> receipt[ProductOf[p]] ]],
                 pc' = [pc EXCEPT ![p] = "advance"],
                 job' = [job EXCEPT ![p].tx = t, ![p].status = "prepared"]
          PROVE  Undecided'
        <3>1. pc'[p] = "advance" /\ job'[p].tx = t /\ job'[p].status = "prepared"
            BY <1>0, <2>3 DEF Jobs
        <3>2. t \in Incomplete'
            BY <1>0, <2>3 DEF Incomplete
        <3>3. UndecidedAt(p)'
            BY <3>1, <3>2 DEF UndecidedAt
        <3> QED
            BY <1>0, <2>1, <2>3, <3>3, UndecidedStep
    <2>4. TxIds # {} /\ FreshTx \subseteq TxIds
        BY BoundsAssumption DEF TxIds, FreshTx
    <2> QED
        BY <1>0, <1>5, <2>2, <2>3, <2>4 DEF Begin, Return, Landed
<1>6. ASSUME NEW p \in Procs, Advance(p) \/ RecordMutation(p) \/ Abort(p) PROVE Undecided'
    <2> USE <1>6 DEF Advance, RecordMutation, Abort
    <2>1. pc[p] \in TxSteps /\ ~job[p].recovering
        BY <1>0 DEF TxSteps, CommitSteps, Serial, InFlightIsOwn
    <2>2. job[p].status \in {"prepared", "applying"}
        BY <1>a, <2>1 DEF UndecidedAt
    <2>3. \E point \in {"stage", "backup", "abort", "rollback"} : pc' = [pc EXCEPT ![p] = point]
        OBVIOUS
    <2>4. /\ job'[p].tx = job[p].tx /\ job'[p].recovering = job[p].recovering
          /\ job'[p].status \in {job[p].status, "applying"}
        BY <1>0 DEF Jobs
    <2>5. UNCHANGED journal \/ \E status \in {"prepared", "applying"} : \E mutations :
                                   journal' = Written(job[p].tx, status, mutations)
        BY <1>0, <2>2
    <2> QED
        BY <2>1, <2>3, <2>4, <2>5, UndecidedTxStep
<1>7. ASSUME NEW p \in Procs,
             \/ Stage(p) \/ ProjectRegistry(p) \/ BackUp(p) \/ InstallTarget(p)
             \/ PublishRegistry(p) \/ PublishReceipt(p)
      PROVE  Undecided'
    <2> USE <1>7 DEF Stage, ProjectRegistry, BackUp, InstallTarget, NextTarget,
                     PublishRegistry, PublishReceipt
    <2>1. pc[p] \in TxSteps /\ UNCHANGED journal
        BY DEF TxSteps, CommitSteps
    <2>2. \E point \in {"project", "abort", "mutate", "install", "receipt", "commit"} :
             pc' = [pc EXCEPT ![p] = point]
        OBVIOUS
    <2>3. /\ job'[p].tx = job[p].tx /\ job'[p].recovering = job[p].recovering
          /\ job'[p].status = job[p].status
        BY <1>0 DEF Jobs
    <2> QED
        BY <2>1, <2>2, <2>3, UndecidedTxStep
<1>8. ASSUME NEW p \in Procs,
             StartRollback(p) \/ UndoInspect(p) \/ UndoRemove(p) \/ UndoRestore(p)
      PROVE  Undecided'
    <2> USE <1>8 DEF StartRollback, UndoInspect, UndoRemove, UndoRestore, Return, RollbackFails
    <2>1. pc[p] \in {"rollback", "undo", "remove", "restore"}
        OBVIOUS
    <2>2. UNCHANGED journal
        OBVIOUS
    <2>3. \E point \in {"undo", "remove", "restore", "release"} : pc' = [pc EXCEPT ![p] = point]
        OBVIOUS
    <2>4. /\ job'[p].tx = job[p].tx /\ job'[p].recovering = job[p].recovering
          /\ job'[p].status = job[p].status
        BY <1>0 DEF Jobs
    <2>5. pc[p] \in TxSteps
        BY <2>1 DEF TxSteps, RollbackSteps
    <2> QED
        BY <2>2, <2>3, <2>4, <2>5, UndecidedTxStep
<1>9. ASSUME NEW p \in Procs, RestoreRegistry(p) \/ RestoreReceipt(p) PROVE Undecided'
    <2>1. pc[p] \in TxSteps
        BY <1>9 DEF RestoreRegistry, RestoreReceipt, TxSteps, RollbackSteps
    <2>2. UNCHANGED <<journal, job>>
        BY <1>0, <1>9 DEF RestoreRegistry, RestoreReceipt
    <2>3. registry' = Before(p)
        BY <1>0, <1>9, <1>a DEF RestoreRegistry, RestoreReceipt, Before, Landed, UndecidedAt
    <2>4. \E point \in {"rb_receipt", "rb_journal"} : pc' = [pc EXCEPT ![p] = point]
        BY <1>0, <1>9 DEF RestoreRegistry, RestoreReceipt
    <2> QED
        BY <2>1, <2>2, <2>3, <2>4, UndecidedTxStep
<1>10. ASSUME NEW p \in Procs, CommitJournal(p) \/ FinishRollback(p) PROVE Undecided'
    <2>1. pc[p] \in TxSteps
        BY <1>10 DEF CommitJournal, FinishRollback, TxSteps, CommitSteps, RollbackSteps
    <2>2. \E point \in {"release", "recover"} : pc' = [pc EXCEPT ![p] = point]
        BY <1>0, <1>10 DEF CommitJournal, FinishRollback, Return
    <2> QED
        BY <2>1, <2>2, UndecidedTxStep DEF TxSteps, CommitSteps, RollbackSteps
<1> QED
    BY <1>2, <1>3, <1>4, <1>5, <1>6, <1>7, <1>8, <1>9, <1>10 DEF Next, Step

LEMMA FaultlessAlways ==
    ASSUME MaxExpiries = 0, MaxFaults = 0
    PROVE  Spec => []Faultless
<1>1. (Serial /\ UnderLock) /\ Undecided /\ [Next]_vars => Undecided'
    BY NextUndecided DEF Faultless
<1> QED
    BY <1>1, InitUndecided, UnderLockAlways, PTL DEF Spec, Faultless

-----------------------------------------------------------------------------
(* What a step does to the registry, the receipts and the journals.        *)

Committed == {t \in TxIds : journal[t].status = "committed"}

\* The journal a process begins with.
Begun(p, t) ==
    /\ pc[p] = "begin" /\ journal[t].status = "absent"
    /\ journal' = [journal EXCEPT ![t] =
          [ status |-> "prepared", product |-> ProductOf[p], mutations |-> NoMutations,
            registryBefore |-> job[p].reg, receiptBefore |-> receipt[ProductOf[p]] ]]
    /\ UNCHANGED <<registry, receipt>>

\* A step inside a transaction that decides nothing: the registry may change, and
\* the receipt of the process's own product.
Within(p) ==
    /\ pc[p] \in TxSteps
    /\ \/ UNCHANGED journal
       \/ \E status \in {"prepared", "applying"} : \E mutations :
             journal' = Written(job[p].tx, status, mutations)
    /\ \/ UNCHANGED receipt
       \/ \E r : receipt' = [receipt EXCEPT ![ProductOf[p]] = r]

\* A step that decides the transaction.
Decides(p, point, status) ==
    /\ pc[p] = point
    /\ \E mutations : journal' = Written(job[p].tx, status, mutations)
    /\ UNCHANGED <<registry, receipt>>

StepKind ==
    \/ UNCHANGED <<registry, receipt, journal>>
    \/ \E p \in Procs :
          \/ \E t \in TxIds : Begun(p, t)
          \/ Within(p)
          \/ Decides(p, "commit", "committed")
          \/ Decides(p, "rb_journal", "rolled_back")

\* Every action inside a transaction but the last write.
LEMMA WithinSteps ==
    ASSUME MaxFaults = 0, Faultless, NEW p \in Procs,
           \/ Advance(p) \/ Stage(p) \/ ProjectRegistry(p) \/ RecordMutation(p)
           \/ BackUp(p) \/ InstallTarget(p) \/ PublishRegistry(p) \/ PublishReceipt(p)
           \/ Abort(p) \/ StartRollback(p) \/ UndoInspect(p) \/ UndoRemove(p)
           \/ UndoRestore(p) \/ RestoreRegistry(p) \/ RestoreReceipt(p)
    PROVE  Within(p)
<1>0. Serial /\ WriteResults = {"ok"}
    BY NoFault DEF Faultless, Serial
<1>1. ASSUME Advance(p) \/ RecordMutation(p) \/ Abort(p) PROVE Within(p)
    <2> USE <1>1 DEF Advance, RecordMutation, Abort
    <2>1. pc[p] \in TxSteps /\ ~job[p].recovering /\ UNCHANGED receipt
        BY <1>0 DEF TxSteps, CommitSteps, Serial, InFlightIsOwn
    <2>2. job[p].status \in {"prepared", "applying"}
        BY <2>1 DEF Faultless, Undecided, UndecidedAt
    <2>3. UNCHANGED journal \/ \E status \in {"prepared", "applying"} : \E mutations :
                                   journal' = Written(job[p].tx, status, mutations)
        BY <1>0, <2>2
    <2> QED
        BY <2>1, <2>3 DEF Within
<1>2. ASSUME \/ Stage(p) \/ ProjectRegistry(p) \/ BackUp(p) \/ InstallTarget(p)
             \/ PublishRegistry(p) \/ StartRollback(p) \/ UndoInspect(p) \/ UndoRemove(p)
             \/ UndoRestore(p) \/ RestoreRegistry(p)
      PROVE  Within(p)
    BY <1>2 DEF Within, Stage, ProjectRegistry, BackUp, InstallTarget, PublishRegistry,
       StartRollback, UndoInspect, UndoRemove, UndoRestore, RestoreRegistry, files,
       TxSteps, CommitSteps, RollbackSteps
<1>3. ASSUME PublishReceipt(p) \/ RestoreReceipt(p) PROVE Within(p)
    <2>1. pc[p] \in TxSteps /\ UNCHANGED journal
        BY <1>3 DEF PublishReceipt, RestoreReceipt, TxSteps, CommitSteps, RollbackSteps
    <2>2. \E r : receipt' = [receipt EXCEPT ![ProductOf[p]] = r]
        BY <1>0, <1>3 DEF PublishReceipt, RestoreReceipt, Landed
    <2> QED
        BY <2>1, <2>2 DEF Within
<1> QED
    BY <1>1, <1>2, <1>3

LEMMA StepKinds ==
    ASSUME MaxFaults = 0, Faultless, [Next]_vars
    PROVE  StepKind
<1>0. WriteResults = {"ok"}
    BY NoFault DEF Faultless, Serial
<1>1. ASSUME UNCHANGED <<registry, receipt, journal>> PROVE StepKind
    BY <1>1 DEF StepKind
<1>2. ASSUME UserEdit \/ UNCHANGED vars PROVE StepKind
    BY <1>1, <1>2 DEF UserEdit, vars
<1>3. ASSUME NEW p \in Procs,
             \/ PlanRequest(p) \/ PlanLoad(p) \/ PlanEvaluate(p) \/ Apply(p)
             \/ AcquireLock(p) \/ AcquireTimeout(p) \/ ReapStaleLock(p) \/ Release(p)
             \/ Crash(p) \/ Scan(p) \/ Recover(p) \/ Recheck(p)
      PROVE  StepKind
    BY <1>1, <1>3 DEF PlanRequest, PlanLoad, PlanEvaluate, Apply, AcquireLock, AcquireTimeout,
       ReapStaleLock, Release, Crash, Scan, Recover, Recheck, files
<1>4. ASSUME NEW p \in Procs, Begin(p) PROVE StepKind
    <2>1. UNCHANGED <<registry, receipt>> /\ pc[p] = "begin"
        BY <1>4 DEF Begin
    <2>2. CASE UNCHANGED journal
        BY <1>1, <2>1, <2>2
    <2>3. ASSUME NEW t \in FreshTx,
                 journal' = [journal EXCEPT ![t] =
                    [ status |-> "prepared", product |-> ProductOf[p],
                      mutations |-> NoMutations, registryBefore |-> job[p].reg,
                      receiptBefore |-> receipt[ProductOf[p]] ]]
          PROVE  StepKind
        <3>1. t \in TxIds /\ Begun(p, t)
            BY <2>1, <2>3 DEF Begun, FreshTx
        <3> QED
            BY <3>1 DEF StepKind
    <2> QED
        BY <1>0, <1>4, <2>2, <2>3 DEF Begin, Landed
<1>5. ASSUME NEW p \in Procs, Within(p) PROVE StepKind
    BY <1>5 DEF StepKind
<1>6. ASSUME NEW p \in Procs, CommitJournal(p) PROVE StepKind
    BY <1>0, <1>6 DEF CommitJournal, StepKind, Decides, Landed
<1>7. ASSUME NEW p \in Procs, FinishRollback(p) PROVE StepKind
    BY <1>0, <1>7 DEF FinishRollback, StepKind, Decides, Landed
<1> QED
    BY <1>2, <1>3, <1>4, <1>5, <1>6, <1>7, WithinSteps DEF Next, Step

-----------------------------------------------------------------------------
(* The revision counts the commits.                                        *)

LEMMA OneInFlight ==
    ASSUME NEW t \in TxIds, Incomplete = {t}
    PROVE  InFlight = t
BY DEF InFlight

\* Another transaction is not touched.
LEMMA BegunJournal ==
    ASSUME Faultless, NEW p \in Procs, NEW t \in TxIds, Begun(p, t)
    PROVE  /\ Incomplete = {} /\ Incomplete' = {t} /\ Committed' = Committed
           /\ t \notin Committed /\ job[p].reg = registry
           /\ journal'[t].product = ProductOf[p]
           /\ journal'[t].registryBefore = registry
           /\ journal'[t].receiptBefore = receipt[ProductOf[p]]
           /\ \A s \in TxIds \ {t} : journal'[s] = journal[s]
<1>1. journal \in [TxIds -> Journals]
    BY DEF Faultless, Serial, Typing, TypeOK
<1>2. Incomplete = {} /\ job[p].reg = registry
    BY DEF Faultless, Serial, InFlightIsOwn, UnderLock, RegistryAt, Begun
<1>3. /\ journal'[t] = [ status |-> "prepared", product |-> ProductOf[p],
                         mutations |-> NoMutations, registryBefore |-> job[p].reg,
                         receiptBefore |-> receipt[ProductOf[p]] ]
      /\ \A s \in TxIds \ {t} : journal'[s] = journal[s]
    BY <1>1 DEF Begun
<1>4. /\ journal'[t].status = "prepared" /\ journal'[t].product = ProductOf[p]
      /\ journal'[t].registryBefore = job[p].reg
      /\ journal'[t].receiptBefore = receipt[ProductOf[p]]
    BY <1>3
<1>5. journal[t].status = "absent"
    BY DEF Begun
<1>6. Incomplete' = {t}
    BY <1>2, <1>3, <1>4 DEF Incomplete
<1>7. Committed' = Committed /\ t \notin Committed
    BY <1>3, <1>4, <1>5 DEF Committed
<1> QED
    BY <1>2, <1>3, <1>4, <1>6, <1>7

LEMMA WithinJournal ==
    ASSUME Faultless, NEW p \in Procs, Within(p)
    PROVE  /\ job[p].tx \in TxIds
           /\ Incomplete = {job[p].tx} /\ Incomplete' = {job[p].tx}
           /\ Committed' = Committed
           /\ \A s \in TxIds : /\ journal'[s].product = journal[s].product
                               /\ journal'[s].registryBefore = journal[s].registryBefore
                               /\ journal'[s].receiptBefore = journal[s].receiptBefore
                               /\ journal'[s].status # "absent" => journal[s].status # "absent"
<1>1. job[p].tx \in TxIds /\ Incomplete = {job[p].tx}
    BY UnfinishedOne DEF Within
<1>2. PICK status \in {"prepared", "applying"} : \E mutations :
         UNCHANGED journal \/ journal' = Written(job[p].tx, status, mutations)
    BY DEF Within
<1>3. /\ \A s \in TxIds : /\ journal'[s].product = journal[s].product
                          /\ journal'[s].registryBefore = journal[s].registryBefore
                          /\ journal'[s].receiptBefore = journal[s].receiptBefore
      /\ \A s \in TxIds \ {job[p].tx} : journal'[s].status = journal[s].status
      /\ journal'[job[p].tx].status \in {journal[job[p].tx].status, status}
    BY <1>1, <1>2, WrittenKeeps DEF Faultless, Serial
<1>4. journal[job[p].tx].status \in {"prepared", "applying"}
    BY <1>1 DEF Incomplete
<1>5. Incomplete' = {job[p].tx}
    BY <1>1, <1>3, <1>4 DEF Incomplete
<1>6. Committed' = Committed
    BY <1>3, <1>4 DEF Committed
<1> QED
    BY <1>1, <1>3, <1>4, <1>5, <1>6

LEMMA DecidesJournal ==
    ASSUME Faultless, NEW p \in Procs, NEW point \in TxSteps,
           NEW status \in {"committed", "rolled_back"}, Decides(p, point, status)
    PROVE  /\ job[p].tx \in TxIds /\ job[p].tx \notin Committed
           /\ Incomplete = {job[p].tx} /\ Incomplete' = {}
           /\ Committed' = IF status = "committed" THEN Committed \cup {job[p].tx}
                           ELSE Committed
           /\ \A s \in TxIds : /\ journal'[s].product = journal[s].product
                               /\ journal'[s].registryBefore = journal[s].registryBefore
                               /\ journal'[s].receiptBefore = journal[s].receiptBefore
                               /\ journal'[s].status # "absent" => journal[s].status # "absent"
<1>1. job[p].tx \in TxIds /\ Incomplete = {job[p].tx}
    BY UnfinishedOne DEF Decides
<1>2. PICK mutations : journal' = Written(job[p].tx, status, mutations)
    BY DEF Decides
<1>3. /\ \A s \in TxIds : /\ journal'[s].product = journal[s].product
                          /\ journal'[s].registryBefore = journal[s].registryBefore
                          /\ journal'[s].receiptBefore = journal[s].receiptBefore
      /\ \A s \in TxIds \ {job[p].tx} : journal'[s].status = journal[s].status
    BY <1>1, <1>2, WrittenKeeps DEF Faultless, Serial
<1>4. journal'[job[p].tx].status = status
    BY <1>1, <1>2 DEF Written, Faultless, Serial, Typing, TypeOK, Journals
<1>5. journal[job[p].tx].status \in {"prepared", "applying"}
    BY <1>1 DEF Incomplete
<1>6. Incomplete' = {}
    BY <1>1, <1>3, <1>4 DEF Incomplete
<1>7. /\ job[p].tx \notin Committed
      /\ Committed' = IF status = "committed" THEN Committed \cup {job[p].tx} ELSE Committed
    <2>1. job[p].tx \notin Committed
        BY <1>5 DEF Committed
    <2>2. \A s \in TxIds \ {job[p].tx} : s \in Committed' <=> s \in Committed
        BY <1>3 DEF Committed
    <2>3. job[p].tx \in Committed' <=> status = "committed"
        BY <1>1, <1>4 DEF Committed
    <2>4. Committed \subseteq TxIds /\ Committed' \subseteq TxIds
        BY DEF Committed
    <2> QED
        BY <1>1, <2>1, <2>2, <2>3, <2>4
<1> QED
    BY <1>1, <1>3, <1>5, <1>6, <1>7

\* The registry that counts moves by the commit of a plan alone.
LEMMA DecidedRegistrySteps ==
    ASSUME MaxFaults = 0, Faultless, [Next]_vars
    PROVE  /\ \A s \in Committed :
                  journal'[s].registryBefore = journal[s].registryBefore
           /\ \/ UNCHANGED <<DecidedRegistry, Committed>>
              \/ \E p \in Procs :
                    /\ Decides(p, "commit", "committed")
                    /\ DecidedRegistry = Before(p) /\ DecidedRegistry' = job[p].reg
                    /\ job[p].tx \in TxIds \ Committed
                    /\ Committed' = Committed \cup {job[p].tx}
                    /\ journal'[job[p].tx].registryBefore = Before(p)
<1>1. CASE UNCHANGED <<registry, receipt, journal>>
    BY <1>1, SameIncomplete DEF DecidedRegistry, InFlight, Committed
<1>2. ASSUME NEW p \in Procs, NEW t \in TxIds, Begun(p, t)
      PROVE  /\ \A s \in Committed : journal'[s].registryBefore = journal[s].registryBefore
             /\ UNCHANGED <<DecidedRegistry, Committed>>
    <2>1. InFlight' = t
        BY <1>2, BegunJournal DEF InFlight
    <2>2. DecidedRegistry' = registry /\ DecidedRegistry = registry
        BY <1>2, <2>1, BegunJournal DEF DecidedRegistry
    <2> QED
        BY <1>2, <2>2, BegunJournal DEF Committed
<1>3. ASSUME NEW p \in Procs, Within(p)
      PROVE  /\ \A s \in Committed : journal'[s].registryBefore = journal[s].registryBefore
             /\ UNCHANGED <<DecidedRegistry, Committed>>
    <2>1. InFlight' = job[p].tx /\ InFlight = job[p].tx
        BY <1>3, WithinJournal DEF InFlight
    <2> QED
        BY <1>3, <2>1, WithinJournal DEF Committed, DecidedRegistry
<1>4. ASSUME NEW p \in Procs, Decides(p, "commit", "committed")
      PROVE  /\ \A s \in Committed : journal'[s].registryBefore = journal[s].registryBefore
             /\ DecidedRegistry = Before(p) /\ DecidedRegistry' = job[p].reg
             /\ job[p].tx \in TxIds \ Committed
             /\ Committed' = Committed \cup {job[p].tx}
             /\ journal'[job[p].tx].registryBefore = Before(p)
    <2>1. "commit" \in TxSteps
        BY DEF TxSteps, CommitSteps
    <2>2. InFlight = job[p].tx
        BY <1>4, <2>1, DecidesJournal DEF InFlight
    <2>3. registry = job[p].reg /\ UNCHANGED registry
        BY <1>4 DEF Faultless, UnderLock, RegistryAt, Decides
    <2> QED
        BY <1>4, <2>1, <2>2, <2>3, DecidesJournal DEF Committed, DecidedRegistry, Before
<1>5. ASSUME NEW p \in Procs, Decides(p, "rb_journal", "rolled_back")
      PROVE  /\ \A s \in Committed : journal'[s].registryBefore = journal[s].registryBefore
             /\ UNCHANGED <<DecidedRegistry, Committed>>
    <2>1. "rb_journal" \in TxSteps
        BY DEF TxSteps, RollbackSteps
    <2>2. InFlight = job[p].tx
        BY <1>5, <2>1, DecidesJournal DEF InFlight
    <2>3. registry = Before(p) /\ UNCHANGED registry
        BY <1>5 DEF Faultless, Undecided, UndecidedAt, Decides
    <2> QED
        BY <1>5, <2>1, <2>2, <2>3, DecidesJournal DEF Committed, DecidedRegistry, Before
<1> QED
    BY <1>1, <1>2, <1>3, <1>4, <1>5, StepKinds DEF StepKind

BaseRevision(t) == journal[t].registryBefore.revision

\* What the induction carries: of all transactions, finished or not.
Revisions ==
    /\ DecidedRegistry.revision = Cardinality(Committed)
    /\ \A t \in Committed : BaseRevision(t) < DecidedRegistry.revision
    /\ \A s, t \in Committed : s # t => BaseRevision(s) # BaseRevision(t)

LEMMA DecidedRegistryType == ASSUME Typing PROVE DecidedRegistry \in Registries
<1>1. CASE Incomplete = {}
    BY <1>1 DEF DecidedRegistry, Typing, TypeOK
<1>2. CASE Incomplete # {}
    <2>1. InFlight \in TxIds
        BY <1>2 DEF InFlight, Incomplete
    <2> QED
        BY <1>2, <2>1 DEF DecidedRegistry, Typing, TypeOK, Journals
<1> QED
    BY <1>1, <1>2

LEMMA CommittedFinite == IsFiniteSet(Committed)
<1>1. IsFiniteSet(TxIds)
    BY FS_Interval, BoundsAssumption DEF TxIds
<1> QED
    BY <1>1, FS_Subset DEF Committed

LEMMA InitRevisions == Init => Revisions
<1> SUFFICES ASSUME Init PROVE Revisions
    OBVIOUS
<1>1. Incomplete = {} /\ Committed = {}
    BY DEF Init, Incomplete, Committed, NoJournal
<1>2. DecidedRegistry.revision = 0
    BY <1>1 DEF Init, DecidedRegistry, EmptyRegistry
<1> QED
    BY <1>1, <1>2, FS_EmptySet DEF Revisions

LEMMA NextRevisions ==
    ASSUME MaxFaults = 0, Faultless, Revisions, [Next]_vars
    PROVE  Revisions'
<1>1. \A s \in Committed : BaseRevision(s)' = BaseRevision(s)
    BY DecidedRegistrySteps DEF BaseRevision
<1>2. CASE UNCHANGED <<DecidedRegistry, Committed>>
    BY <1>1, <1>2 DEF Revisions
<1>3. ASSUME NEW p \in Procs, Decides(p, "commit", "committed"),
             DecidedRegistry = Before(p), DecidedRegistry' = job[p].reg,
             job[p].tx \in TxIds \ Committed,
             Committed' = Committed \cup {job[p].tx},
             journal'[job[p].tx].registryBefore = Before(p)
      PROVE  Revisions'
    <2>1. Projected(p)
        BY <1>3 DEF Faultless, UnderLock, RegistryAt, Decides
    <2>2. DecidedRegistry'.revision = DecidedRegistry.revision + 1
        BY <1>3, <2>1 DEF Projected, Project
    <2>3. Cardinality(Committed') = Cardinality(Committed) + 1
        BY <1>3, CommittedFinite, FS_AddElement
    <2>4. DecidedRegistry.revision \in Nat
        BY DecidedRegistryType DEF Faultless, Serial, Registries
    <2>5. \A t \in TxIds : t = job[p].tx => BaseRevision(t)' = DecidedRegistry.revision
        BY <1>3 DEF BaseRevision
    <2>6. \A t \in Committed' : \/ t \in Committed /\ BaseRevision(t)' < DecidedRegistry.revision
                                \/ t = job[p].tx /\ BaseRevision(t)' = DecidedRegistry.revision
        BY <1>1, <1>3, <2>5 DEF Revisions
    <2>7. \A t \in Committed : BaseRevision(t) \in Nat
        BY DEF BaseRevision, Committed, Faultless, Serial, Typing, TypeOK, Journals, Registries
    <2>8. \A t \in Committed' : BaseRevision(t)' < DecidedRegistry'.revision
        BY <1>1, <2>2, <2>4, <2>6, <2>7
    <2>9. \A s, t \in Committed' : s # t => BaseRevision(s)' # BaseRevision(t)'
        BY <1>1, <2>4, <2>6, <2>7 DEF Revisions
    <2> QED
        BY <2>2, <2>3, <2>8, <2>9 DEF Revisions
<1> QED
    BY <1>2, <1>3, DecidedRegistrySteps

\* No commit is lost and none is counted twice, for any number of processes,
\* applies, crashes, edits and products, recoveries by another product included.
THEOREM RevisionsCountCommits ==
    ASSUME MaxExpiries = 0, MaxFaults = 0
    PROVE  Spec => []RevisionCountsCommits
<1>1. Faultless /\ Revisions /\ [Next]_vars => Revisions'
    BY NextRevisions
<1>2. Revisions => RevisionCountsCommits
    <2> SUFFICES ASSUME Revisions, Settled PROVE RevisionCountsCommits
        BY DEF RevisionCountsCommits
    <2>1. DecidedRegistry = registry
        BY DEF Settled, DecidedRegistry
    <2> QED
        BY <2>1 DEF RevisionCountsCommits, Revisions, Committed, BaseRevision
<1> QED
    BY <1>1, <1>2, InitRevisions, FaultlessAlways, PTL DEF Spec

-----------------------------------------------------------------------------
(* The receipts, when every transaction is undone by a process of its own   *)
(* product.                                                                 *)

\* rollbackTransaction writes the receipt of the process that runs it, so it must
\* be of the product whose transaction it undoes.
OwnRecovery == \A p \in Procs : pc[p] \in RollbackSteps => OwnerOf(p) = ProductOf[p]

OwnReceipt(q, r) ==
    r # None => /\ r.product = q
                /\ r.current \in Atomic!Desirable(q)
                /\ r.previous \in Atomic!Desirable(q) \cup {None}

\* Plans, receipts and saved receipts hold what the product can desire.
Desired ==
    /\ \A p \in Procs : plan[p] # None => plan[p].desired \in Atomic!Desirable(ProductOf[p])
    /\ \A q \in Products : OwnReceipt(q, receipt[q])
    /\ \A t \in TxIds : journal[t].status # "absent"
                            => OwnReceipt(journal[t].product, journal[t].receiptBefore)

Saved(p) == journal[job[p].tx].receiptBefore

\* AtomicApply has the operators of the planner under names of its own.
LEMMA SameOperators ==
    /\ Atomic!EmptyRegistry = EmptyRegistry
    /\ \A s : Atomic!Emptied(s) = Emptied(s)
    /\ \A reg, k, q : Atomic!Shared(reg, k, q) <=> Shared(reg, k, q)
    /\ \A reg, q, desired :
          Atomic!ProjectionConflict(reg, q, desired) <=> ProjectionConflict(reg, q, desired)
<1>1. Atomic!Keys = Keys
    BY DEF Atomic!Keys, Keys
<1>2. Atomic!EmptyRegistry = EmptyRegistry
    BY <1>1 DEF Atomic!EmptyRegistry, EmptyRegistry
<1>3. \A s : Atomic!Emptied(s) = Emptied(s)
    BY <1>1 DEF Atomic!Emptied, Emptied
<1>4. \A reg, k, q : Atomic!Shared(reg, k, q) <=> Shared(reg, k, q)
    BY DEF Atomic!Shared, Shared
<1>5. \A reg, q, desired :
          Atomic!ProjectionConflict(reg, q, desired) <=> ProjectionConflict(reg, q, desired)
    BY <1>1, <1>4 DEF Atomic!ProjectionConflict, ProjectionConflict
<1> QED
    BY <1>2, <1>3, <1>4, <1>5

LEMMA EmptiedDesirable ==
    ASSUME NEW q \in Products, NEW s \in Atomic!Desirable(q)
    PROVE  Emptied(s) \in Atomic!Desirable(q)
<1>1. ASSUME NEW s0 \in Snapshots PROVE Emptied(Emptied(s0)) = Emptied(s0)
    BY DEF Emptied, Snapshots
<1>2. Bundles[q] \cup Legacies[q] \subseteq Snapshots
    BY BundlesAssumption
<1>3. CASE s \in Bundles[q] \cup Legacies[q]
    BY <1>3, SameOperators DEF Atomic!Desirable
<1>4. ASSUME NEW s0 \in Bundles[q] \cup Legacies[q], s = Emptied(s0)
      PROVE  Emptied(s) \in Atomic!Desirable(q)
    BY <1>1, <1>2, <1>4, SameOperators DEF Atomic!Desirable
<1> QED
    BY <1>3, <1>4, SameOperators DEF Atomic!Desirable

LEMMA RequestsDesirable ==
    ASSUME NEW q \in Products, NEW r, OwnReceipt(q, r), NEW request \in Requests(q, r)
    PROVE  request.desired \in Atomic!Desirable(q)
<1>1. Bundles[q] \cup Legacies[q] \subseteq Atomic!Desirable(q)
    BY DEF Atomic!Desirable
<1>2. CASE request \in {[op |-> "install", desired |-> s] : s \in Bundles[q]}
    BY <1>1, <1>2
<1>3. CASE request \in {[op |-> "adopt", desired |-> s] : s \in Legacies[q]}
    BY <1>1, <1>3
<1>4. CASE r # None /\ request = [op |-> "uninstall", desired |-> Emptied(r.current)]
    BY <1>4, EmptiedDesirable DEF OwnReceipt
<1>5. CASE r # None /\ r.previous # None /\ request = [op |-> "rollback", desired |-> r.previous]
    BY <1>5 DEF OwnReceipt
<1> QED
    BY <1>2, <1>3, <1>4, <1>5 DEF Requests

\* A plan gets what it desires from its request, and keeps it.
LEMMA NextPlans ==
    ASSUME Typing, Desired, [Next]_vars, NEW p \in Procs, plan'[p] # None
    PROVE  plan'[p].desired \in Atomic!Desirable(ProductOf[p])
<1>0. plan \in [Procs -> Plans \cup {None}]
    BY DEF Typing, TypeOK
<1>1. CASE plan'[p] = plan[p]
    BY <1>1 DEF Desired
<1>2. ASSUME NEW x \in Procs, PlanRequest(x)
      PROVE  plan'[p].desired \in Atomic!Desirable(ProductOf[p])
    <2>1. PICK request \in Requests(ProductOf[x], receipt[ProductOf[x]]) :
             plan' = [plan EXCEPT ![x] = [ op |-> request.op, desired |-> request.desired,
                                           revision |-> 0, decisions |-> None ]]
        BY <1>2 DEF PlanRequest
    <2>2. request.desired \in Atomic!Desirable(ProductOf[x])
        BY RequestsDesirable, ProductOfAssumption DEF Desired
    <2>3. CASE x = p
        <3>1. plan'[p] = [ op |-> request.op, desired |-> request.desired,
                           revision |-> 0, decisions |-> None ]
            BY <1>0, <2>1, <2>3
        <3> QED
            BY <2>2, <2>3, <3>1
    <2> QED
        BY <1>0, <1>1, <2>1, <2>3
<1>3. ASSUME NEW x \in Procs, PlanLoad(x) \/ PlanEvaluate(x)
      PROVE  plan'[p].desired \in Atomic!Desirable(ProductOf[p])
    <2>1. pc[x] # "idle"
        BY <1>3 DEF PlanLoad, PlanEvaluate
    <2>2. plan[x] \in Plans
        BY <1>0, <2>1 DEF Typing, InHand
    <2>3. CASE x = p
        <3>1. plan'[p].desired = plan[p].desired
            BY <1>0, <1>3, <2>2, <2>3 DEF PlanLoad, PlanEvaluate, Plans
        <3> QED
            BY <2>2, <2>3, <3>1, NullAssumption DEF Desired
    <2> QED
        BY <1>0, <1>1, <1>3, <2>3 DEF PlanLoad, PlanEvaluate
<1>4. ASSUME NEW x \in Procs, Release(x) \/ Crash(x)
      PROVE  plan'[p].desired \in Atomic!Desirable(ProductOf[p])
    <2>1. plan'[p] \in {plan[p], None}
        BY <1>0, <1>4 DEF Release, Crash
    <2> QED
        BY <1>1, <2>1
<1>5. ASSUME NEW x \in Procs,
             \/ Apply(x) \/ AcquireLock(x) \/ AcquireTimeout(x) \/ ReapStaleLock(x)
             \/ Scan(x) \/ Recover(x) \/ Recheck(x) \/ Begin(x) \/ Advance(x) \/ Stage(x)
             \/ ProjectRegistry(x) \/ RecordMutation(x) \/ BackUp(x) \/ InstallTarget(x)
      PROVE  plan'[p] = plan[p]
    BY <1>5 DEF Apply, AcquireLock, AcquireTimeout, ReapStaleLock, Scan, Recover, Recheck,
       Begin, Advance, Stage, ProjectRegistry, RecordMutation, BackUp, InstallTarget
<1>6. ASSUME NEW x \in Procs,
             \/ PublishRegistry(x) \/ PublishReceipt(x) \/ CommitJournal(x) \/ Abort(x)
             \/ StartRollback(x) \/ UndoInspect(x) \/ UndoRemove(x) \/ UndoRestore(x)
             \/ RestoreRegistry(x) \/ RestoreReceipt(x) \/ FinishRollback(x)
      PROVE  plan'[p] = plan[p]
    BY <1>6 DEF PublishRegistry, PublishReceipt, CommitJournal, Abort, StartRollback,
       UndoInspect, UndoRemove, UndoRestore, RestoreRegistry, RestoreReceipt, FinishRollback
<1>7. UserEdit \/ UNCHANGED vars => plan'[p] = plan[p]
    BY DEF UserEdit, vars
<1> QED
    BY <1>1, <1>2, <1>3, <1>4, <1>5, <1>6, <1>7 DEF Next, Step

\* Two writes change a receipt.
LEMMA ReceiptWrites ==
    ASSUME [Next]_vars, receipt' # receipt
    PROVE  \E p \in Procs : PublishReceipt(p) \/ RestoreReceipt(p)
<1>1. UserEdit \/ UNCHANGED vars => receipt' = receipt
    BY DEF UserEdit, vars
<1>2. ASSUME NEW p \in Procs,
             \/ PlanRequest(p) \/ PlanLoad(p) \/ PlanEvaluate(p) \/ Apply(p)
             \/ AcquireLock(p) \/ AcquireTimeout(p) \/ ReapStaleLock(p) \/ Scan(p)
             \/ Recover(p) \/ Recheck(p) \/ Begin(p) \/ Release(p) \/ Crash(p)
      PROVE  receipt' = receipt
    BY <1>2 DEF PlanRequest, PlanLoad, PlanEvaluate, Apply, AcquireLock, AcquireTimeout,
                ReapStaleLock, Scan, Recover, Recheck, Begin, Release, Crash, files
<1>3. ASSUME NEW p \in Procs,
             \/ Advance(p) \/ Stage(p) \/ ProjectRegistry(p) \/ RecordMutation(p)
             \/ BackUp(p) \/ InstallTarget(p) \/ PublishRegistry(p) \/ CommitJournal(p)
             \/ Abort(p) \/ StartRollback(p) \/ UndoInspect(p) \/ UndoRemove(p)
             \/ UndoRestore(p) \/ RestoreRegistry(p) \/ FinishRollback(p)
      PROVE  receipt' = receipt
    BY <1>3 DEF Advance, Stage, ProjectRegistry, RecordMutation, BackUp, InstallTarget,
                PublishRegistry, CommitJournal, Abort, StartRollback, UndoInspect,
                UndoRemove, UndoRestore, RestoreRegistry, FinishRollback, files
<1> QED
    BY <1>1, <1>2, <1>3 DEF Next, Step

LEMMA SavedIsOwn ==
    ASSUME Faultless, Desired, NEW p \in Procs, pc[p] \in TxSteps
    PROVE  OwnReceipt(OwnerOf(p), Saved(p))
<1>1. job[p].tx \in TxIds /\ journal[job[p].tx].status # "absent"
    BY UnfinishedOne DEF Incomplete
<1> QED
    BY <1>1 DEF Desired, OwnerOf, Saved

LEMMA NextOwnReceipts ==
    ASSUME MaxFaults = 0, Faultless, OwnRecovery, Desired, [Next]_vars, NEW q \in Products
    PROVE  OwnReceipt(q, receipt'[q])
<1>0. receipt \in [Products -> Receipts \cup {None}] /\ WriteResults = {"ok"}
    BY NoFault DEF Faultless, Serial, Typing, TypeOK
<1>1. CASE receipt'[q] = receipt[q]
    BY <1>1 DEF Desired
<1>2. ASSUME NEW p \in Procs, PublishReceipt(p), ProductOf[p] = q
      PROVE  OwnReceipt(q, receipt'[q])
    <2>1. pc[p] = "receipt" /\ receipt'[q] = NewReceipt(p)
        BY <1>0, <1>2 DEF PublishReceipt, Landed
    <2>2. pc[p] \in TxSteps /\ pc[p] # "idle" /\ ~job[p].recovering
        BY <2>1 DEF TxSteps, CommitSteps, Faultless, Serial, InFlightIsOwn
    <2>3. OwnReceipt(q, Saved(p))
        BY <1>2, <2>2, SavedIsOwn DEF Faultless, UnderLock, TransactionAt
    <2>4. plan[p].desired \in Atomic!Desirable(q)
        BY <1>2, <2>2 DEF Desired, Faultless, Serial, Typing, InHand
    <2>5. /\ receipt'[q].product = q /\ receipt'[q].current = plan[p].desired
          /\ receipt'[q].previous = IF Saved(p) = None THEN None ELSE Saved(p).current
        BY <1>2, <2>1 DEF NewReceipt, Saved
    <2> QED
        BY <2>3, <2>4, <2>5 DEF OwnReceipt
<1>3. ASSUME NEW p \in Procs, RestoreReceipt(p), ProductOf[p] = q
      PROVE  OwnReceipt(q, receipt'[q])
    <2>1. pc[p] = "rb_receipt" /\ receipt'[q] = Saved(p)
        BY <1>0, <1>3 DEF RestoreReceipt, Landed, Saved
    <2>2. pc[p] \in TxSteps /\ OwnerOf(p) = q
        BY <1>3, <2>1 DEF TxSteps, RollbackSteps, OwnRecovery
    <2> QED
        BY <2>1, <2>2, SavedIsOwn
<1>4. ASSUME NEW p \in Procs, PublishReceipt(p) \/ RestoreReceipt(p), ProductOf[p] # q
      PROVE  receipt'[q] = receipt[q]
    BY <1>0, <1>4 DEF PublishReceipt, RestoreReceipt
<1> QED
    BY <1>1, <1>2, <1>3, <1>4, ReceiptWrites

LEMMA NextDesired ==
    ASSUME MaxFaults = 0, Faultless, OwnRecovery, Desired, [Next]_vars
    PROVE  Desired'
<1>1. \A p \in Procs : plan'[p] # None => plan'[p].desired \in Atomic!Desirable(ProductOf[p])
    BY NextPlans DEF Faultless, Serial
<1>2. \A q \in Products : OwnReceipt(q, receipt'[q])
    BY NextOwnReceipts
<1>3. ASSUME NEW t \in TxIds, journal'[t].status # "absent"
      PROVE  OwnReceipt(journal'[t].product, journal'[t].receiptBefore)
    <2>1. ASSUME journal[t].status # "absent", journal'[t].product = journal[t].product,
                 journal'[t].receiptBefore = journal[t].receiptBefore
          PROVE  OwnReceipt(journal'[t].product, journal'[t].receiptBefore)
        BY <2>1 DEF Desired
    <2>2. CASE UNCHANGED <<registry, receipt, journal>>
        BY <1>3, <2>1, <2>2
    <2>3. ASSUME NEW p \in Procs, NEW s \in TxIds, Begun(p, s)
          PROVE  OwnReceipt(journal'[t].product, journal'[t].receiptBefore)
        <3>1. CASE s = t
            <4>1. /\ journal'[t].product = ProductOf[p]
                  /\ journal'[t].receiptBefore = receipt[ProductOf[p]]
                BY <2>3, <3>1, BegunJournal
            <4> QED
                BY <4>1, ProductOfAssumption DEF Desired
        <3>2. CASE s # t
            <4>1. journal'[t] = journal[t]
                BY <2>3, <3>2, BegunJournal
            <4> QED
                BY <1>3, <2>1, <4>1
        <3> QED
            BY <3>1, <3>2
    <2>4. ASSUME NEW p \in Procs, Within(p)
          PROVE  OwnReceipt(journal'[t].product, journal'[t].receiptBefore)
        BY <1>3, <2>1, <2>4, WithinJournal
    <2>5. ASSUME NEW p \in Procs, \/ Decides(p, "commit", "committed")
                                  \/ Decides(p, "rb_journal", "rolled_back")
          PROVE  OwnReceipt(journal'[t].product, journal'[t].receiptBefore)
        <3>1. "commit" \in TxSteps /\ "rb_journal" \in TxSteps
            BY DEF TxSteps, CommitSteps, RollbackSteps
        <3> QED
            BY <1>3, <2>1, <2>5, <3>1, DecidesJournal
    <2> QED
        BY <2>2, <2>3, <2>4, <2>5, StepKinds DEF StepKind
<1> QED
    BY <1>1, <1>2, <1>3 DEF Desired

LEMMA InitDesired == Init => Desired
BY DEF Init, Desired, OwnReceipt, NoJournal

-----------------------------------------------------------------------------
(* What the receipt of the product holds at each point of Apply.           *)

ReceiptAt(p) ==
    /\ pc[p] \in {"advance", "stage", "project", "mutate", "backup", "install", "receipt",
                  "rb_journal"}
          => receipt[ProductOf[p]] = Saved(p)
    /\ pc[p] = "commit" => receipt[ProductOf[p]] = NewReceipt(p)

Receipted == \A p \in Procs : ReceiptAt(p)

LEMMA InitReceipted == Init => Receipted
BY DEF Init, Receipted, ReceiptAt

\* As UndecidedStep.
LEMMA ReceiptedStep ==
    ASSUME Serial, NEW p \in Procs, NEW point, pc[p] \in LockedSteps,
           pc' = [pc EXCEPT ![p] = point],
           point \in TxSteps => ReceiptAt(p)'
    PROVE  Receipted'
<1>1. pc'[p] = point /\ \A x \in Procs \ {p} : pc'[x] \notin TxSteps
    BY InsideStep, WatchedAreLocked DEF Serial, Typing, TypeOK, WatchedSteps
<1>2. ASSUME NEW x \in Procs, pc'[x] \notin TxSteps PROVE ReceiptAt(x)'
    BY <1>2 DEF ReceiptAt, TxSteps, CommitSteps, RollbackSteps
<1> QED
    BY <1>1, <1>2 DEF Receipted

\* A step inside a transaction that leaves the receipt alone.
LEMMA ReceiptedTxStep ==
    ASSUME Faultless, Receipted, NEW p \in Procs, Within(p), NEW point,
           pc' = [pc EXCEPT ![p] = point], UNCHANGED <<receipt, plan>>,
           job'[p].tx = job[p].tx, point \notin {"commit", "rb_journal"},
           point \in {"abort", "release"} \cup RollbackSteps
               \/ pc[p] \in {"advance", "stage", "project", "mutate", "backup", "install"}
    PROVE  Receipted'
<1>1. pc[p] \in LockedSteps /\ pc'[p] = point
    BY WatchedAreLocked DEF WatchedSteps, Within, Faultless, Serial, Typing, TypeOK
<1>2. Saved(p)' = Saved(p)
    BY WithinJournal DEF Saved
<1>3. ReceiptAt(p)'
    BY <1>1, <1>2 DEF Receipted, ReceiptAt, TxSteps, CommitSteps, RollbackSteps
<1> QED
    BY <1>1, <1>3, ReceiptedStep DEF Faultless

LEMMA NextReceipted ==
    ASSUME MaxFaults = 0, Faultless, Receipted, [Next]_vars
    PROVE  Receipted'
<1> USE DEF Goto, files, ghosts
<1>0. /\ job \in [Procs -> Jobs] /\ pc \in [Procs -> Points] /\ Serial
      /\ receipt \in [Products -> Receipts \cup {None}]
      /\ WriteResults = {"ok"} /\ MoveResults = {"ok"}
    BY NoFault DEF Faultless, Serial, Typing, TypeOK
<1>1. ASSUME UNCHANGED <<receipt, journal>>,
             \A p \in Procs : pc'[p] \in TxSteps
                 => pc'[p] = pc[p] /\ job'[p] = job[p] /\ plan'[p] = plan[p]
      PROVE  Receipted'
    <2> SUFFICES ASSUME NEW p \in Procs PROVE ReceiptAt(p)'
        BY DEF Receipted
    <2>1. CASE pc'[p] \in TxSteps
        BY <1>1, <2>1 DEF Receipted, ReceiptAt, Saved, NewReceipt
    <2>2. CASE pc'[p] \notin TxSteps
        BY <2>2 DEF ReceiptAt, TxSteps, CommitSteps, RollbackSteps
    <2> QED
        BY <2>1, <2>2
<1>2. ASSUME NEW p \in Procs,
             \/ PlanRequest(p) \/ PlanLoad(p) \/ PlanEvaluate(p) \/ Apply(p)
             \/ AcquireLock(p) \/ AcquireTimeout(p) \/ Release(p) \/ Crash(p)
             \/ Scan(p) \/ Recheck(p)
      PROVE  Receipted'
    <2>1. /\ UNCHANGED <<receipt, journal>>
          /\ \A x \in Procs \ {p} : job'[x] = job[x] /\ plan'[x] = plan[x]
        <3>1. plan \in [Procs -> Plans \cup {None}]
            BY <1>0 DEF Serial, Typing, TypeOK
        <3> QED
            BY <1>0, <1>2, <3>1
            DEF PlanRequest, PlanLoad, PlanEvaluate, Apply, AcquireLock,
                AcquireTimeout, Release, Crash, Scan, Recheck, Return
    <2>2. \E point \in {"load", "evaluate", "idle", "acquire", "scan", "recover", "begin",
                        "release"} : pc' = [pc EXCEPT ![p] = point]
        BY <1>2 DEF PlanRequest, PlanLoad, PlanEvaluate, Apply, AcquireLock,
                    AcquireTimeout, Release, Crash, Scan, Recheck, Return
    <2>3. pc'[p] \notin TxSteps /\ \A x \in Procs \ {p} : pc'[x] = pc[x]
        BY <1>0, <2>2 DEF TxSteps, CommitSteps, RollbackSteps
    <2> QED
        BY <1>1, <2>1, <2>3
<1>3. ASSUME \/ \E p \in Procs : ReapStaleLock(p)
             \/ UserEdit \/ UNCHANGED vars
      PROVE  Receipted'
    BY <1>1, <1>3 DEF ReapStaleLock, UserEdit, vars
<1>4. ASSUME NEW p \in Procs, Recover(p) PROVE Receipted'
    <2>1. pc[p] \in LockedSteps
        BY <1>4 DEF Recover, LockedSteps
    <2>2. \E point \in {"recheck", "rollback"} : pc' = [pc EXCEPT ![p] = point]
        BY <1>4 DEF Recover
    <2>3. ReceiptAt(p)'
        BY <1>0, <2>2 DEF ReceiptAt
    <2> QED
        BY <1>0, <2>1, <2>2, <2>3, ReceiptedStep
<1>5. ASSUME NEW p \in Procs, Begin(p) PROVE Receipted'
    <2>1. pc[p] = "begin" /\ pc[p] \in LockedSteps
        BY <1>5 DEF Begin, LockedSteps, CommitSteps
    <2>2. CASE pc' = [pc EXCEPT ![p] = "release"]
        BY <1>0, <2>1, <2>2, ReceiptedStep DEF TxSteps, CommitSteps, RollbackSteps
    <2>3. ASSUME NEW t \in TxIds, Begun(p, t), pc' = [pc EXCEPT ![p] = "advance"],
                 job' = [job EXCEPT ![p].tx = t, ![p].status = "prepared"]
          PROVE  Receipted'
        <3>1. pc'[p] = "advance" /\ job'[p].tx = t
            BY <1>0, <2>3 DEF Jobs
        <3>2. journal'[t].receiptBefore = receipt[ProductOf[p]] /\ UNCHANGED receipt
            BY <2>3, BegunJournal DEF Begun
        <3>3. ReceiptAt(p)'
            BY <3>1, <3>2 DEF ReceiptAt, Saved
        <3> QED
            BY <1>0, <2>1, <2>3, <3>3, ReceiptedStep
    <2>4. TxIds # {} /\ FreshTx \subseteq TxIds
        BY BoundsAssumption DEF TxIds, FreshTx
    <2>5. \A t \in FreshTx : journal[t].status = "absent"
        BY DEF FreshTx
    <2> QED
        BY <1>0, <1>5, <2>2, <2>3, <2>4, <2>5 DEF Begin, Return, Landed, Begun
<1>6. ASSUME NEW p \in Procs,
             \/ Advance(p) \/ Stage(p) \/ ProjectRegistry(p) \/ RecordMutation(p)
             \/ BackUp(p) \/ InstallTarget(p) \/ PublishRegistry(p)
      PROVE  Receipted'
    <2> USE <1>6 DEF Advance, Stage, ProjectRegistry, RecordMutation, BackUp, InstallTarget,
                     NextTarget, PublishRegistry
    <2>1. Within(p)
        BY WithinSteps
    <2>2. /\ UNCHANGED <<receipt, plan>>
          /\ pc[p] \in {"advance", "stage", "project", "mutate", "backup", "install"}
        OBVIOUS
    <2>3. job'[p].tx = job[p].tx
        BY <1>0 DEF Jobs
    <2>4. \E point \in {"stage", "project", "mutate", "backup", "install", "receipt",
                        "abort"} : pc' = [pc EXCEPT ![p] = point]
        OBVIOUS
    <2> QED
        BY <2>1, <2>2, <2>3, <2>4, ReceiptedTxStep
<1>7. ASSUME NEW p \in Procs,
             \/ Abort(p) \/ StartRollback(p) \/ UndoInspect(p) \/ UndoRemove(p)
             \/ UndoRestore(p) \/ RestoreRegistry(p)
      PROVE  Receipted'
    <2> USE <1>7 DEF Abort, StartRollback, UndoInspect, UndoRemove, UndoRestore,
                     RestoreRegistry, Return, RollbackFails
    <2>1. Within(p)
        BY WithinSteps
    <2>2. UNCHANGED <<receipt, plan>>
        OBVIOUS
    <2>3. job'[p].tx = job[p].tx
        BY <1>0 DEF Jobs
    <2>4. \E point \in {"rollback", "undo", "remove", "restore", "rb_receipt", "release"} :
             pc' = [pc EXCEPT ![p] = point]
        BY <1>0
    <2> QED
        BY <2>1, <2>2, <2>3, <2>4, ReceiptedTxStep DEF RollbackSteps
<1>8. ASSUME NEW p \in Procs, PublishReceipt(p) \/ RestoreReceipt(p) PROVE Receipted'
    <2>1. Within(p) /\ pc[p] \in LockedSteps
        BY <1>8, WithinSteps, WatchedAreLocked DEF WatchedSteps, Within
    <2>2. /\ Saved(p)' = Saved(p) /\ NewReceipt(p)' = NewReceipt(p)
        BY <1>0, <1>8, <2>1, WithinJournal
        DEF PublishReceipt, RestoreReceipt, Saved, NewReceipt
    <2>3. CASE PublishReceipt(p)
        <3>1. pc' = [pc EXCEPT ![p] = "commit"] /\ receipt'[ProductOf[p]] = NewReceipt(p)
            <4>1. PICK o \in {"ok"} :
                     /\ receipt' = IF Landed(o) THEN [receipt EXCEPT ![ProductOf[p]] = NewReceipt(p)]
                                               ELSE receipt
                     /\ Goto(p, IF o = "ok" THEN "commit" ELSE "abort")
                BY <1>0, <2>3 DEF PublishReceipt
            <4>2. receipt' = [receipt EXCEPT ![ProductOf[p]] = NewReceipt(p)]
                BY <4>1 DEF Landed
            <4>3. ProductOf[p] \in DOMAIN receipt
                BY <1>0, ProductOfAssumption
            <4> QED
                BY <4>1, <4>2, <4>3
        <3>2. ReceiptAt(p)'
            BY <1>0, <2>2, <3>1 DEF ReceiptAt
        <3> QED
            BY <1>0, <2>1, <3>1, <3>2, ReceiptedStep
    <2>4. CASE RestoreReceipt(p)
        <3>1. pc' = [pc EXCEPT ![p] = "rb_journal"] /\ receipt'[ProductOf[p]] = Saved(p)
            BY <1>0, <2>4, ProductOfAssumption DEF RestoreReceipt, Landed, Saved
        <3>2. ReceiptAt(p)'
            BY <1>0, <2>2, <3>1 DEF ReceiptAt
        <3> QED
            BY <1>0, <2>1, <3>1, <3>2, ReceiptedStep
    <2> QED
        BY <1>8, <2>3, <2>4
<1>9. ASSUME NEW p \in Procs, CommitJournal(p) \/ FinishRollback(p) PROVE Receipted'
    <2>1. pc[p] \in LockedSteps
        BY <1>9 DEF CommitJournal, FinishRollback, LockedSteps, CommitSteps, RollbackSteps
    <2>2. \E point \in {"release", "recover"} : pc' = [pc EXCEPT ![p] = point]
        BY <1>0, <1>9 DEF CommitJournal, FinishRollback, Return
    <2> QED
        BY <1>0, <2>1, <2>2, ReceiptedStep DEF TxSteps, CommitSteps, RollbackSteps
<1> QED
    BY <1>2, <1>3, <1>4, <1>5, <1>6, <1>7, <1>8, <1>9 DEF Next, Step

-----------------------------------------------------------------------------
(* Apply is atomic.                                                        *)

LEMMA OwnTransaction ==
    ASSUME Faultless, OwnRecovery, NEW p \in Procs, pc[p] \in TxSteps
    PROVE  OwnerOf(p) = ProductOf[p]
<1>1. CASE ~job[p].recovering
    BY <1>1 DEF Faultless, UnderLock, TransactionAt
<1>2. CASE job[p].recovering
    BY <1>2 DEF Faultless, Serial, InFlightIsOwn, OwnRecovery, TxSteps
<1> QED
    BY <1>1, <1>2

\* The receipts that count move by the commit of a plan alone.
LEMMA DecidedReceiptSteps ==
    ASSUME MaxFaults = 0, Faultless, Receipted, OwnRecovery, [Next]_vars
    PROVE  \/ UNCHANGED <<DecidedReceipt, Committed>>
           \/ \E p \in Procs :
                 /\ Decides(p, "commit", "committed")
                 /\ Committed' # Committed
                 /\ DecidedReceipt[ProductOf[p]] = Saved(p)
                 /\ DecidedReceipt' = [DecidedReceipt EXCEPT ![ProductOf[p]] = NewReceipt(p)]
<1>0. receipt \in [Products -> Receipts \cup {None}]
    BY DEF Faultless, Serial, Typing, TypeOK
<1>1. CASE UNCHANGED <<registry, receipt, journal>>
    BY <1>1, SameIncomplete DEF DecidedReceipt, InFlight, Committed
<1>2. ASSUME NEW p \in Procs, NEW t \in TxIds, Begun(p, t)
      PROVE  UNCHANGED <<DecidedReceipt, Committed>>
    <2>1. InFlight' = t /\ Incomplete' # {}
        BY <1>2, BegunJournal DEF InFlight
    <2>2. DecidedReceipt' = [receipt EXCEPT ![ProductOf[p]] = receipt[ProductOf[p]]]
        <3>1. /\ journal'[t].product = ProductOf[p]
              /\ journal'[t].receiptBefore = receipt[ProductOf[p]]
            BY <1>2, BegunJournal
        <3>2. UNCHANGED receipt
            BY <1>2 DEF Begun
        <3> QED
            BY <2>1, <3>1, <3>2 DEF DecidedReceipt
    <2>3. DecidedReceipt = receipt
        BY <1>2, BegunJournal DEF DecidedReceipt
    <2> QED
        BY <1>0, <1>2, <2>2, <2>3, BegunJournal
<1>3. ASSUME NEW p \in Procs, Within(p)
      PROVE  UNCHANGED <<DecidedReceipt, Committed>>
    <2>1. /\ InFlight' = job[p].tx /\ InFlight = job[p].tx
          /\ Incomplete # {} /\ Incomplete' # {}
        BY <1>3, WithinJournal DEF InFlight
    <2>2. journal[job[p].tx].product = ProductOf[p]
        BY <1>3, OwnTransaction DEF OwnerOf, Within
    <2>3. DecidedReceipt = [receipt EXCEPT ![ProductOf[p]] = Saved(p)]
        BY <2>1, <2>2 DEF DecidedReceipt, Saved
    <2>4. DecidedReceipt' = [receipt' EXCEPT ![ProductOf[p]] = Saved(p)]
        BY <1>3, <2>1, <2>2, WithinJournal DEF DecidedReceipt, Saved
    <2>5. UNCHANGED receipt \/ \E r : receipt' = [receipt EXCEPT ![ProductOf[p]] = r]
        BY <1>3 DEF Within
    <2> QED
        BY <1>0, <1>3, <2>3, <2>4, <2>5, WithinJournal
<1>4. ASSUME NEW p \in Procs, Decides(p, "commit", "committed")
      PROVE  /\ Committed' # Committed
             /\ DecidedReceipt[ProductOf[p]] = Saved(p)
             /\ DecidedReceipt' = [DecidedReceipt EXCEPT ![ProductOf[p]] = NewReceipt(p)]
    <2>1. "commit" \in TxSteps /\ pc[p] = "commit"
        BY <1>4 DEF TxSteps, CommitSteps, Decides
    <2>2. InFlight = job[p].tx /\ Incomplete # {} /\ Incomplete' = {}
        BY <1>4, <2>1, DecidesJournal DEF InFlight
    <2>3. journal[job[p].tx].product = ProductOf[p]
        BY <2>1, OwnTransaction DEF OwnerOf
    <2>4. DecidedReceipt = [receipt EXCEPT ![ProductOf[p]] = Saved(p)]
        BY <2>2, <2>3 DEF DecidedReceipt, Saved
    <2>5. DecidedReceipt' = receipt
        BY <1>4, <2>2 DEF DecidedReceipt, Decides
    <2>6. receipt[ProductOf[p]] = NewReceipt(p)
        BY <2>1 DEF Receipted, ReceiptAt
    <2>7. ProductOf[p] \in Products
        BY ProductOfAssumption
    <2>8. Committed' # Committed
        BY <1>4, <2>1, DecidesJournal
    <2> QED
        BY <1>0, <2>4, <2>5, <2>6, <2>7, <2>8
<1>5. ASSUME NEW p \in Procs, Decides(p, "rb_journal", "rolled_back")
      PROVE  UNCHANGED <<DecidedReceipt, Committed>>
    <2>1. "rb_journal" \in TxSteps /\ pc[p] = "rb_journal"
        BY <1>5 DEF TxSteps, RollbackSteps, Decides
    <2>2. InFlight = job[p].tx /\ Incomplete # {} /\ Incomplete' = {}
        BY <1>5, <2>1, DecidesJournal DEF InFlight
    <2>3. journal[job[p].tx].product = ProductOf[p]
        BY <2>1, OwnTransaction DEF OwnerOf
    <2>4. DecidedReceipt = [receipt EXCEPT ![ProductOf[p]] = Saved(p)]
        BY <2>2, <2>3 DEF DecidedReceipt, Saved
    <2>5. DecidedReceipt' = receipt
        BY <1>5, <2>2 DEF DecidedReceipt, Decides
    <2>6. receipt[ProductOf[p]] = Saved(p)
        BY <2>1 DEF Receipted, ReceiptAt
    <2>7. Committed' = Committed
        BY <1>5, <2>1, DecidesJournal
    <2> QED
        BY <1>0, <2>4, <2>5, <2>6, <2>7
<1> QED
    BY <1>1, <1>2, <1>3, <1>4, <1>5, StepKinds DEF StepKind

\* The step of AtomicApply a commit stands for.
LEMMA CommitIsAtomic ==
    ASSUME Typing, NEW p \in Procs, Projected(p),
           plan[p] # None, plan[p].desired \in Atomic!Desirable(ProductOf[p]),
           DecidedRegistry = Before(p), DecidedRegistry' = job[p].reg,
           DecidedReceipt[ProductOf[p]] = Saved(p),
           DecidedReceipt' = [DecidedReceipt EXCEPT ![ProductOf[p]] = NewReceipt(p)]
    PROVE  Atomic!Commit(ProductOf[p], plan[p].desired)
<1> DEFINE q == ProductOf[p]
           desired == plan[p].desired
<1>1. PICK tree : job[p].reg = Project(DecidedRegistry, tree, q, desired)
    BY DEF Projected
<1>2. ~Atomic!ProjectionConflict(DecidedRegistry, q, desired)
    BY SameOperators DEF Projected
<1>3. DecidedRegistry'.revision = DecidedRegistry.revision + 1
    BY <1>1 DEF Project
<1>4. DecidedRegistry'.claims = [k \in Atomic!Keys |->
             [DecidedRegistry.claims[k] EXCEPT ![q] =
                 IF desired.digest[k] = None THEN None ELSE desired.version]]
    BY <1>1 DEF Project, Keys, Atomic!Keys
<1>5. ASSUME NEW k \in Atomic!Keys
      PROVE  DecidedRegistry'.digest[k] \in
                 IF desired.digest[k] = None THEN Atomic!Remainder(q, k)
                 ELSE {desired.digest[k]}
    <2>1. k \in Keys
        BY DEF Keys, Atomic!Keys
    <2>2. DecidedRegistry'.digest[k] =
              IF desired.digest[k] # None THEN desired.digest[k]
              ELSE IF Shared(DecidedRegistry, k, q)
                      \/ tree[k] \notin {None, DecidedRegistry.digest[k]}
              THEN DecidedRegistry.digest[k] ELSE None
        BY <1>1, <2>1 DEF Project
    <2> QED
        BY <2>2, SameOperators DEF Atomic!Remainder
<1>6. DecidedReceipt' = [DecidedReceipt EXCEPT ![q] =
         [ product |-> q, revision |-> DecidedRegistry.revision + 1, current |-> desired,
           previous |-> IF DecidedReceipt[q] = None THEN None
                        ELSE DecidedReceipt[q].current ]]
    BY <1>3 DEF NewReceipt, Saved
<1> QED
    BY <1>2, <1>3, <1>4, <1>5, <1>6 DEF Atomic!Commit

LEMMA AtomicStep ==
    ASSUME MaxFaults = 0, Faultless, Desired, Receipted, OwnRecovery, [Next]_vars
    PROVE  [Atomic!Next]_<<DecidedRegistry, DecidedReceipt>>
<1>1. CASE UNCHANGED Committed
    <2>1. UNCHANGED DecidedRegistry
        BY <1>1, DecidedRegistrySteps
    <2>2. UNCHANGED DecidedReceipt
        BY <1>1, DecidedReceiptSteps
    <2> QED
        BY <2>1, <2>2
<1>2. CASE Committed' # Committed
    <2>1. PICK p \in Procs :
             /\ Decides(p, "commit", "committed")
             /\ DecidedReceipt[ProductOf[p]] = Saved(p)
             /\ DecidedReceipt' = [DecidedReceipt EXCEPT ![ProductOf[p]] = NewReceipt(p)]
        BY <1>2, DecidedReceiptSteps
    <2>2. PICK x \in Procs :
             /\ Decides(x, "commit", "committed")
             /\ DecidedRegistry = Before(x) /\ DecidedRegistry' = job[x].reg
        BY <1>2, DecidedRegistrySteps
    <2>3. x = p
        BY <2>1, <2>2 DEF Decides, Faultless, Serial, LockDiscipline, LockedSteps, CommitSteps
    <2>4. Projected(p) /\ plan[p] # None
        BY <2>1 DEF Decides, Faultless, UnderLock, RegistryAt, Serial, Typing, InHand
    <2>5. Atomic!Commit(ProductOf[p], plan[p].desired)
        BY <2>1, <2>2, <2>3, <2>4, CommitIsAtomic DEF Desired, Faultless, Serial
    <2>6. plan[p].desired \in Atomic!Desirable(ProductOf[p]) /\ ProductOf[p] \in Products
        BY <2>4, ProductOfAssumption DEF Desired
    <2> QED
        BY <2>5, <2>6 DEF Atomic!Next
<1> QED
    BY <1>1, <1>2

LEMMA InitAtomic == Init => Atomic!Init
<1> SUFFICES ASSUME Init PROVE Atomic!Init
    OBVIOUS
<1>1. Incomplete = {}
    BY DEF Init, Incomplete, NoJournal
<1> QED
    BY <1>1, SameOperators DEF Init, Atomic!Init, DecidedRegistry, DecidedReceipt

LEMMA DesiredAlways ==
    ASSUME MaxExpiries = 0, MaxFaults = 0
    PROVE  Spec /\ []OwnRecovery => [](Faultless /\ Desired /\ Receipted)
<1>1. Faultless /\ OwnRecovery /\ Desired /\ Receipted /\ [Next]_vars
      => Desired' /\ Receipted'
    BY NextDesired, NextReceipted
<1> QED
    BY <1>1, InitDesired, InitReceipted, FaultlessAlways, PTL DEF Spec

\* From one committed plan to the next in one step: with any number of processes,
\* products, targets, applies, crashes and user edits, as long as each product
\* recovers its own transactions (the configuration v_cross_receipt is the
\* behaviour where one does not).
THEOREM ApplyIsAtomic ==
    ASSUME MaxExpiries = 0, MaxFaults = 0
    PROVE  Spec /\ []OwnRecovery => ImplementsAtomicApply
<1>1. Faultless /\ Desired /\ Receipted /\ OwnRecovery /\ [Next]_vars
      => [Atomic!Next]_<<DecidedRegistry, DecidedReceipt>>
    BY AtomicStep
<1> QED
    BY <1>1, InitAtomic, DesiredAlways, PTL DEF Spec, ImplementsAtomicApply, Atomic!Spec

\* A product on its own has nobody else's transactions to recover.
LEMMA AloneOwnRecovery ==
    ASSUME \A q, r \in Products : q = r, Faultless
    PROVE  OwnRecovery
<1> SUFFICES ASSUME NEW p \in Procs, pc[p] \in RollbackSteps PROVE OwnerOf(p) = ProductOf[p]
    BY DEF OwnRecovery
<1>1. job[p].tx \in TxIds
    BY UnfinishedOne DEF TxSteps
<1>2. OwnerOf(p) \in Products
    BY <1>1 DEF OwnerOf, Faultless, Serial, Typing, TypeOK, Journals
<1> QED
    BY <1>2, ProductOfAssumption

\* With one product the premise holds by itself.
THEOREM ApplyIsAtomicAlone ==
    ASSUME MaxExpiries = 0, MaxFaults = 0, \A q, r \in Products : q = r
    PROVE  Spec => ImplementsAtomicApply
<1>1. Faultless => OwnRecovery
    BY AloneOwnRecovery
<1> QED
    BY <1>1, ApplyIsAtomic, FaultlessAlways, PTL

-----------------------------------------------------------------------------
(* Receipts and registry agree.                                            *)

\* Of the registry and the receipts that count: each product's claims are the
\* entries of its receipt.
Agreed ==
    \A q \in Products : \A k \in Keys :
        LET r == DecidedReceipt[q]
            wanted == IF r = None THEN None ELSE r.current.digest[k]
        IN  /\ (DecidedRegistry.claims[k][q] # None) <=> (wanted # None)
            /\ wanted # None => /\ DecidedRegistry.claims[k][q] = r.current.version
                                /\ DecidedRegistry.digest[k] = wanted
                                /\ r.product = q

LEMMA DecidedReceiptType ==
    ASSUME Typing PROVE DecidedReceipt \in [Products -> Receipts \cup {None}]
<1>1. CASE Incomplete = {}
    BY <1>1 DEF DecidedReceipt, Typing, TypeOK
<1>2. CASE Incomplete # {}
    <2>1. InFlight \in TxIds
        BY <1>2 DEF InFlight, Incomplete
    <2> QED
        BY <1>2, <2>1 DEF DecidedReceipt, Typing, TypeOK, Journals
<1> QED
    BY <1>1, <1>2

LEMMA DesirableType ==
    ASSUME NEW q \in Products PROVE Atomic!Desirable(q) \subseteq Snapshots
<1>1. \A s \in Snapshots : Emptied(s) \in Snapshots
    BY DEF Emptied, Snapshots
<1>2. Bundles[q] \cup Legacies[q] \subseteq Snapshots
    BY BundlesAssumption
<1> QED
    BY <1>1, <1>2, SameOperators DEF Atomic!Desirable

\* The step of AtomicApply keeps the agreement: what it says of its own product is
\* what it writes, and a digest another product claims it must not change.
LEMMA CommitAgrees ==
    ASSUME Typing, Agreed, NEW q \in Products, NEW desired \in Snapshots,
           Atomic!Commit(q, desired)
    PROVE  Agreed'
<1>0. /\ DecidedRegistry \in Registries
      /\ DecidedReceipt \in [Products -> Receipts \cup {None}]
      /\ Atomic!Keys = Keys
    BY DecidedRegistryType, DecidedReceiptType DEF Atomic!Keys, Keys
<1> SUFFICES ASSUME NEW r \in Products, NEW k \in Keys
             PROVE  LET rec == DecidedReceipt'[r]
                        wanted == IF rec = None THEN None ELSE rec.current.digest[k]
                    IN  /\ (DecidedRegistry'.claims[k][r] # None) <=> (wanted # None)
                        /\ wanted # None =>
                              /\ DecidedRegistry'.claims[k][r] = rec.current.version
                              /\ DecidedRegistry'.digest[k] = wanted
                              /\ rec.product = r
    BY DEF Agreed
<1>1. DecidedRegistry'.claims[k] = [DecidedRegistry.claims[k] EXCEPT ![q] =
          IF desired.digest[k] = None THEN None ELSE desired.version]
    BY <1>0 DEF Atomic!Commit
<1>2. DecidedRegistry'.digest[k] \in
          IF desired.digest[k] = None THEN Atomic!Remainder(q, k) ELSE {desired.digest[k]}
    BY <1>0 DEF Atomic!Commit
<1> DEFINE new == [ product |-> q, revision |-> DecidedRegistry.revision + 1, current |-> desired,
                    previous |-> IF DecidedReceipt[q] = None THEN None
                                 ELSE DecidedReceipt[q].current ]
<1>3. DecidedReceipt' = [DecidedReceipt EXCEPT ![q] = new]
    BY DEF Atomic!Commit
<1>4. new # None
    <2>1. DecidedRegistry.revision + 1 \in Nat
        BY <1>0 DEF Registries
    <2>2. DecidedReceipt[q] # None => DecidedReceipt[q].current \in Snapshots
        BY <1>0 DEF Receipts
    <2>3. new \in Receipts
        BY <2>1, <2>2 DEF Receipts
    <2> QED
        BY <2>3, NoRecordAssumption
<1>5. new.current = desired /\ new.product = q
    OBVIOUS
<1> HIDE DEF new
<1>6. CASE r = q
    <2>1. DecidedReceipt'[r] = new
        BY <1>0, <1>3, <1>6
    <2>2. DecidedRegistry'.claims[k][r] =
              IF desired.digest[k] = None THEN None ELSE desired.version
        BY <1>0, <1>1, <1>6 DEF Registries
    <2>3. desired.version # None
        BY NoneAssumption DEF Snapshots
    <2> QED
        BY <1>2, <1>4, <1>5, <1>6, <2>1, <2>2, <2>3
<1>7. CASE r # q
    <2>1. DecidedReceipt'[r] = DecidedReceipt[r]
        BY <1>0, <1>3, <1>7
    <2>2. DecidedRegistry'.claims[k][r] = DecidedRegistry.claims[k][r]
        BY <1>0, <1>1, <1>7 DEF Registries
    <2>3. ASSUME DecidedRegistry.claims[k][r] # None
          PROVE  DecidedRegistry'.digest[k] = DecidedRegistry.digest[k]
        <3>1. Shared(DecidedRegistry, k, q)
            BY <1>7, <2>3 DEF Shared
        <3>2. ~ProjectionConflict(DecidedRegistry, q, desired)
            BY SameOperators DEF Atomic!Commit
        <3>3. desired.digest[k] \in {None, DecidedRegistry.digest[k]}
            BY <3>1, <3>2 DEF ProjectionConflict
        <3> QED
            BY <1>2, <3>1, <3>3, SameOperators DEF Atomic!Remainder
    <2> QED
        BY <2>1, <2>2, <2>3 DEF Agreed
<1> QED
    BY <1>6, <1>7

LEMMA InitAgreed == Init => Agreed
<1> SUFFICES ASSUME Init PROVE Agreed
    OBVIOUS
<1>1. DecidedRegistry = EmptyRegistry /\ DecidedReceipt = [q \in Products |-> None]
    BY InitAtomic, SameOperators DEF Atomic!Init
<1> QED
    BY <1>1 DEF Agreed, EmptyRegistry

\* When nobody is inside and nothing is unfinished, what counts is what is on disk.
LEMMA SettledAgreed == Agreed => ReceiptRegistryAgreement
<1> SUFFICES ASSUME Agreed, Settled PROVE ReceiptRegistryAgreement
    BY DEF ReceiptRegistryAgreement
<1>1. DecidedRegistry = registry /\ DecidedReceipt = receipt
    BY DEF Settled, DecidedRegistry, DecidedReceipt
<1> QED
    BY <1>1 DEF Agreed, ReceiptRegistryAgreement

LEMMA AgreedAlways ==
    ASSUME MaxExpiries = 0, MaxFaults = 0
    PROVE  Spec /\ []OwnRecovery => [](Faultless /\ Desired /\ Receipted /\ Agreed)
<1>1. Faultless /\ Desired /\ Receipted /\ OwnRecovery /\ Agreed /\ [Next]_vars => Agreed'
    <2> SUFFICES ASSUME Faultless, Desired, Receipted, OwnRecovery, Agreed, [Next]_vars
                 PROVE  Agreed'
        OBVIOUS
    <2>1. CASE UNCHANGED <<DecidedRegistry, DecidedReceipt>>
        BY <2>1 DEF Agreed
    <2>2. ASSUME NEW q \in Products, NEW desired \in Atomic!Desirable(q),
                 Atomic!Commit(q, desired)
          PROVE  Agreed'
        BY <2>2, DesirableType, CommitAgrees DEF Faultless, Serial
    <2> QED
        BY <2>1, <2>2, AtomicStep DEF Atomic!Next
<1> QED
    BY <1>1, InitAgreed, DesiredAlways, PTL DEF Spec

\* The receipts and the shared registry tell the same story whenever no Apply is
\* under way: it follows from the atomicity of Apply.
THEOREM ReceiptsAgree ==
    ASSUME MaxExpiries = 0, MaxFaults = 0
    PROVE  Spec /\ []OwnRecovery => []ReceiptRegistryAgreement
BY AgreedAlways, SettledAgreed, PTL

\* With one product the receipts agree with no premise on who recovers what.
THEOREM ReceiptsAgreeAlone ==
    ASSUME MaxExpiries = 0, MaxFaults = 0, \A q, r \in Products : q = r
    PROVE  Spec => []ReceiptRegistryAgreement
<1>1. Faultless => OwnRecovery
    BY AloneOwnRecovery
<1> QED
    BY <1>1, ReceiptsAgree, FaultlessAlways, PTL
=============================================================================
